---------------------------- MODULE PipelineProofs ----------------------------
(***************************************************************************)
(* What the pipeline simulator charges for data hazards, for every set of  *)
(* registers and every program: with 5 stages what the schedule of the     *)
(* report asks for; with 5 and 13 stages never less than it asks for       *)
(* between instructions that tell Instrucao of the register.  At the end,  *)
(* what the builds with the different branch predictors are charged.       *)
(***************************************************************************)
EXTENDS Superscalar, BranchPredictor, TLAPS

Instructions == Program[build] \cup {Bubble}

\* The types of the histories and of the schedule.
ScheduleTypes ==
  /\ build \in Builds
  /\ p \in [0 .. Seen - 1 -> Instructions]
  /\ since \in [Registers -> 1 .. Far]
  /\ writer \in [Registers -> Data \cup Control \cup {"BUBBLE"}]
  /\ hidden \subseteq Registers
  /\ debt \in Int
  /\ unseen \in BOOLEAN

\* What the assumptions say of every instruction a history can hold.
LEMMA InstructionFacts ==
  ASSUME build \in Builds, NEW i \in Instructions
  PROVE  /\ i.t \in Data \cup Control \cup {"BUBBLE"}
         /\ i.uses \subseteq Registers /\ i.writes \subseteq Registers
         /\ i.dest \in Registers \cup {None}
         /\ i.dest # None => i.dest \in i.writes \ HiLo
         /\ Sources(i) \cap HiLo = {}
         /\ Sources(i) \cap Registers \subseteq i.uses \cup {i.dest}
         /\ i.uses \ Sources(i) \subseteq IF i.t = "OUTRAS" THEN HiLo
                                          ELSE IF i.t = "LOAD" THEN {i.dest} ELSE {}
         /\ i.writes \ {i.dest} \subseteq IF i.t = "OUTRAS" THEN HiLo
                                          ELSE IF i.t \in Control THEN Registers \ HiLo ELSE {}
         /\ i.uses \cap HiLo # {} => i.rs = None /\ i.rt = None
         /\ i.writes \cap HiLo # {} => i.dest = None
         /\ i.t \in {"STORE", "BRANCH", "BUBBLE"} => i.dest = None
         /\ i.t = "LOAD" => i.dest # None
<1>1. CASE i \in Program[build]
  <2>1. /\ i.t \in Data \cup Control \cup {"BUBBLE"}
        /\ i.uses \subseteq Registers /\ i.writes \subseteq Registers
        /\ i.dest \in Registers \cup {None}
    BY <1>1, PipelineAssumption
  <2>2. /\ i.dest # None => i.dest \in i.writes \ HiLo
        /\ Sources(i) \cap HiLo = {}
        /\ Sources(i) \cap Registers \subseteq i.uses \cup {i.dest}
        /\ i.uses \cap HiLo # {} => i.rs = None /\ i.rt = None
        /\ i.writes \cap HiLo # {} => i.dest = None
        /\ i.t \in {"STORE", "BRANCH", "BUBBLE"} => i.dest = None
        /\ i.t = "LOAD" => i.dest # None
    BY <1>1, ToldAssumption
  <2>3. /\ i.uses \ Sources(i) \subseteq CASE i.t = "OUTRAS" -> HiLo
                                            [] i.t = "LOAD" -> {i.dest}
                                            [] OTHER -> {}
        /\ i.writes \ {i.dest} \subseteq CASE i.t = "OUTRAS" -> HiLo
                                            [] i.t \in Control -> Registers \ HiLo
                                            [] OTHER -> {}
    BY <1>1, ToldAssumption
  <2>4. "OUTRAS" \notin Control /\ "LOAD" # "OUTRAS"
    BY DEF Control
  <2> QED
    BY <2>1, <2>2, <2>3, <2>4
<1>2. CASE i = Bubble
  BY <1>2 DEF Bubble, Sources
<1> QED
  BY <1>1, <1>2 DEF Instructions

\* The greatest element of a set of integers that has zero and nothing above five.
LEMMA GreatestOf ==
  ASSUME NEW S \in SUBSET Int, 0 \in S, \A x \in S : x <= 5
  PROVE  Max(S) \in 0 .. 5 /\ Max(S) \in S /\ \A x \in S : x <= Max(S)
<1>1. \E m \in S : m \in 0 .. 5 /\ \A x \in S : m >= x
  <2>1. CASE 5 \in S
    BY <2>1
  <2>2. CASE 4 \in S /\ 5 \notin S
    BY <2>2
  <2>3. CASE 3 \in S /\ 5 \notin S /\ 4 \notin S
    BY <2>3
  <2>4. CASE 2 \in S /\ 5 \notin S /\ 4 \notin S /\ 3 \notin S
    BY <2>4
  <2>5. CASE 1 \in S /\ 5 \notin S /\ 4 \notin S /\ 3 \notin S /\ 2 \notin S
    BY <2>5
  <2>6. CASE 5 \notin S /\ 4 \notin S /\ 3 \notin S /\ 2 \notin S /\ 1 \notin S
    BY <2>6
  <2> QED
    BY <2>1, <2>2, <2>3, <2>4, <2>5, <2>6
<1>2. Max(S) \in S /\ \A x \in S : Max(S) >= x
  BY <1>1 DEF Max
<1>3. PICK m \in S : m \in 0 .. 5 /\ \A x \in S : m >= x
  BY <1>1
<1>4. Max(S) >= m /\ m >= Max(S) /\ Max(S) \in Int
  BY <1>2, <1>3
<1>5. Max(S) = m
  BY <1>3, <1>4
<1> QED
  BY <1>3, <1>5

\* The first rule that applies is the one that is charged.
LEMMA ChargeFirst ==
  ASSUME NEW rules, DOMAIN rules \subseteq Int, NEW consumers, NEW q,
         NEW n \in DOMAIN rules, Applies(rules[n], consumers, q),
         \A m \in DOMAIN rules : m < n => ~Applies(rules[m], consumers, q)
  PROVE  Charge(rules, consumers, q) =
           [p |-> Stall(q, rules[n].pos, rules[n].cicles), cicles |-> rules[n].cicles]
<1> DEFINE hits == {m \in DOMAIN rules : Applies(rules[m], consumers, q)}
<1>1. n \in hits /\ \A m \in hits : n <= m
  OBVIOUS
<1>2. \A x \in hits : (\A m \in hits : x <= m) => x = n
  BY <1>1
<1>3. Min(hits) \in hits /\ \A m \in hits : Min(hits) <= m
  <2> HIDE DEF hits
  <2> QED
    BY <1>1 DEF Min
<1>4. Min(hits) = n
  BY <1>2, <1>3
<1> HIDE DEF hits
<1>5. hits # {}
  BY <1>1
<1> QED
  BY <1>4, <1>5 DEF Charge, hits

\* When none applies, nothing is charged and the history stays.
LEMMA ChargeNone ==
  ASSUME NEW rules, NEW consumers, NEW q,
         \A m \in DOMAIN rules : ~Applies(rules[m], consumers, q)
  PROVE  Charge(rules, consumers, q) = [p |-> q, cicles |-> 0]
<1>1. {m \in DOMAIN rules : Applies(rules[m], consumers, q)} = {}
  OBVIOUS
<1> QED
  BY <1>1 DEF Charge

\* The schedule charges what the register that is furthest behind asks for.
LEMMA StallsFacts ==
  ASSUME ScheduleTypes, NEW i, NEW regs \in SUBSET Registers
  PROVE  /\ StallsFor(i, regs) \in 0 .. 5
         /\ \A r \in regs : Needed(writer[r], i.t) - since[r] <= StallsFor(i, regs)
         /\ \/ StallsFor(i, regs) = 0
            \/ \E r \in regs : StallsFor(i, regs) = Needed(writer[r], i.t) - since[r]
<1> DEFINE S == {0} \cup {Needed(writer[r], i.t) - since[r] : r \in regs}
<1>1. \A r \in regs : Needed(writer[r], i.t) \in 0 .. 5 /\ since[r] \in 1 .. 5
  BY DEF ScheduleTypes, Needed, Far
<1>2. \A r \in regs : Needed(writer[r], i.t) - since[r] \in Int /\ Needed(writer[r], i.t) - since[r] <= 5
  BY <1>1
<1>3. S \in SUBSET Int /\ 0 \in S /\ \A x \in S : x <= 5
  BY <1>2
<1>4. Max(S) \in 0 .. 5 /\ Max(S) \in S /\ \A x \in S : x <= Max(S)
  <2> HIDE DEF S
  <2> QED
    BY <1>3, GreatestOf
<1>5. StallsFor(i, regs) = Max(S)
  BY DEF StallsFor
<1>6. \A r \in regs : Needed(writer[r], i.t) - since[r] \in S
  OBVIOUS
<1>7. \A x \in S : x = 0 \/ \E r \in regs : x = Needed(writer[r], i.t) - since[r]
  OBVIOUS
<1> HIDE DEF S
<1> QED
  BY <1>4, <1>5, <1>6, <1>7

\* What is told is a part of what the schedule stalls for.
LEMMA ReferenceFacts ==
  ASSUME ScheduleTypes, NEW i \in Instructions
  PROVE  /\ ReferenceStalls(i) \in 0 .. 5 /\ ToldStalls(i) \in 0 .. 5
         /\ ToldStalls(i) <= ReferenceStalls(i)
         /\ \A r \in i.uses : Needed(writer[r], i.t) - since[r] <= ReferenceStalls(i)
         /\ \/ ReferenceStalls(i) = 0
            \/ \E r \in i.uses : ReferenceStalls(i) = Needed(writer[r], i.t) - since[r]
         /\ \A r \in Told(i) \ hidden : Needed(writer[r], i.t) - since[r] <= ToldStalls(i)
         /\ \/ ToldStalls(i) = 0
            \/ \E r \in Told(i) \ hidden : ToldStalls(i) = Needed(writer[r], i.t) - since[r]
<1>1. i.uses \in SUBSET Registers /\ Told(i) \ hidden \in SUBSET Registers /\ Told(i) \ hidden \subseteq i.uses
  BY InstructionFacts DEF ScheduleTypes, Told
<1> DEFINE told == Told(i) \ hidden
<1>2. ReferenceStalls(i) = StallsFor(i, i.uses) /\ ToldStalls(i) = StallsFor(i, told)
  BY DEF ReferenceStalls, ToldStalls
<1>3. told \in SUBSET Registers /\ told \subseteq i.uses
  BY <1>1
<1>4. /\ StallsFor(i, i.uses) \in 0 .. 5
      /\ \A r \in i.uses : Needed(writer[r], i.t) - since[r] <= StallsFor(i, i.uses)
      /\ \/ StallsFor(i, i.uses) = 0
         \/ \E r \in i.uses : StallsFor(i, i.uses) = Needed(writer[r], i.t) - since[r]
  BY <1>1, StallsFacts
<1> HIDE DEF told
<1>5. /\ StallsFor(i, told) \in 0 .. 5
      /\ \A r \in told : Needed(writer[r], i.t) - since[r] <= StallsFor(i, told)
      /\ \/ StallsFor(i, told) = 0
         \/ \E r \in told : StallsFor(i, told) = Needed(writer[r], i.t) - since[r]
  BY <1>3, StallsFacts
<1>6. StallsFor(i, told) <= StallsFor(i, i.uses)
  BY <1>3, <1>4, <1>5
<1> QED
  BY <1>2, <1>4, <1>5, <1>6 DEF told

\* Shifts keep the length of a history and put only bubbles in.
LEMMA ShiftTypes ==
  ASSUME NEW n \in Nat \ {0}, NEW I, Bubble \in I, NEW q \in [0 .. n - 1 -> I]
  PROVE  /\ \A i \in I : Push(q, i) \in [0 .. n - 1 -> I]
         /\ \A m \in Nat : Flush(q, m) \in [0 .. n - 1 -> I]
         /\ \A pos \in Nat, c \in Nat : Stall(q, pos, c) \in [0 .. n - 1 -> I]
<1>1. DOMAIN q = 0 .. n - 1 /\ \A k \in 0 .. n - 1 : q[k] \in I
  OBVIOUS
<1>2. ASSUME NEW i \in I PROVE Push(q, i) \in [0 .. n - 1 -> I]
  <2>1. \A k \in 0 .. n - 1 : k # 0 => k - 1 \in 0 .. n - 1
    OBVIOUS
  <2> QED
    BY <1>1, <2>1 DEF Push
<1>3. ASSUME NEW m \in Nat PROVE Flush(q, m) \in [0 .. n - 1 -> I]
  <2>1. \A k \in 0 .. n - 1 : ~(k < m) => k - m \in 0 .. n - 1
    OBVIOUS
  <2> QED
    BY <1>1, <2>1 DEF Flush
<1>4. ASSUME NEW pos \in Nat, NEW c \in Nat PROVE Stall(q, pos, c) \in [0 .. n - 1 -> I]
  <2>1. \A k \in 0 .. n - 1 : ~(k <= pos + c) => k - c \in 0 .. n - 1
    OBVIOUS
  <2> QED
    BY <1>1, <2>1 DEF Stall
<1> QED
  BY <1>2, <1>3, <1>4

\* An insertion keeps the types when update keeps those of the history.
LEMMA TypesStep ==
  ASSUME ScheduleTypes, NEW i \in Program[build], NEW missed \in BOOLEAN, Insert(i, missed),
         Update(Push(p, i)).p \in [0 .. Seen - 1 -> Instructions],
         Update(Push(p, i)).cicles \in Int
  PROVE  ScheduleTypes'
<1>1. build' = build
  BY DEF Insert
<1>2. Instructions' = Instructions /\ Seen' = Seen /\ Seen \in Nat \ {0} /\ Bubble \in Instructions
  BY <1>1 DEF Instructions, Seen
<1>3. Penalty(i, missed) \in Nat
  BY DEF Penalty, MISSPREDICT_PENALTY
<1>4. p' \in [0 .. Seen - 1 -> Instructions]
  BY <1>2, <1>3, ShiftTypes DEF Insert
<1>5. ReferenceStalls(i) \in 0 .. 5 /\ ToldStalls(i) \in 0 .. 5
  BY ReferenceFacts DEF Instructions
<1>6. since' \in [Registers -> 1 .. Far]
  <2>1. \A r \in Registers : since[r] \in 1 .. 5
    BY DEF ScheduleTypes, Far
  <2> DEFINE later(c) == IF c > Far THEN Far ELSE c
  <2>2. since' = [r \in Registers |->
                    IF r \in i.writes THEN later(1 + Penalty(i, missed))
                    ELSE later(since[r] + ReferenceStalls(i) + 1 + Penalty(i, missed))]
    BY DEF Insert
  <2>3. \A c \in Nat \ {0} : later(c) \in 1 .. Far
    BY DEF Far
  <2>4. 1 + Penalty(i, missed) \in Nat \ {0}
    BY <1>3
  <2>5. \A r \in Registers : since[r] + ReferenceStalls(i) + 1 + Penalty(i, missed) \in Nat \ {0}
    BY <1>3, <1>5, <2>1, SMTT(30)
  <2> HIDE DEF later
  <2>6. later(1 + Penalty(i, missed)) \in 1 .. Far
    BY <2>3, <2>4
  <2>7. \A r \in Registers : later(since[r] + ReferenceStalls(i) + 1 + Penalty(i, missed)) \in 1 .. Far
    BY <2>3, <2>5
  <2> QED
    BY <2>2, <2>6, <2>7
<1>7. writer' \in [Registers -> Data \cup Control \cup {"BUBBLE"}]
  <2>1. i.t \in Data \cup Control \cup {"BUBBLE"}
    BY PipelineAssumption DEF ScheduleTypes
  <2> QED
    BY <2>1 DEF Insert, ScheduleTypes
<1>8. debt' \in Int
  BY <1>5 DEF Insert, ScheduleTypes
<1>9. hidden' \subseteq Registers /\ unseen' \in BOOLEAN
  <2>1. i.writes \subseteq Registers
    BY PipelineAssumption DEF ScheduleTypes
  <2>2. hidden' \subseteq Registers
    BY <2>1 DEF Insert, ScheduleTypes
  <2>3. unseen' \in BOOLEAN
    BY DEF Insert, ScheduleTypes
  <2> QED
    BY <2>2, <2>3
<1> QED
  BY <1>1, <1>2, <1>4, <1>6, <1>7, <1>8, <1>9 DEF ScheduleTypes

\* The initial history and schedule.
LEMMA InitialTypes == Init => ScheduleTypes
<1> SUFFICES ASSUME Init PROVE ScheduleTypes
  OBVIOUS
<1>1. build \in Builds /\ hidden \subseteq Registers /\ debt \in Int
  BY DEF Init
<1>2. p \in [0 .. Seen - 1 -> Instructions]
  BY DEF Init, Instructions
<1>3. since \in [Registers -> 1 .. Far] /\ writer \in [Registers -> Data \cup Control \cup {"BUBBLE"}]
  BY DEF Init, Far
<1>4. unseen \in BOOLEAN
  BY Zenon DEF Init
<1> QED
  BY <1>1, <1>2, <1>3, <1>4 DEF ScheduleTypes

-----------------------------------------------------------------------------
(* Thirteen stages.  The bubbles go in front of the instruction that wrote, *)
(* so the ones between it and the reader stay close: every writer that has *)
(* told so is at most as far back in the history as in the schedule, and   *)
(* by as much closer as the code has charged more.                          *)

\* The first rule that holds is that of a writer k insertions ago.
Hits(q, k) ==
  q[0].t \in Data \cup Control /\ q[k].t \in Data \cup Control /\ DependsOn(q[0], q[k])

\* The last writer of a register is in the history, or too far back to matter.
Tracked(r) ==
  \/ writer[r] = "BUBBLE"
  \/ since[r] - debt >= 5
  \/ \E k \in 0 .. 3 : k + 1 <= since[r] - debt /\ p[k].dest = r /\ p[k].t # "BUBBLE"

ThirteenInv ==
  /\ build \in Builds
  /\ build = "PIPE13" => ScheduleTypes /\ debt <= 0 /\ \A r \in Registers \ hidden : Tracked(r)

\* What update does with the history: nothing, or what the nearest writer asks for.
LEMMA ThirteenUpdate ==
  ASSUME build = "PIPE13", NEW q
  PROVE  \/ (\A k \in 1 .. 4 : ~Hits(q, k)) /\ Update(q) = [p |-> q, cicles |-> 0]
         \/ \E k \in 1 .. 4 : /\ Hits(q, k)
                              /\ \A m \in 1 .. 4 : m < k => ~Hits(q, m)
                              /\ Update(q) = [p |-> Stall(q, k - 1, 5 - k), cicles |-> 5 - k]
<1> DEFINE load == Charge(LoadRules, Data, q)
           branch == Charge(ControlRules(q[0]), Control, load.p)
           any == Charge(AnyRules, Data \cup Control, branch.p)
<1>1. load = [p |-> q, cicles |-> 0]
  <2>1. LoadRules = <<>>
    BY DEF LoadRules
  <2>2. \A m \in DOMAIN LoadRules : ~Applies(LoadRules[m], Data, q)
    BY <2>1
  <2> QED
    BY <2>2, ChargeNone
<1>2. branch = [p |-> q, cicles |-> 0]
  <2>1. ControlRules(q[0]) = <<>>
    BY DEF ControlRules
  <2>2. \A m \in DOMAIN ControlRules(q[0]) : ~Applies(ControlRules(q[0])[m], Control, q)
    BY <2>1
  <2>3. load.p = q
    BY <1>1
  <2> HIDE DEF load
  <2> QED
    BY <2>2, <2>3, ChargeNone
<1>3. any = Charge(AnyRules, Data \cup Control, q)
  BY <1>2
<1>4. Update(q) = [p |-> any.p, cicles |-> load.cicles + branch.cicles + any.cicles]
  BY DEF Update
<1>5. Update(q) = [p |-> any.p, cicles |-> 0 + 0 + any.cicles]
  BY <1>1, <1>2, <1>4
<1> HIDE DEF load, branch, any
<1>6. AnyRules = [k \in 1 .. 4 |-> Rule(0, k, Data \cup Control, k - 1, 5 - k)]
  BY DEF AnyRules
<1>7. DOMAIN AnyRules = 1 .. 4
  BY <1>6
<1>8. \A k \in 1 .. 4 : AnyRules[k].pos = k - 1 /\ AnyRules[k].cicles = 5 - k
  BY <1>6 DEF Rule
<1>9. \A k \in 1 .. 4 : Applies(AnyRules[k], Data \cup Control, q) <=> Hits(q, k)
  BY <1>6 DEF Rule, Applies, Hits
<1>10. CASE \A k \in 1 .. 4 : ~Hits(q, k)
  <2>1. any = [p |-> q, cicles |-> 0]
    BY <1>3, <1>7, <1>9, <1>10, ChargeNone
  <2> QED
    BY <1>5, <1>10, <2>1
<1>11. CASE \E k \in 1 .. 4 : Hits(q, k)
  <2>1. PICK k \in 1 .. 4 : Hits(q, k) /\ \A m \in 1 .. 4 : m < k => ~Hits(q, m)
    <3>1. CASE Hits(q, 1)
      BY <3>1
    <3>2. CASE ~Hits(q, 1) /\ Hits(q, 2)
      BY <3>2
    <3>3. CASE ~Hits(q, 1) /\ ~Hits(q, 2) /\ Hits(q, 3)
      BY <3>3
    <3>4. CASE ~Hits(q, 1) /\ ~Hits(q, 2) /\ ~Hits(q, 3) /\ Hits(q, 4)
      BY <3>4
    <3> QED
      BY <1>11, <3>1, <3>2, <3>3, <3>4
  <2>2. DOMAIN AnyRules \subseteq Int
    BY <1>7
  <2>3. Applies(AnyRules[k], Data \cup Control, q)
    BY <1>9, <2>1
  <2>4. \A m \in DOMAIN AnyRules : m < k => ~Applies(AnyRules[m], Data \cup Control, q)
    BY <1>7, <1>9, <2>1
  <2>5. any = [p |-> Stall(q, AnyRules[k].pos, AnyRules[k].cicles), cicles |-> AnyRules[k].cicles]
    BY <1>3, <1>7, <2>1, <2>2, <2>3, <2>4, ChargeFirst
  <2>6. any = [p |-> Stall(q, k - 1, 5 - k), cicles |-> 5 - k]
    BY <1>8, <2>5
  <2> QED
    BY <1>5, <2>1, <2>6
<1> QED
  BY <1>10, <1>11

\* The types after a step of the build with thirteen stages.
LEMMA ThirteenTypes ==
  ASSUME build = "PIPE13", ScheduleTypes, NEW i \in Program[build], NEW missed \in BOOLEAN,
         Insert(i, missed)
  PROVE  ScheduleTypes'
<1>1. Seen = 5 /\ Bubble \in Instructions /\ i \in Instructions
  BY DEF Seen, Instructions
<1>2. p \in [0 .. 5 - 1 -> Instructions]
  BY <1>1 DEF ScheduleTypes
<1>3. Push(p, i) \in [0 .. 5 - 1 -> Instructions]
  <2>1. 5 \in Nat \ {0}
    OBVIOUS
  <2> QED
    BY ONLY <1>1, <1>2, <2>1, ShiftTypes
<1>4. \A k \in 1 .. 4 : Stall(Push(p, i), k - 1, 5 - k) \in [0 .. 5 - 1 -> Instructions]
  <2>1. \A k \in 1 .. 4 : k - 1 \in Nat /\ 5 - k \in Nat
    OBVIOUS
  <2>2. 5 \in Nat \ {0}
    OBVIOUS
  <2> QED
    BY ONLY <1>1, <1>3, <2>1, <2>2, ShiftTypes
<1>5. Update(Push(p, i)).p \in [0 .. 5 - 1 -> Instructions] /\ Update(Push(p, i)).cicles \in Int
  <2>1. CASE Update(Push(p, i)) = [p |-> Push(p, i), cicles |-> 0]
    BY <1>3, <2>1
  <2>2. ASSUME NEW k \in 1 .. 4,
               Update(Push(p, i)) = [p |-> Stall(Push(p, i), k - 1, 5 - k), cicles |-> 5 - k]
        PROVE  Update(Push(p, i)).p \in [0 .. 5 - 1 -> Instructions] /\ Update(Push(p, i)).cicles \in Int
    BY <1>4, <2>2
  <2> QED
    BY <2>1, <2>2, ThirteenUpdate
<1> QED
  BY <1>1, <1>5, TypesStep

\* The code charges at least the told stalls of the schedule, less what it has
\* charged ahead; whatever stays in the history moves by no more than one place, and
\* what is gone was as far back as five after the bubbles.
LEMMA ThirteenCharge ==
  ASSUME build = "PIPE13", ScheduleTypes, debt <= 0, \A r \in Registers \ hidden : Tracked(r),
         NEW i \in Program[build], NEW C, C = Update(Push(p, i)).cicles
  PROVE  /\ C \in 0 .. 4
         /\ debt + ToldStalls(i) - C <= 0
         /\ \A k \in 0 .. 3 : \/ Update(Push(p, i)).p[k + 1] = p[k]
                              \/ k + 1 + C >= 5
<1> DEFINE q == Push(p, i)
<1>1. i \in Instructions /\ p \in [0 .. 4 -> Instructions]
  BY DEF Instructions, ScheduleTypes, Seen
<1>2. q[0] = i /\ \A k \in 1 .. 4 : q[k] = p[k - 1]
  BY <1>1 DEF Push
<1>3. DOMAIN q = 0 .. 4
  BY <1>1 DEF Push
<1> HIDE DEF q
<1>4. C \in 0 .. 4 /\ \A k \in 1 .. 4 : Hits(q, k) => C >= 5 - k
  <2>1. CASE (\A k \in 1 .. 4 : ~Hits(q, k)) /\ Update(q) = [p |-> q, cicles |-> 0]
    BY <2>1 DEF q
  <2>2. ASSUME NEW k \in 1 .. 4, \A m \in 1 .. 4 : m < k => ~Hits(q, m), Update(q).cicles = 5 - k
        PROVE  C \in 0 .. 4 /\ \A m \in 1 .. 4 : Hits(q, m) => C >= 5 - m
    <3>1. C = 5 - k
      BY <2>2 DEF q
    <3>2. \A m \in 1 .. 4 : Hits(q, m) => ~(m < k)
      BY <2>2
    <3> QED
      BY <3>1, <3>2
  <2> QED
    BY <2>1, <2>2, ThirteenUpdate
<1>5. debt + ToldStalls(i) - C <= 0
  <2>1. debt \in Int /\ ToldStalls(i) \in 0 .. 5
    BY <1>1, ReferenceFacts DEF ScheduleTypes
  <2>2. CASE ToldStalls(i) = 0
    BY <1>4, <2>1, <2>2
  <2>3. ASSUME NEW r \in Told(i) \ hidden, ToldStalls(i) = Needed(writer[r], i.t) - since[r],
               ToldStalls(i) # 0
        PROVE  debt + ToldStalls(i) - C <= 0
    <3>1. r \in Registers \ hidden /\ r \in Sources(i)
      BY <1>1, <2>3, InstructionFacts DEF ScheduleTypes, Told
    <3>2. since[r] \in 1 .. 5
      BY <3>1 DEF ScheduleTypes, Far
    <3>3. writer[r] # "BUBBLE" /\ ToldStalls(i) = 5 - since[r]
      BY <2>1, <2>3, <3>2 DEF Needed
    <3>4. CASE since[r] - debt >= 5
      BY <1>4, <2>1, <3>2, <3>3, <3>4
    <3>5. ASSUME NEW k \in 0 .. 3, k + 1 <= since[r] - debt, p[k].dest = r, p[k].t # "BUBBLE"
          PROVE  debt + ToldStalls(i) - C <= 0
      <4>1. k + 1 \in 1 .. 4 /\ q[k + 1] = p[k]
        BY <1>2
      <4>2. DependsOn(q[0], q[k + 1])
        BY <1>2, <3>1, <3>5, <4>1 DEF DependsOn
      <4>3. q[0].t \in Data \cup Control
        BY <1>1, <1>2, <3>1 DEF Sources, Data, Control
      <4>4. p[k] \in Instructions
        BY <1>1
      <4>5. q[k + 1].t \in Data \cup Control
        BY <3>5, <4>1, <4>4, InstructionFacts DEF ScheduleTypes
      <4>6. C >= 5 - (k + 1)
        BY <1>4, <4>1, <4>2, <4>3, <4>5 DEF Hits
      <4> QED
        BY <1>4, <2>1, <3>2, <3>3, <3>5, <4>6
    <3> QED
      BY <3>1, <3>3, <3>4, <3>5 DEF Tracked
  <2> QED
    BY <1>1, <2>2, <2>3, ReferenceFacts
<1>6. ASSUME NEW k \in 0 .. 3 PROVE Update(q).p[k + 1] = p[k] \/ k + 1 + C >= 5
  <2>1. k + 1 \in 1 .. 4 /\ q[k + 1] = p[k]
    BY <1>2
  <2>2. CASE Update(q) = [p |-> q, cicles |-> 0]
    BY <2>1, <2>2
  <2>3. ASSUME NEW m \in 1 .. 4, Update(q) = [p |-> Stall(q, m - 1, 5 - m), cicles |-> 5 - m]
        PROVE  Update(q).p[k + 1] = p[k] \/ k + 1 + C >= 5
    <3>1. C = 5 - m
      BY <2>3 DEF q
    <3>2. CASE k + 1 <= m - 1
      <4>1. Stall(q, m - 1, 5 - m)[k + 1] = q[k + 1]
        BY <1>3, <2>1, <3>2 DEF Stall
      <4> QED
        BY <2>1, <2>3, <4>1
    <3>3. CASE ~(k + 1 <= m - 1)
      BY <3>1, <3>3
    <3> QED
      BY <3>2, <3>3
  <2> QED
    BY <2>2, <2>3, ThirteenUpdate
<1> QED
  BY <1>4, <1>5, <1>6 DEF q

\* An insertion keeps the invariant of the build with thirteen stages.
LEMMA ThirteenStep ==
  ASSUME ThirteenInv, NEW i \in Program[build], NEW missed \in BOOLEAN, Insert(i, missed)
  PROVE  ThirteenInv'
<1>1. build' = build /\ build \in Builds
  BY DEF Insert, ThirteenInv
<1>2. SUFFICES ASSUME build = "PIPE13"
               PROVE  ScheduleTypes' /\ debt' <= 0 /\ \A r \in Registers \ hidden' : Tracked(r)'
  BY <1>1 DEF ThirteenInv
<1>3. ScheduleTypes /\ debt <= 0 /\ \A r \in Registers \ hidden : Tracked(r)
  BY <1>2 DEF ThirteenInv
<1>4. ScheduleTypes'
  BY <1>2, <1>3, ThirteenTypes
<1> DEFINE now == Update(Push(p, i))
           C == now.cicles
           S == ReferenceStalls(i)
           T == ToldStalls(i)
           lost == Penalty(i, missed)
<1>5. /\ C \in 0 .. 4
      /\ debt + T - C <= 0
      /\ \A k \in 0 .. 3 : now.p[k + 1] = p[k] \/ k + 1 + C >= 5
  BY <1>2, <1>3, ThirteenCharge
<1>6. i \in Instructions /\ p \in [0 .. 4 -> Instructions] /\ Seen = 5 /\ debt \in Int
  BY <1>2, <1>3 DEF Instructions, ScheduleTypes, Seen
<1>7. S \in 0 .. 5 /\ T \in 0 .. 5 /\ T <= S
  BY <1>3, <1>6, ReferenceFacts
<1>8. lost = 0 \/ lost = 13
  BY <1>2 DEF Penalty, MISSPREDICT_PENALTY
<1>9. debt' = debt + T - C /\ p' = Flush(now.p, lost)
  BY DEF Insert
<1>10. p' \in [0 .. 4 -> Instructions]
  BY <1>1, <1>4, <1>6 DEF ScheduleTypes, Instructions, Seen
<1>11. DOMAIN now.p = 0 .. 4
  <2>1. DOMAIN p' = DOMAIN now.p
    BY <1>9 DEF Flush
  <2> QED
    BY <1>10, <2>1
<1>12. now.p[0] = i
  <2>1. Push(p, i)[0] = i
    BY <1>6 DEF Push
  <2>2. DOMAIN Push(p, i) = 0 .. 4
    BY <1>6 DEF Push
  <2>3. \A k \in 1 .. 4 : Stall(Push(p, i), k - 1, 5 - k)[0] = Push(p, i)[0]
    BY <2>2 DEF Stall
  <2>4. CASE now = [p |-> Push(p, i), cicles |-> 0]
    BY <2>1, <2>4
  <2>5. ASSUME NEW k \in 1 .. 4, now = [p |-> Stall(Push(p, i), k - 1, 5 - k), cicles |-> 5 - k]
        PROVE  now.p[0] = i
    BY <2>1, <2>3, <2>5
  <2> QED
    BY <1>2, <2>4, <2>5, ThirteenUpdate
<1>13. \A r \in Registers :
         /\ r \in i.writes => writer'[r] = i.t /\ (lost = 0 => since'[r] >= 1) /\ (lost = 13 => since'[r] = 5)
         /\ r \notin i.writes =>
                          /\ writer'[r] = writer[r]
                          /\ \/ since'[r] = 5
                             \/ since'[r] = since[r] + S + 1 + lost
  <2>1. \A r \in Registers : since[r] \in 1 .. 5
    BY <1>3 DEF ScheduleTypes, Far
  <2> DEFINE later(c) == IF c > 5 THEN 5 ELSE c
  <2>2. /\ since' = [r \in Registers |-> IF r \in i.writes THEN later(1 + lost)
                                         ELSE later(since[r] + S + 1 + lost)]
        /\ writer' = [r \in Registers |-> IF r \in i.writes THEN i.t ELSE writer[r]]
    BY DEF Insert, Far
  <2>3. \A c \in Int : later(c) = 5 \/ later(c) = c
    OBVIOUS
  <2>4. later(1 + 0) = 1 /\ later(1 + 13) = 5
    OBVIOUS
  <2>5. \A r \in Registers : since[r] + S + 1 + lost \in Int
    BY <1>7, <1>8, <2>1
  <2> HIDE DEF later, now, C, S, T, lost
  <2> QED
    BY <1>8, <2>2, <2>3, <2>4, <2>5
<1> HIDE DEF now, C, S, T, lost
<1>14. debt' \in Int /\ debt' <= 0
  BY <1>5, <1>6, <1>7, <1>9
<1>15. ASSUME NEW r \in Registers \ hidden' PROVE Tracked(r)'
  <2>0. \/ r = i.dest /\ r \in i.writes
        \/ r \notin i.writes /\ r \notin hidden
    <3>1. hidden' = (hidden \cup i.writes) \ {i.dest}
      BY DEF Insert
    <3>2. i.dest # None => i.dest \in i.writes
      BY <1>1, <1>6, InstructionFacts
    <3>3. r # None
      BY PipelineAssumption
    <3> QED
      BY <3>1, <3>2, <3>3
  <2>1. since'[r] \in 1 .. 5 /\ since[r] \in 1 .. 5
    BY <1>1, <1>3, <1>4 DEF ScheduleTypes, Far
  <2>2. CASE since'[r] = 5
    <3>1. \A a, d \in Int : a = 5 /\ d <= 0 => a - d >= 5
      OBVIOUS
    <3>2. since'[r] \in Int
      BY <2>1
    <3>3. since'[r] - debt' >= 5
      BY <1>14, <2>2, <3>1, <3>2
    <3> QED
      BY <3>3 DEF Tracked
  <2>3. CASE r = i.dest /\ r \in i.writes /\ lost = 0
    <3>1. p'[0] = i
      BY <1>9, <1>11, <1>12, <2>3 DEF Flush
    <3>2. writer'[r] = i.t
      BY <1>13, <2>3
    <3>3. 0 \in 0 .. 3 /\ 0 + 1 <= since'[r] - debt'
      BY <1>14, <2>1
    <3> QED
      BY <2>3, <3>1, <3>2, <3>3 DEF Tracked
  <2>4. CASE r \notin i.writes /\ r \notin hidden /\ since'[r] = since[r] + S + 1 + lost
    <3>1. writer'[r] = writer[r] /\ lost = 0
      BY <1>7, <1>8, <1>13, <2>1, <2>4
    <3>2. since'[r] - debt' >= since[r] - debt + 1 + C
      BY <1>5, <1>6, <1>7, <1>9, <2>1, <2>4, <3>1
    <3>3. CASE writer[r] = "BUBBLE"
      BY <3>1, <3>3 DEF Tracked
    <3>4. CASE since[r] - debt >= 5
      <4>1. since'[r] - debt' >= 5
        BY <1>5, <1>6, <1>14, <2>1, <3>2, <3>4
      <4> QED
        BY <4>1 DEF Tracked
    <3>5. ASSUME NEW k \in 0 .. 3, k + 1 <= since[r] - debt, p[k].dest = r, p[k].t # "BUBBLE"
          PROVE  Tracked(r)'
      <4>1. k + 1 + 1 + C <= since'[r] - debt'
        BY <1>5, <1>6, <1>14, <2>1, <3>2, <3>5
      <4>2. CASE k + 1 + C >= 5 \/ k = 3
        <5>1. since'[r] - debt' >= 5
          BY <1>5, <1>14, <2>1, <4>1, <4>2
        <5> QED
          BY <5>1 DEF Tracked
      <4>3. CASE now.p[k + 1] = p[k] /\ k # 3
        <5>1. k + 1 \in 0 .. 3 /\ k + 1 \in 0 .. 4
          BY <4>3
        <5>2. p'[k + 1] = p[k]
          BY <1>9, <1>11, <3>1, <4>3, <5>1 DEF Flush
        <5>3. (k + 1) + 1 <= since'[r] - debt'
          BY <1>5, <1>14, <2>1, <4>1
        <5> QED
          BY <3>5, <5>1, <5>2, <5>3 DEF Tracked
      <4> QED
        BY <1>5, <4>2, <4>3
    <3> QED
      BY <1>3, <2>4, <3>3, <3>4, <3>5 DEF Tracked
  <2> QED
    BY <1>8, <1>13, <2>0, <2>2, <2>3, <2>4
<1> QED
  BY <1>4, <1>14, <1>15

\* Neither pipeline changes its build.
LEMMA BuildStays == DualNext => build' = build
  BY ZenonT(40) DEF DualNext, Next, Insert, InsertFirst, InsertSecond

\* Every state of every program satisfies the invariant.
LEMMA ThirteenInvariant == DualSpec => []ThirteenInv
<1>1. DualInit => ThirteenInv
  <2> SUFFICES ASSUME DualInit PROVE ThirteenInv
    OBVIOUS
  <2>1. build \in Builds
    BY DEF DualInit, Init
  <2>2. ASSUME build = "PIPE13" PROVE ScheduleTypes /\ debt <= 0 /\ \A r \in Registers \ hidden : Tracked(r)
    <3>1. ScheduleTypes
      BY <2>1, InitialTypes DEF DualInit
    <3>2. debt <= 0 /\ \A r \in Registers \ hidden : Tracked(r)
      BY DEF DualInit, Init, Tracked
    <3> QED
      BY <3>1, <3>2
  <2> QED
    BY <2>1, <2>2 DEF ThirteenInv
<1>2. ThirteenInv /\ [DualNext]_allVars => ThirteenInv'
  <2> SUFFICES ASSUME ThirteenInv, [DualNext]_allVars PROVE ThirteenInv'
    OBVIOUS
  <2>1. CASE build # "SUPERESCALAR" /\ Next
    BY <2>1, ThirteenStep DEF Next
  <2>2. CASE build = "SUPERESCALAR" /\ DualNext
    BY <2>2, BuildStays DEF ThirteenInv
  <2>3. CASE UNCHANGED allVars
    BY <2>3 DEF allVars, vars, ThirteenInv, ScheduleTypes, Instructions, Seen, Tracked
  <2> QED
    BY <2>1, <2>2, <2>3 DEF DualNext
<1> QED
  BY <1>1, <1>2, PTL DEF DualSpec

-----------------------------------------------------------------------------
(* Five stages.  The rules compare with the last two instructions, and those *)
(* are as far back as in the schedule -- unless the newest is a branch or a  *)
(* jump, which only a delay slot may follow, or a stall is pending.          *)

\* The load rule applies, one insertion after the pair came in.
LoadHit(q) == q[1].t \in Data /\ q[2].t = "LOAD" /\ DependsOn(q[1], q[2])

\* A branch or jump waits for the instruction before it.
Near(q, t) == q[1].t = t /\ DependsOn(q[0], q[1])

ControlCycles(q) ==
  IF q[0].t \notin Control THEN 0
  ELSE IF Near(q, "LOAD") THEN 2
  ELSE IF Near(q, "OUTRAS") THEN 1
  ELSE IF ~LoadHit(q) /\ q[2].t = "LOAD" /\ DependsOn(q[0], q[2]) THEN 1
  ELSE 0

\* What update charges and what it leaves of the history.
LEMMA FiveUpdate ==
  ASSUME build = "PIPE5", NEW I, Bubble \in I, NEW q \in [0 .. 2 -> I]
  PROVE  /\ Update(q).cicles = (IF LoadHit(q) THEN 1 ELSE 0) + ControlCycles(q)
         /\ Update(q).p \in [0 .. 2 -> I]
         /\ Update(q).p[0] = q[0]
         /\ q[0].t \notin Control => Update(q).p[1] = q[1]
<1> DEFINE load == Charge(LoadRules, Data, q)
           h == load.p
           branch == Charge(ControlRules(q[0]), Control, h)
           any == Charge(AnyRules, Data \cup Control, branch.p)
           pos == IF q[0].t = "BRANCH" /\ q[0].rt # None THEN 1 ELSE 0
<1>1. Update(q) = [p |-> any.p, cicles |-> load.cicles + branch.cicles + any.cicles]
  BY DEF Update
<1>2. /\ load.cicles = IF LoadHit(q) THEN 1 ELSE 0
      /\ h = IF LoadHit(q) THEN Stall(q, 1, 1) ELSE q
  <2>1. LoadRules = <<Rule(1, 2, {"LOAD"}, 1, 1)>>
    BY DEF LoadRules
  <2>2. DOMAIN LoadRules = {1} /\ LoadRules[1] = Rule(1, 2, {"LOAD"}, 1, 1)
    BY <2>1
  <2>3. Applies(LoadRules[1], Data, q) <=> LoadHit(q)
    BY <2>2 DEF Applies, LoadHit, Rule
  <2>4. CASE LoadHit(q)
    <3>1. DOMAIN LoadRules \subseteq Int /\ 1 \in DOMAIN LoadRules
      BY <2>2
    <3>2. load = [p |-> Stall(q, LoadRules[1].pos, LoadRules[1].cicles), cicles |-> LoadRules[1].cicles]
      BY <2>2, <2>3, <2>4, <3>1, ChargeFirst
    <3>3. LoadRules[1].pos = 1 /\ LoadRules[1].cicles = 1
      BY <2>2 DEF Rule
    <3> QED
      BY <2>4, <3>2, <3>3
  <2>5. CASE ~LoadHit(q)
    <3>1. load = [p |-> q, cicles |-> 0]
      BY <2>2, <2>3, <2>5, ChargeNone
    <3> QED
      BY <2>5, <3>1
  <2> QED
    BY <2>4, <2>5
<1>3. /\ h \in [0 .. 2 -> I] /\ h[0] = q[0] /\ h[1] = q[1]
      /\ h[2] = IF LoadHit(q) THEN Bubble ELSE q[2]
  <2>1. Stall(q, 1, 1) = [k \in 0 .. 2 |-> IF k <= 1 THEN q[k] ELSE Bubble]
    BY DEF Stall
  <2> HIDE DEF load
  <2> QED
    BY <1>2, <2>1
<1> HIDE DEF load, h
<1>4. \A m \in Nat, c \in Nat : Stall(h, m, c) \in [0 .. 2 -> I] /\ Stall(h, m, c)[0] = q[0]
  <2>1. 3 \in Nat \ {0} /\ h \in [0 .. 3 - 1 -> I]
    BY <1>3
  <2>2. \A m \in Nat, c \in Nat : Stall(h, m, c) \in [0 .. 3 - 1 -> I]
    BY ONLY <2>1, Bubble \in I, ShiftTypes
  <2>3. DOMAIN h = 0 .. 2
    BY <1>3
  <2>4. \A m \in Nat, c \in Nat : Stall(h, m, c)[0] = h[0]
    BY <2>3 DEF Stall
  <2> QED
    BY <1>3, <2>2, <2>4
<1>5. /\ branch.cicles = ControlCycles(q)
      /\ branch.p \in [0 .. 2 -> I] /\ branch.p[0] = q[0]
      /\ q[0].t \notin Control => branch.p[1] = q[1]
  <2> DEFINE R == ControlRules(q[0])
  <2>1. R = <<Rule(0, 1, {"LOAD"}, 0, 2), Rule(0, 1, {"OUTRAS"}, 0, 1), Rule(0, 2, {"LOAD"}, pos, 1)>>
    BY DEF ControlRules
  <2>2. /\ DOMAIN R = 1 .. 3
        /\ R[1] = Rule(0, 1, {"LOAD"}, 0, 2)
        /\ R[2] = Rule(0, 1, {"OUTRAS"}, 0, 1)
        /\ R[3] = Rule(0, 2, {"LOAD"}, pos, 1)
    BY <2>1
  <2> HIDE DEF R, pos
  <2>3. /\ Applies(R[1], Control, h) <=> q[0].t \in Control /\ Near(q, "LOAD")
        /\ Applies(R[2], Control, h) <=> q[0].t \in Control /\ Near(q, "OUTRAS")
        /\ Applies(R[3], Control, h) <=>
             q[0].t \in Control /\ ~LoadHit(q) /\ q[2].t = "LOAD" /\ DependsOn(q[0], q[2])
    <3>1. Applies(R[1], Control, h) <=> q[0].t \in Control /\ Near(q, "LOAD")
      BY <1>3, <2>2 DEF Applies, Near, Rule
    <3>2. Applies(R[2], Control, h) <=> q[0].t \in Control /\ Near(q, "OUTRAS")
      BY <1>3, <2>2 DEF Applies, Near, Rule
    <3>3. Applies(R[3], Control, h) <=> q[0].t \in Control /\ h[2].t = "LOAD" /\ DependsOn(q[0], h[2])
      BY <1>3, <2>2 DEF Applies, Rule
    <3>4. Bubble.t # "LOAD"
      BY DEF Bubble
    <3> QED
      BY <1>3, <3>1, <3>2, <3>3, <3>4
  <2>4. /\ R[1].pos = 0 /\ R[1].cicles = 2 /\ R[2].pos = 0 /\ R[2].cicles = 1
        /\ R[3].pos \in {0, 1} /\ R[3].cicles = 1
    BY <2>2 DEF Rule, pos
  <2>5. DOMAIN R \subseteq Int
    BY <2>2
  <2>6. branch = Charge(R, Control, h)
    BY DEF R
  <2> HIDE DEF branch
  <2>7. ASSUME NEW n \in 1 .. 3, Applies(R[n], Control, h),
               \A m \in 1 .. 3 : m < n => ~Applies(R[m], Control, h)
        PROVE  /\ branch.cicles = R[n].cicles
               /\ branch.p \in [0 .. 2 -> I] /\ branch.p[0] = q[0]
    <3>1. branch = [p |-> Stall(h, R[n].pos, R[n].cicles), cicles |-> R[n].cicles]
      BY <2>2, <2>5, <2>6, <2>7, ChargeFirst
    <3>2. R[n].pos \in Nat /\ R[n].cicles \in Nat
      BY <2>4
    <3> QED
      BY <1>4, <3>1, <3>2
  <2>8. CASE \A n \in 1 .. 3 : ~Applies(R[n], Control, h)
    <3>1. branch = [p |-> h, cicles |-> 0]
      BY <2>2, <2>6, <2>8, ChargeNone
    <3>2. ControlCycles(q) = 0
      BY <2>3, <2>8 DEF ControlCycles
    <3> QED
      BY <1>3, <3>1, <3>2
  <2>9. CASE Applies(R[1], Control, h)
    <3>1. ControlCycles(q) = 2 /\ q[0].t \in Control
      BY <2>3, <2>9 DEF ControlCycles
    <3> QED
      BY <2>4, <2>7, <2>9, <3>1
  <2>10. CASE ~Applies(R[1], Control, h) /\ Applies(R[2], Control, h)
    <3>1. ControlCycles(q) = 1 /\ q[0].t \in Control
      BY <2>3, <2>10 DEF ControlCycles
    <3> QED
      BY <2>4, <2>7, <2>10, <3>1
  <2>11. CASE ~Applies(R[1], Control, h) /\ ~Applies(R[2], Control, h) /\ Applies(R[3], Control, h)
    <3>1. ControlCycles(q) = 1 /\ q[0].t \in Control
      BY <2>3, <2>11 DEF ControlCycles
    <3> QED
      BY <2>4, <2>7, <2>11, <3>1
  <2> QED
    BY <2>8, <2>9, <2>10, <2>11
<1> HIDE DEF branch
<1>6. any = [p |-> branch.p, cicles |-> 0]
  <2>1. AnyRules = <<>>
    BY DEF AnyRules
  <2>2. \A m \in DOMAIN AnyRules : ~Applies(AnyRules[m], Data \cup Control, branch.p)
    BY <2>1
  <2> QED
    BY <2>2, ChargeNone
<1> HIDE DEF any
<1>7. ControlCycles(q) \in 0 .. 2
  BY DEF ControlCycles
<1> QED
  BY <1>1, <1>2, <1>5, <1>6, <1>7

\* The load rule will apply to the newest instruction when the next one comes in.
Due == p[0].t \in Data /\ p[1].t = "LOAD" /\ DependsOn(p[0], p[1])

\* What the schedule can still ask for is where the rules look for it, if told ...
FiveKnown(r) ==
  /\ since[r] = 1 /\ writer[r] \in {"LOAD", "OUTRAS"} => p[0].t = writer[r] /\ p[0].dest = r
  /\ since[r] = 2 /\ writer[r] = "LOAD" /\ p[0].t \notin Control =>
       p[1].t = "LOAD" /\ p[1].dest = r /\ p[0].dest # r /\ ~Due

\* ... and what they find there the schedule asks for.
FiveSeen(r) ==
  /\ p[0].t \in {"LOAD", "OUTRAS"} /\ p[0].dest = r =>
       since[r] = 1 /\ writer[r] = p[0].t /\ r \notin hidden
  /\ p[0].t \notin Control /\ p[1].t = "LOAD" /\ p[1].dest = r /\ p[0].dest # r /\ ~Due =>
       since[r] = 2 /\ writer[r] = "LOAD" /\ r \notin hidden

\* Only arithmetic writes hi and lo, and only a call another register that it
\* does not tell of: with 5 stages nothing waits for these.
NeverAwaited(r) ==
  /\ r \in HiLo => writer[r] \in {"OUTRAS", "BUBBLE"}
  /\ r \in hidden \ HiLo => writer[r] \in Control

\* Every instruction of the program of a build reads the registers it tells, and
\* a load no other: there is no addi that writes another register than it reads,
\* and no lwl or lwr.
TellsReads(i) ==
  /\ Sources(i) \cap Registers \subseteq i.uses
  /\ i.t = "LOAD" => i.uses \subseteq Sources(i)
Honest(b) == \A i \in Program[b] : TellsReads(i)

FiveLast ==
  /\ ScheduleTypes
  /\ p[0].t \in Control => slot
  /\ \A r \in Registers \ hidden : FiveKnown(r)

FiveExact ==
  /\ debt = Pending /\ ~unseen
  /\ \A r \in Registers : FiveSeen(r) /\ NeverAwaited(r)

FiveInv ==
  /\ build \in Builds
  /\ build = "PIPE5" => FiveLast /\ debt <= Pending /\ (Honest("PIPE5") => FiveExact)

\* What the newest instruction will be charged late.
Late(i) == IF i.t \in Data /\ p[0].t = "LOAD" /\ p[0].dest \in Told(i) THEN 1 ELSE 0

\* The schedule asks, for what is told, no more than the code charges, now or
\* with the next instruction ...
LEMMA FiveCycles ==
  ASSUME build = "PIPE5", FiveLast, NEW i \in Program[build], slot => i.t \notin Control
  PROVE  ToldStalls(i) <= ControlCycles(Push(p, i)) + Late(i)
<1> DEFINE q == Push(p, i)
           S == ToldStalls(i)
<1>1. i \in Instructions /\ p \in [0 .. 2 -> Instructions] /\ ScheduleTypes
  BY DEF FiveLast, Instructions, ScheduleTypes, Seen
<1>2. q[0] = i /\ q[1] = p[0] /\ q[2] = p[1]
  BY <1>1 DEF Push
<1>3. /\ S \in 0 .. 5
      /\ \A r \in Told(i) \ hidden : Needed(writer[r], i.t) - since[r] <= S
      /\ S = 0 \/ \E r \in Told(i) \ hidden : S = Needed(writer[r], i.t) - since[r]
  BY <1>1, ReferenceFacts
<1>4. /\ Told(i) \subseteq Registers /\ Told(i) \subseteq Sources(i)
      /\ i.t \in Data \cup Control \cup {"BUBBLE"}
  BY <1>1, InstructionFacts DEF ScheduleTypes, Told
<1>5. LoadHit(q) <=> Due
  BY <1>2 DEF LoadHit, Due
<1> HIDE DEF q, S
<1>6. ControlCycles(q) \in 0 .. 2 /\ Late(i) \in 0 .. 1
  BY DEF ControlCycles, Late
<1>7. \A r \in Told(i) \ hidden : /\ r \in Registers /\ r \in Sources(i) /\ since[r] \in 1 .. 5
                        /\ FiveKnown(r)
  BY <1>1, <1>4 DEF FiveLast, ScheduleTypes, Far
<1>8. S <= ControlCycles(q) + Late(i)
  <2>1. CASE S = 0
    BY <1>6, <2>1
  <2>2. ASSUME NEW r \in Told(i) \ hidden, S = Needed(writer[r], i.t) - since[r], S # 0
        PROVE  S <= ControlCycles(q) + Late(i)
    <3>1. S > 0 /\ since[r] \in 1 .. 5 /\ r \in Sources(i)
      BY <1>3, <1>7, <2>2
    <3>2. CASE i.t \in Data
      <4>1. writer[r] = "LOAD" /\ since[r] = 1 /\ S = 1
        BY <2>2, <3>1, <3>2 DEF Needed, Data
      <4>2. p[0].t = "LOAD" /\ p[0].dest = r
        BY <1>7, <4>1 DEF FiveKnown
      <4>3. Late(i) = 1
        BY <3>2, <4>2 DEF Late
      <4> QED
        BY <1>6, <4>1, <4>3
    <3>3. CASE i.t \in Control
      <4>1. p[0].t \notin Control
        BY <3>3 DEF FiveLast
      <4>2. i.t \notin Data
        BY <3>3 DEF Data, Control
      <4>3. \/ writer[r] = "LOAD" /\ since[r] = 1 /\ S = 2
            \/ writer[r] = "LOAD" /\ since[r] = 2 /\ S = 1
            \/ writer[r] = "OUTRAS" /\ since[r] = 1 /\ S = 1
        BY <2>2, <3>1, <4>2 DEF Needed
      <4>4. CASE writer[r] = "LOAD" /\ since[r] = 1 /\ S = 2
        <5>1. p[0].t = "LOAD" /\ p[0].dest = r
          BY <1>7, <4>4 DEF FiveKnown
        <5>2. ControlCycles(q) = 2
          BY <1>2, <3>1, <3>3, <5>1 DEF ControlCycles, Near, DependsOn
        <5> QED
          BY <1>6, <4>4, <5>2
      <4>5. CASE writer[r] = "LOAD" /\ since[r] = 2 /\ S = 1
        <5>1. p[1].t = "LOAD" /\ p[1].dest = r /\ ~Due
          BY <1>7, <4>1, <4>5 DEF FiveKnown
        <5>2. ControlCycles(q) \in {1, 2}
          BY <1>2, <1>5, <3>1, <3>3, <5>1 DEF ControlCycles, DependsOn
        <5> QED
          BY <1>6, <4>5, <5>2
      <4>6. CASE writer[r] = "OUTRAS" /\ since[r] = 1 /\ S = 1
        <5>1. p[0].t = "OUTRAS" /\ p[0].dest = r
          BY <1>7, <4>6 DEF FiveKnown
        <5>2. ControlCycles(q) = 1
          BY <1>2, <3>1, <3>3, <5>1 DEF ControlCycles, Near, DependsOn
        <5> QED
          BY <1>6, <4>6, <5>2
      <4> QED
        BY <4>3, <4>4, <4>5, <4>6
    <3>4. i.t \in Data \cup Control
      BY <1>4, <3>1 DEF Sources
    <3> QED
      BY <3>2, <3>3, <3>4
  <2> QED
    BY <1>3, <2>1, <2>2
<1> QED
  BY <1>8 DEF q, S

\* ... and when every instruction reads what it tells, no less; nor does it ask
\* for anything that is not told.
LEMMA FiveExactCycles ==
  ASSUME build = "PIPE5", FiveLast, NEW i \in Program[build], slot => i.t \notin Control,
         TellsReads(i), \A r \in Registers : FiveSeen(r) /\ NeverAwaited(r)
  PROVE  /\ ToldStalls(i) = ControlCycles(Push(p, i)) + Late(i)
         /\ ReferenceStalls(i) = ToldStalls(i)
<1> DEFINE q == Push(p, i)
           T == ToldStalls(i)
           S == ReferenceStalls(i)
<1>1. i \in Instructions /\ p \in [0 .. 2 -> Instructions] /\ ScheduleTypes
  BY DEF FiveLast, Instructions, ScheduleTypes, Seen
<1>2. q[0] = i /\ q[1] = p[0] /\ q[2] = p[1]
  BY <1>1 DEF Push
<1>3. /\ T \in 0 .. 5 /\ S \in 0 .. 5 /\ T <= S
      /\ \A r \in Told(i) \ hidden : Needed(writer[r], i.t) - since[r] <= T
      /\ S = 0 \/ \E r \in i.uses : S = Needed(writer[r], i.t) - since[r]
  BY <1>1, ReferenceFacts
<1>4. /\ Sources(i) \cap Registers \subseteq Told(i) /\ Told(i) \subseteq Sources(i)
      /\ i.t \in Data \cup Control \cup {"BUBBLE"}
  BY <1>1, InstructionFacts DEF ScheduleTypes, Told, TellsReads
<1>5. LoadHit(q) <=> Due
  BY <1>2 DEF LoadHit, Due
<1>6. T <= ControlCycles(q) + Late(i)
  BY FiveCycles
<1> HIDE DEF q, S, T
<1>7. ControlCycles(q) \in 0 .. 2 /\ Late(i) \in 0 .. 1
  BY DEF ControlCycles, Late
<1>8. \A j \in Instructions :
        /\ j.t \in {"LOAD", "OUTRAS"} /\ j.dest \in Sources(i) => j.dest \in Registers /\ j.dest \in Told(i)
        /\ j.t = "LOAD" => j.dest \in Registers
  <2>1. None \notin Sources(i)
    BY DEF Sources
  <2> QED
    BY <1>1, <1>4, <2>1, InstructionFacts DEF ScheduleTypes
<1>9. p[0] \in Instructions /\ p[1] \in Instructions
  BY <1>1
<1>10. ControlCycles(q) + Late(i) <= T
  <2>1. CASE i.t \notin Control /\ Late(i) = 0
    <3>1. ControlCycles(q) = 0
      BY <1>2, <2>1 DEF ControlCycles
    <3> QED
      BY <1>3, <2>1, <3>1
  <2>2. CASE Late(i) = 1
    <3>1. i.t \in Data /\ p[0].t = "LOAD" /\ p[0].dest \in Told(i)
      BY <2>2 DEF Late
    <3>2. ControlCycles(q) = 0
      BY <1>2, <3>1 DEF ControlCycles, Data, Control
    <3> DEFINE r == p[0].dest
    <3>3. since[r] = 1 /\ writer[r] = "LOAD" /\ r \notin hidden
      BY <1>8, <1>9, <3>1 DEF FiveSeen
    <3>4. Needed(writer[r], i.t) = 2
      BY <3>1, <3>3 DEF Needed
    <3>5. 2 - 1 <= T
      BY <1>3, <3>1, <3>3, <3>4
    <3> QED
      BY <1>3, <2>2, <3>2, <3>5
  <2>3. CASE i.t \in Control
    <3>1. p[0].t \notin Control
      BY <2>3 DEF FiveLast
    <3>2. i.t \notin Data
      BY <2>3 DEF Data, Control
    <3>3. Late(i) = 0
      BY <3>2 DEF Late
    <3>4. CASE Near(q, "LOAD")
      <4> DEFINE r == p[0].dest
      <4>1. r \in Registers /\ r \in Told(i) /\ p[0].t = "LOAD"
        BY <1>2, <1>8, <1>9, <3>4 DEF Near, DependsOn
      <4>2. since[r] = 1 /\ writer[r] = "LOAD" /\ r \notin hidden
        BY <4>1 DEF FiveSeen
      <4>3. Needed(writer[r], i.t) = 3
        BY <3>2, <4>2 DEF Needed
      <4>4. 3 - 1 <= T
        BY <1>3, <4>1, <4>2, <4>3
      <4> QED
        BY <1>3, <1>7, <3>3, <4>4
    <3>5. CASE ~Near(q, "LOAD") /\ Near(q, "OUTRAS")
      <4> DEFINE r == p[0].dest
      <4>1. r \in Registers /\ r \in Told(i) /\ p[0].t = "OUTRAS"
        BY <1>2, <1>8, <1>9, <3>5 DEF Near, DependsOn
      <4>2. since[r] = 1 /\ writer[r] = "OUTRAS" /\ r \notin hidden
        BY <4>1 DEF FiveSeen
      <4>3. Needed(writer[r], i.t) = 2
        BY <3>2, <4>2 DEF Needed
      <4>4. 2 - 1 <= T
        BY <1>3, <4>1, <4>2, <4>3
      <4>5. ControlCycles(q) = 1
        BY <1>2, <2>3, <3>5 DEF ControlCycles
      <4> QED
        BY <1>3, <3>3, <4>4, <4>5
    <3>6. CASE ~Near(q, "LOAD") /\ ~Near(q, "OUTRAS") /\ ~Due /\ p[1].t = "LOAD" /\ DependsOn(i, p[1])
      <4> DEFINE r == p[1].dest
      <4>1. r \in Registers /\ r \in Told(i)
        BY <1>8, <1>9, <3>6 DEF DependsOn
      <4>2. p[0].dest # r
        <5> SUFFICES ASSUME p[0].dest = r PROVE FALSE
          OBVIOUS
        <5>1. p[0].t \in {"OUTRAS", "LOAD"}
          BY <1>1, <1>9, <3>1, <4>1, InstructionFacts, PipelineAssumption DEF ScheduleTypes, Data
        <5>2. DependsOn(q[0], q[1])
          BY <1>2, <1>4, <4>1 DEF DependsOn
        <5> QED
          BY <1>2, <3>6, <5>1, <5>2 DEF Near
      <4>3. since[r] = 2 /\ writer[r] = "LOAD" /\ r \notin hidden
        BY <3>1, <3>6, <4>1, <4>2 DEF FiveSeen
      <4>4. Needed(writer[r], i.t) = 3
        BY <3>2, <4>3 DEF Needed
      <4>5. 3 - 2 <= T
        BY <1>3, <4>1, <4>3, <4>4
      <4>6. ControlCycles(q) = 1
        BY <1>2, <1>5, <2>3, <3>6 DEF ControlCycles
      <4> QED
        BY <1>3, <3>3, <4>5, <4>6
    <3>7. CASE ControlCycles(q) = 0
      BY <1>3, <3>3, <3>7
    <3> QED
      BY <1>2, <1>5, <3>4, <3>5, <3>6, <3>7 DEF ControlCycles
  <2> QED
    BY <1>7, <2>1, <2>2, <2>3
<1>11. S <= T
  <2>1. CASE S = 0
    BY <1>3, <2>1
  <2>2. ASSUME NEW r \in i.uses, S = Needed(writer[r], i.t) - since[r], S # 0
        PROVE  S <= T
    <3>1. r \in Registers
      BY <1>1, InstructionFacts DEF ScheduleTypes
    <3>2. since[r] \in 1 .. 5
      BY <1>1, <3>1 DEF ScheduleTypes, Far
    <3>3. Needed(writer[r], i.t) > 0
      BY <1>3, <2>2, <3>2 DEF Needed
    <3>4. writer[r] \in {"LOAD", "OUTRAS"} /\ (i.t \in Data => writer[r] = "LOAD")
      BY <3>3 DEF Needed
    <3>5. r \in Sources(i)
      <4> SUFFICES ASSUME r \notin Sources(i) PROVE FALSE
        OBVIOUS
      <4>1. i.t = "OUTRAS" /\ r \in HiLo
        BY <1>1, <2>2, InstructionFacts DEF ScheduleTypes, TellsReads
      <4>2. writer[r] \in {"OUTRAS", "BUBBLE"}
        BY <3>1, <4>1 DEF NeverAwaited
      <4> QED
        BY <3>4, <4>1, <4>2 DEF Data
    <3>6. r \notin hidden
      <4> SUFFICES ASSUME r \in hidden PROVE FALSE
        OBVIOUS
      <4>1. r \notin HiLo
        BY <1>1, <3>5, InstructionFacts DEF ScheduleTypes
      <4>2. writer[r] \in Control
        BY <3>1, <4>1 DEF NeverAwaited
      <4> QED
        BY <3>4, <4>2 DEF Control
    <3> QED
      BY <1>3, <1>4, <2>2, <3>1, <3>5, <3>6
  <2> QED
    BY <1>3, <2>1, <2>2
<1> QED
  BY <1>3, <1>6, <1>7, <1>10, <1>11 DEF q, S, T

\* An insertion keeps the invariant of the build with five stages.
LEMMA FiveStep ==
  ASSUME FiveInv, NEW i \in Program[build], NEW missed \in BOOLEAN, Insert(i, missed)
  PROVE  FiveInv'
<1>1. build' = build /\ build \in Builds
  BY DEF Insert, FiveInv
<1>2. SUFFICES ASSUME build = "PIPE5"
               PROVE  FiveLast' /\ debt' <= Pending' /\ (Honest("PIPE5") => FiveExact')
  BY <1>1 DEF FiveInv, Honest, TellsReads, Sources
<1>3. FiveLast /\ debt <= Pending /\ (Honest("PIPE5") => FiveExact) /\ ScheduleTypes
  BY <1>2 DEF FiveInv, FiveLast
<1> DEFINE q == Push(p, i)
           now == Update(q)
           S == ReferenceStalls(i)
           T == ToldStalls(i)
           lost == Penalty(i, missed)
<1>4. i \in Instructions /\ Bubble \in Instructions /\ p \in [0 .. 2 -> Instructions] /\ debt \in Int
  BY <1>2, <1>3 DEF Instructions, ScheduleTypes, Seen
<1>5. /\ Sources(i) \cap Registers \subseteq i.uses \cup {i.dest}
      /\ i.dest # None => i.dest \in i.writes \ HiLo
      /\ i.t \in Data \cup Control \cup {"BUBBLE"}
  BY <1>1, <1>4, InstructionFacts
<1>6. q \in [0 .. 2 -> Instructions] /\ q[0] = i /\ q[1] = p[0] /\ q[2] = p[1]
  BY <1>4 DEF Push
<1>7. /\ now.cicles = (IF Due THEN 1 ELSE 0) + ControlCycles(q)
      /\ now.p \in [0 .. 2 -> Instructions] /\ now.p[0] = i
      /\ i.t \notin Control => now.p[1] = p[0]
  <2>1. LoadHit(q) <=> Due
    BY <1>6 DEF LoadHit, Due
  <2> HIDE DEF q
  <2>2. /\ Update(q).cicles = (IF LoadHit(q) THEN 1 ELSE 0) + ControlCycles(q)
        /\ Update(q).p \in [0 .. 2 -> Instructions]
        /\ Update(q).p[0] = q[0]
        /\ q[0].t \notin Control => Update(q).p[1] = q[1]
    BY ONLY <1>2, <1>4, <1>6, FiveUpdate
  <2> QED
    BY <1>6, <2>1, <2>2
<1>8. ControlCycles(q) \in 0 .. 2 /\ Late(i) \in 0 .. 1 /\ (i.t \notin Control => ControlCycles(q) = 0)
  BY <1>6 DEF ControlCycles, Late
<1>9. /\ S \in 0 .. 5 /\ T \in 0 .. 5 /\ T <= S
      /\ T <= ControlCycles(q) + Late(i)
      /\ Honest("PIPE5") => T = ControlCycles(q) + Late(i) /\ S = T
  <2>1. S \in 0 .. 5 /\ T \in 0 .. 5 /\ T <= S
    BY <1>3, <1>4, ReferenceFacts
  <2>2. slot => i.t \notin Control
    BY DEF Insert
  <2>3. T <= ControlCycles(q) + Late(i)
    BY <1>2, <1>3, <2>2, FiveCycles
  <2>4. ASSUME Honest("PIPE5") PROVE T = ControlCycles(q) + Late(i) /\ S = T
    <3>1. TellsReads(i)
      BY <1>2, <2>4 DEF Honest
    <3>2. \A r \in Registers : FiveSeen(r) /\ NeverAwaited(r)
      BY <1>3, <2>4 DEF FiveExact
    <3> QED
      BY <1>2, <1>3, <2>2, <3>1, <3>2, FiveExactCycles
  <2> QED
    BY <2>1, <2>3, <2>4
<1>10. /\ lost = 0 \/ (lost = 1 /\ i.t \in Control)
       /\ i.t \in Control => slot'
  <2>1. missed => i.t = "BRANCH"
    BY DEF Insert
  <2>2. MISSPREDICT_PENALTY = 1
    BY <1>2 DEF MISSPREDICT_PENALTY
  <2>3. lost = 0 \/ (lost = 1 /\ i.t \in Control)
    <3>1. CASE i.t = "JUMP" \/ missed
      <4>1. Penalty(i, missed) = MISSPREDICT_PENALTY
        BY <3>1, Zenon DEF Penalty
      <4>2. i.t \in Control
        BY <2>1, <3>1, Zenon DEF Control
      <4> QED
        BY <2>2, <4>1, <4>2
    <3>2. CASE ~(i.t = "JUMP" \/ missed)
      BY <3>2, Zenon DEF Penalty
    <3> QED
      BY <3>1, <3>2
  <2>4. i.t \in Control => slot'
    BY Zenon DEF Insert
  <2> QED
    BY <2>3, <2>4
<1>11. ScheduleTypes'
  <2>1. Seen = 3 /\ now.cicles \in Int
    BY <1>2, <1>7, <1>8 DEF Seen
  <2>2. now.p \in [0 .. Seen - 1 -> Instructions]
    BY <1>7, <2>1
  <2> QED
    BY <1>3, <2>1, <2>2, TypesStep
<1>12. /\ debt' = debt + T - now.cicles /\ p' = Flush(now.p, lost)
       /\ hidden' = (hidden \cup i.writes) \ {i.dest} /\ unseen' = (unseen \/ S > T)
  BY DEF Insert
<1> HIDE DEF now, S, T, lost, q
<1>13. /\ lost = 0 => p'[0] = i
       /\ lost = 1 => p'[0] = Bubble /\ p'[1] = i
       /\ lost = 0 /\ i.t \notin Control => p'[1] = p[0]
  <2>1. DOMAIN now.p = 0 .. 2
    BY <1>7
  <2> QED
    BY <1>7, <1>12, <2>1 DEF Flush
<1>14. \A r \in Registers :
         /\ r \in i.writes => writer'[r] = i.t /\ since'[r] = 1 + lost
         /\ r \notin i.writes =>
                          /\ writer'[r] = writer[r]
                          /\ \/ since'[r] = 5
                             \/ since'[r] = since[r] + S + 1 + lost
                          /\ since[r] + S + 1 + lost <= 5 => since'[r] = since[r] + S + 1 + lost
  <2>1. \A r \in Registers : since[r] \in 1 .. 5
    BY <1>3 DEF ScheduleTypes, Far
  <2> DEFINE later(c) == IF c > 5 THEN 5 ELSE c
  <2>2. /\ since' = [r \in Registers |-> IF r \in i.writes THEN later(1 + lost)
                                         ELSE later(since[r] + S + 1 + lost)]
        /\ writer' = [r \in Registers |-> IF r \in i.writes THEN i.t ELSE writer[r]]
    BY DEF Insert, Far, S, lost
  <2>3. \A c \in Int : (later(c) = 5 \/ later(c) = c) /\ (c <= 5 => later(c) = c)
    OBVIOUS
  <2>4. later(1 + lost) = 1 + lost
    BY <1>10
  <2>5. \A r \in Registers : since[r] + S + 1 + lost \in Int
    BY <1>9, <1>10, <2>1
  <2> HIDE DEF later
  <2> QED
    BY <2>2, <2>3, <2>4, <2>5
<1>15. /\ \A r \in Registers : since[r] \in 1 .. 5 /\ r # None
       /\ \A r \in Registers \ hidden : FiveKnown(r)
  BY <1>3, PipelineAssumption DEF FiveLast, ScheduleTypes, Far
<1>16. Due' => i.t \in Data /\ p[0].t = "LOAD" /\ DependsOn(i, p[0])
  <2> SUFFICES ASSUME Due' PROVE i.t \in Data /\ p[0].t = "LOAD" /\ DependsOn(i, p[0])
    OBVIOUS
  <2>1. p'[0].t \in Data /\ p'[1].t = "LOAD" /\ DependsOn(p'[0], p'[1])
    BY DEF Due, DependsOn, Sources
  <2>2. Bubble.t \notin Data
    BY DEF Bubble, Data
  <2>3. lost = 0 /\ p'[0] = i
    BY <1>10, <1>13, <2>1, <2>2
  <2>4. i.t \notin Control
    BY <2>1, <2>3 DEF Data, Control
  <2> QED
    BY <1>13, <2>1, <2>3, <2>4
<1>17. lost = 0 /\ i.t \in Data /\ p[0].t = "LOAD" /\ DependsOn(i, p[0]) => Due'
  <2> SUFFICES ASSUME lost = 0, i.t \in Data, p[0].t = "LOAD", DependsOn(i, p[0]) PROVE Due'
    OBVIOUS
  <2>1. p'[0] = i /\ p'[1] = p[0]
    BY <1>13 DEF Data, Control
  <2> QED
    BY <2>1 DEF Due, DependsOn, Sources
<1>18. ASSUME NEW r \in Registers \ hidden' PROVE FiveKnown(r)'
  <2>0. \/ r = i.dest /\ r \in i.writes
        \/ r \notin i.writes /\ r \notin hidden
    BY <1>5, <1>12, <1>15
  <2>1. CASE since'[r] = 1
    <3>1. r = i.dest /\ r \in i.writes /\ lost = 0
      BY <1>5, <1>9, <1>10, <1>14, <1>15, <2>0, <2>1
    <3>2. p'[0] = i /\ writer'[r] = i.t
      BY <1>13, <1>14, <2>0, <2>1, <3>1
    <3> QED
      BY <2>1, <3>1, <3>2 DEF FiveKnown
  <2>2. CASE since'[r] = 2 /\ writer'[r] = "LOAD" /\ p'[0].t \notin Control
    <3>1. r # i.dest /\ r \notin i.writes /\ r \notin hidden
      <4>1. r \notin i.writes
        BY <1>10, <1>14, <2>2 DEF Control
      <4> QED
        BY <1>5, <1>15, <2>0, <4>1
    <3>2. since[r] = 1 /\ S = 0 /\ lost = 0 /\ writer[r] = "LOAD"
      BY <1>9, <1>10, <1>14, <1>15, <2>2, <3>1
    <3>3. p[0].t = "LOAD" /\ p[0].dest = r
      BY <1>15, <3>1, <3>2 DEF FiveKnown
    <3>4. p'[0] = i /\ p'[1] = p[0]
      BY <1>13, <2>2, <3>2
    <3>5. ~Due'
      <4> SUFFICES ASSUME Due' PROVE FALSE
        OBVIOUS
      <4>1. i.t \in Data /\ r \in i.uses
        BY <1>5, <1>16, <3>1, <3>3 DEF DependsOn
      <4>2. Needed(writer[r], i.t) = 2
        BY <1>2, <3>2, <4>1 DEF Needed
      <4>3. Needed(writer[r], i.t) - since[r] <= S
        BY <1>3, <1>4, <4>1, ReferenceFacts DEF S
      <4> QED
        BY <3>2, <4>2, <4>3
    <3> QED
      BY <2>2, <3>1, <3>3, <3>4, <3>5 DEF FiveKnown
  <2>3. CASE since'[r] # 1 /\ ~(since'[r] = 2 /\ writer'[r] = "LOAD" /\ p'[0].t \notin Control)
    BY <2>3 DEF FiveKnown
  <2> QED
    BY <2>1, <2>2, <2>3 DEF FiveKnown
<1>19. ASSUME NEW r \in Registers, Honest("PIPE5") PROVE FiveSeen(r)' /\ NeverAwaited(r)'
  <2>1. ASSUME p'[0].t \in {"LOAD", "OUTRAS"}, p'[0].dest = r
        PROVE  since'[r] = 1 /\ writer'[r] = p'[0].t /\ r \notin hidden'
    <3>1. lost = 0 /\ p'[0] = i
      BY <1>10, <1>13, <2>1 DEF Bubble
    <3>2. r \in i.writes /\ r = i.dest
      BY <1>5, <1>15, <2>1, <3>1
    <3> QED
      BY <1>12, <1>14, <3>1, <3>2
  <2>2. ASSUME p'[0].t \notin Control, p'[1].t = "LOAD", p'[1].dest = r, p'[0].dest # r, ~Due'
        PROVE  since'[r] = 2 /\ writer'[r] = "LOAD" /\ r \notin hidden'
    <3>1. lost = 0 /\ p'[0] = i
      BY <1>10, <1>13, <2>2 DEF Control
    <3>2. p'[1] = p[0] /\ i.t \notin Control
      BY <1>13, <2>2, <3>1
    <3>3. since[r] = 1 /\ writer[r] = "LOAD" /\ r \notin hidden
      BY <1>3, <1>19, <2>2, <3>2 DEF FiveSeen, FiveExact
    <3>4. S = 0
      <4>1. Late(i) = 0
        BY <1>17, <2>2, <3>1 DEF Late, DependsOn, Told
      <4> QED
        BY <1>8, <1>9, <1>19, <3>2, <4>1
    <3>5. r \notin i.writes
      <4>1. p[0] \in Instructions /\ r \notin HiLo
        <5>1. p[0] \in Instructions
          BY <1>4
        <5> QED
          BY <1>1, <1>15, <2>2, <3>2, <5>1, InstructionFacts
      <4> QED
        BY <1>1, <1>4, <2>2, <3>1, <3>2, <4>1, InstructionFacts
    <3> QED
      BY <1>12, <1>14, <3>1, <3>3, <3>4, <3>5
  <2>3. NeverAwaited(r)'
    <3>1. NeverAwaited(r)
      BY <1>3, <1>19 DEF FiveExact
    <3>2. CASE r \notin i.writes
      BY <1>12, <1>14, <3>1, <3>2 DEF NeverAwaited
    <3>3. CASE r \in i.writes
      <4>1. writer'[r] = i.t
        BY <1>14, <3>3
      <4>2. r = i.dest => r \notin HiLo /\ r \notin hidden'
        BY <1>5, <1>12, <1>15
      <4>3. ASSUME r # i.dest PROVE (r \in HiLo => i.t = "OUTRAS") /\ (r \notin HiLo => i.t \in Control)
        <5>1. i.writes \ {i.dest} \subseteq IF i.t = "OUTRAS" THEN HiLo
                                             ELSE IF i.t \in Control THEN Registers \ HiLo ELSE {}
          BY <1>1, <1>4, InstructionFacts
        <5> QED
          BY <3>3, <4>3, <5>1
      <4> QED
        BY <4>1, <4>2, <4>3 DEF NeverAwaited
    <3> QED
      BY <3>2, <3>3
  <2> QED
    BY <2>1, <2>2, <2>3 DEF FiveSeen
<1>20. p'[0].t \in Control => slot'
  BY <1>10, <1>13 DEF Bubble, Control
<1>21. Pending' = Late(i)
  <2>1. Pending' = IF p'[0].t \in Data /\ p'[1].t = "LOAD" /\ p'[1].dest \in Told(p'[0]) THEN 1 ELSE 0
    BY <1>1, <1>2 DEF Pending, Told, Sources
  <2>2. Bubble.t \notin Data
    BY DEF Bubble, Data
  <2>3. i.t \in Data => i.t \notin Control
    BY DEF Data, Control
  <2> QED
    BY <1>10, <1>13, <2>1, <2>2, <2>3 DEF Late
<1>22. /\ Pending \in 0 .. 1
       /\ Pending = 1 => Due
  BY <1>2 DEF Pending, Due, DependsOn, Told
<1>23. debt' <= Pending'
  BY <1>3, <1>4, <1>7, <1>8, <1>9, <1>12, <1>21, <1>22
<1>24. ASSUME Honest("PIPE5") PROVE FiveExact'
  <2>1. TellsReads(p[0])
    <3>1. TellsReads(Bubble)
      BY DEF Bubble, Sources, TellsReads
    <3>2. p[0] \in Program["PIPE5"] \/ p[0] = Bubble
      BY <1>2, <1>4 DEF Instructions
    <3> QED
      BY <1>24, <3>1, <3>2 DEF Honest
  <2>2. Due => Pending = 1
    <3> SUFFICES ASSUME Due PROVE Pending = 1
      OBVIOUS
    <3>1. p[1] \in Instructions /\ p[1].t = "LOAD" /\ p[1].dest \in Sources(p[0])
      BY <1>4 DEF Due, DependsOn
    <3>2. p[1].dest \in Registers
      BY <1>1, <3>1, InstructionFacts
    <3>3. p[1].dest \in Told(p[0])
      BY <2>1, <3>1, <3>2 DEF TellsReads, Told
    <3> QED
      BY <1>2, <3>3 DEF Due, Pending
  <2>3. debt' = Pending'
    BY <1>3, <1>4, <1>7, <1>8, <1>9, <1>12, <1>21, <1>22, <1>24, <2>2 DEF FiveExact
  <2>4. ~unseen'
    <3>1. ~(S > T)
      BY <1>9, <1>24
    <3>2. ~unseen
      BY <1>3, <1>24 DEF FiveExact
    <3> QED
      BY <1>12, <3>1, <3>2, Zenon
  <2>5. \A r \in Registers : FiveSeen(r)' /\ NeverAwaited(r)'
    BY <1>19, <1>24
  <2> QED
    BY <2>3, <2>4, <2>5 DEF FiveExact
<1> QED
  BY <1>11, <1>18, <1>20, <1>23, <1>24 DEF FiveLast

\* Every state of every program satisfies the invariant.
LEMMA FiveInvariant == DualSpec => []FiveInv
<1>1. DualInit => FiveInv
  <2> SUFFICES ASSUME DualInit PROVE FiveInv
    OBVIOUS
  <2>1. build \in Builds
    BY DEF DualInit, Init
  <2>2. ASSUME build = "PIPE5" PROVE FiveLast /\ debt <= Pending /\ FiveExact
    <3>1. ScheduleTypes
      BY <2>1, InitialTypes DEF DualInit
    <3>2. p[0] = Bubble /\ p[1] = Bubble
      BY <2>2 DEF DualInit, Init, Seen
    <3>3. \A r \in Registers : since[r] = 5
      BY DEF DualInit, Init, Far
    <3>4. \A r \in Registers : FiveKnown(r) /\ FiveSeen(r)
      BY <3>2, <3>3 DEF FiveKnown, FiveSeen, Bubble
    <3>5. p[0].t \notin Control /\ debt = 0 /\ Pending = 0 /\ ~unseen
      BY <3>2 DEF DualInit, Init, Control, Bubble, Pending, Data
    <3>6. \A r \in Registers : NeverAwaited(r)
      BY DEF DualInit, Init, NeverAwaited
    <3> QED
      BY <3>1, <3>4, <3>5, <3>6 DEF FiveLast, FiveExact
  <2> QED
    BY <2>1, <2>2 DEF FiveInv
<1>2. FiveInv /\ [DualNext]_allVars => FiveInv'
  <2> SUFFICES ASSUME FiveInv, [DualNext]_allVars PROVE FiveInv'
    OBVIOUS
  <2>1. CASE build # "SUPERESCALAR" /\ Next
    BY <2>1, FiveStep DEF Next
  <2>2. CASE build = "SUPERESCALAR" /\ DualNext
    BY <2>2, BuildStays DEF FiveInv
  <2>3. CASE UNCHANGED allVars
    BY <2>3 DEF allVars, vars, FiveInv, FiveLast, FiveExact, ScheduleTypes, Instructions, Seen,
         FiveKnown, FiveSeen, NeverAwaited, Due, Pending, Told, Honest, TellsReads, DependsOn, Sources
  <2> QED
    BY <2>1, <2>2, <2>3 DEF DualNext
<1> QED
  BY <1>1, <1>2, PTL DEF DualSpec

-----------------------------------------------------------------------------
\* relatorio.md, "Hazards estudados": the build with five stages charges every
\* data hazard with the cycles given there and no other, for every program
\* whose instructions read what they tell and whose loads tell what they read:
\* all but addi and its siblings, which also tell of the register they write,
\* and lwl and lwr.  What mult, mflo and the calls do not tell costs nothing.
THEOREM FiveStagesCharge == ASSUME Honest("PIPE5") PROVE DualSpec => []FiveStagesExact
<1>1. FiveInv => FiveStagesExact
  BY Honest("PIPE5") DEF FiveInv, FiveExact, FiveStagesExact, ReportedStalls
<1> QED
  BY <1>1, FiveInvariant, PTL

\* With 5 and 13 stages no program is charged less than the schedule asks for
\* the data hazards of which both instructions tell, however long it runs,
\* wherever stall() puts its bubbles and whatever else it waits for in the
\* schedule: what is missing is due for the newest instruction.  For a hazard
\* that is not told nothing is claimed: there the code charges too little.
THEOREM HazardsCharged == DualSpec => []ToldHazardsCharged
<1>1. FiveInv /\ ThirteenInv => ToldHazardsCharged
  BY DEF FiveInv, ThirteenInv, ToldHazardsCharged, Pending
<1> QED
  BY <1>1, FiveInvariant, ThirteenInvariant, PTL

-----------------------------------------------------------------------------
(* Two pipelines.  In a program of arithmetic, loads and stores a pair       *)
(* waits for the loads of the pair before it, then its second for its first. *)
(* The code decides this when the next pair has come in, the schedule as     *)
(* each instruction does; the histories keep just enough for that.           *)

\* What update_superescalar finds of an instruction i and an older one j.
WaitsLoad(i, j) == i.t \in Data /\ j.t = "LOAD" /\ Clash(TwoRegisters(i), i, j)
WaitsSum(i, j) == i.t \in Data /\ i.t # "LOAD" /\ j.t = "OUTRAS" /\ Clash(TwoRegisters(i), i, j)

\* The cycles of the pair f and s after the pair x and y.
PairCycles(f, s, x, y) ==
  LET older(i) == WaitsLoad(i, x) \/ WaitsLoad(i, y)
      first == IF older(f) THEN 1 ELSE 0
      second == IF WaitsLoad(s, f) THEN 2
                ELSE IF WaitsSum(s, f) THEN 1
                ELSE IF ~older(f) /\ older(s) THEN 1 ELSE 0
  IN first + second

\* The rules of a pair, one list at a time: the first that meets is charged.
LEMMA DualFirst ==
  ASSUME NEW consumers, NEW i, i.t \in consumers, i.t # "JUMP", NEW rules, DOMAIN rules \subseteq Int,
         NEW now, NEW n \in DOMAIN rules, Meets(i, rules[n], now.h),
         \A m \in DOMAIN rules : m < n => ~Meets(i, rules[m], now.h)
  PROVE  DualCharge(consumers, i, rules, now) = Charged(rules[n], now)
<1> DEFINE hits == Met(i, rules, now.h)
<1>1. n \in hits /\ hits \subseteq Int /\ \A m \in hits : n <= m
  BY DEF Met
<1>2. \A x \in hits : (\A m \in hits : x <= m) => x = n
  <2> HIDE DEF hits
  <2> QED
    BY <1>1
<1>3. Min(hits) \in hits /\ \A m \in hits : Min(hits) <= m
  <2> HIDE DEF hits
  <2> QED
    BY <1>1 DEF Min
<1>4. Min(hits) = n
  BY <1>2, <1>3
<1> HIDE DEF hits
<1>5. hits # {}
  BY <1>1
<1> QED
  BY <1>4, <1>5, Zenon DEF DualCharge, hits

\* Nothing is charged when none meets, or the list is for other instructions.
LEMMA DualNone ==
  ASSUME NEW consumers, NEW i, NEW rules, NEW now,
         i.t \notin consumers \/ \A m \in DOMAIN rules : ~Meets(i, rules[m], now.h)
  PROVE  DualCharge(consumers, i, rules, now) = now
<1>1. CASE i.t \notin consumers
  BY <1>1, Zenon DEF DualCharge
<1>2. CASE \A m \in DOMAIN rules : ~Meets(i, rules[m], now.h)
  <2>1. Met(i, rules, now.h) = {}
    BY <1>2 DEF Met
  <2> QED
    BY <2>1, Zenon DEF DualCharge
<1> QED
  BY <1>1, <1>2

\* What a stall behind position pos leaves of a history of three.
LEMMA StallOfThree ==
  ASSUME NEW I, Bubble \in I, NEW q \in [0 .. 2 -> I], NEW pos \in {0, 1}, NEW c \in {1, 2}
  PROVE  /\ Stall(q, pos, c) \in [0 .. 2 -> I]
         /\ Stall(q, pos, c)[0] = q[0]
         /\ Stall(q, pos, c)[1] = IF pos = 1 THEN q[1] ELSE Bubble
         /\ Stall(q, pos, c)[2] = IF pos = 1 \/ c = 2 THEN Bubble ELSE q[1]
<1>1. DOMAIN q = 0 .. 2
  OBVIOUS
<1>2. Stall(q, pos, c) = [k \in 0 .. 2 |-> IF k <= pos THEN q[k] ELSE IF k <= pos + c THEN Bubble ELSE q[k - c]]
  BY <1>1 DEF Stall
<1>3. \A k \in 0 .. 2 : ~(k <= pos + c) => k = 2 /\ pos = 0 /\ c = 1 /\ q[k - c] = q[1]
  OBVIOUS
<1>4. q[0] \in I /\ q[1] \in I /\ q[2] \in I
  OBVIOUS
<1> QED
  BY <1>2, <1>3, <1>4

\* Without branches and jumps: what update_superescalar charges the pair that
\* came in before the newest one, and what it leaves of that pair.
LEMMA PairUpdate ==
  ASSUME NEW I, Bubble \in I, NEW a \in [0 .. 2 -> I], NEW b \in [0 .. 2 -> I],
         a[0].t \notin Control, b[0].t \notin Control
  PROVE  LET u == update_superescalar(<<a, b>>) IN
         /\ u.cicles = PairCycles(a[1], b[1], a[2], b[2])
         /\ u.h[1] \in [0 .. 2 -> I] /\ u.h[2] \in [0 .. 2 -> I]
         /\ u.h[1][0] = a[0] /\ u.h[2][0] = b[0] /\ u.h[2][1] = b[1]
         /\ u.h[1][1] = IF WaitsLoad(b[1], a[1]) \/ WaitsSum(b[1], a[1]) THEN Bubble ELSE a[1]
<1> DEFINE start == [h |-> <<a, b>>, cicles |-> 0]
           A == DualCharge(Data, <<a, b>>[1][1], UseRules(1), start)
           B == DualCharge(Control, A.h[1][0], DualControlRules(1, A.h[1][0]), A)
           C == DualCharge(Data, B.h[2][1], SplitRules(B.h[2][1]), B)
           D == DualCharge(Data, C.h[2][1], UseRules(2), C)
           E == DualCharge(Control, D.h[2][0], DualControlRules(2, D.h[2][0]), D)
           older(i) == WaitsLoad(i, a[2]) \/ WaitsLoad(i, b[2])
           split == WaitsLoad(b[1], a[1]) \/ WaitsSum(b[1], a[1])
<1>1. update_superescalar(<<a, b>>) = E
  BY Zenon DEF update_superescalar
<1>2. start.h[1] = a /\ start.h[2] = b /\ start.cicles = 0 /\ <<a, b>>[1] = a
  OBVIOUS
<1>3. \A c \in {1, 2} : /\ DOMAIN UseRules(c) = {1}
                        /\ UseRules(c)[1].pairs = {<<<<c, 1>>, <<1, 2>>>>, <<<<c, 1>>, <<2, 2>>>>}
                        /\ UseRules(c)[1].kinds = {"LOAD"}
                        /\ UseRules(c)[1].first = <<1, 1>> /\ UseRules(c)[1].second = <<1, 1>>
  BY DEF UseRules, Against, DualRule
<1>4. ASSUME NEW c \in {1, 2}, NEW h
      PROVE  Meets(h[c][1], UseRules(c)[1], h) <=>
               \/ h[1][2].t = "LOAD" /\ Clash(TwoRegisters(h[c][1]), h[c][1], h[1][2])
               \/ h[2][2].t = "LOAD" /\ Clash(TwoRegisters(h[c][1]), h[c][1], h[2][2])
  <2> HIDE DEF start, A, B, C, D, E
  <2> DEFINE w1 == <<<<c, 1>>, <<1, 2>>>>
             w2 == <<<<c, 1>>, <<2, 2>>>>
             hit(w) == /\ At(h, w[2]).t \in UseRules(c)[1].kinds
                       /\ Clash(TwoRegisters(h[c][1]), At(h, w[1]), At(h, w[2]))
  <2>1. Meets(h[c][1], UseRules(c)[1], h) <=> \E w \in {w1, w2} : hit(w)
    BY <1>3, Zenon DEF Meets
  <2>2. At(h, w1[1]) = h[c][1] /\ At(h, w1[2]) = h[1][2] /\ At(h, w2[1]) = h[c][1] /\ At(h, w2[2]) = h[2][2]
    BY DEF At
  <2>3. \A t : t \in UseRules(c)[1].kinds <=> t = "LOAD"
    BY <1>3
  <2> HIDE DEF w1, w2
  <2>4. (\E w \in {w1, w2} : hit(w)) <=> hit(w1) \/ hit(w2)
    BY Zenon
  <2>5. /\ hit(w1) <=> h[1][2].t = "LOAD" /\ Clash(TwoRegisters(h[c][1]), h[c][1], h[1][2])
        /\ hit(w2) <=> h[2][2].t = "LOAD" /\ Clash(TwoRegisters(h[c][1]), h[c][1], h[2][2])
    BY <2>2, <2>3, Zenon
  <2> QED
    BY <2>1, <2>4, <2>5, Zenon
<1> HIDE DEF start
<1>5. /\ A.cicles = IF older(a[1]) THEN 1 ELSE 0
      /\ A.h[1] = IF older(a[1]) THEN Stall(a, 1, 1) ELSE a
      /\ A.h[2] = IF older(a[1]) THEN Stall(b, 1, 1) ELSE b
  <2>1. Meets(a[1], UseRules(1)[1], start.h) /\ a[1].t \in Data <=> older(a[1])
    <3>1. Meets(a[1], UseRules(1)[1], start.h) <=>
            \/ a[2].t = "LOAD" /\ Clash(TwoRegisters(a[1]), a[1], a[2])
            \/ b[2].t = "LOAD" /\ Clash(TwoRegisters(a[1]), a[1], b[2])
      BY <1>2, <1>4
    <3> QED
      BY <3>1, Zenon DEF WaitsLoad
  <2>2. CASE older(a[1])
    <3>1. a[1].t \in Data /\ a[1].t # "JUMP" /\ Meets(a[1], UseRules(1)[1], start.h)
      BY <2>1, <2>2 DEF Data
    <3>2. A = Charged(UseRules(1)[1], start)
      <4>1. DOMAIN UseRules(1) \subseteq Int /\ 1 \in DOMAIN UseRules(1)
            /\ \A m \in DOMAIN UseRules(1) : ~(m < 1)
        BY <1>3
      <4> QED
        BY <1>2, <3>1, <4>1, DualFirst
    <3>3. UseRules(1)[1].first = <<1, 1>> /\ UseRules(1)[1].second = <<1, 1>>
      BY <1>3
    <3> HIDE DEF A, older
    <3>4. A = [h |-> <<Stall(a, 1, 1), Stall(b, 1, 1)>>, cicles |-> 0 + 1]
      BY <1>2, <3>2, <3>3 DEF Charged
    <3> QED
      BY <2>2, <3>4
  <2>3. CASE ~older(a[1])
    <3>1. A = start
      <4>1. a[1].t \notin Data \/ \A m \in DOMAIN UseRules(1) : ~Meets(a[1], UseRules(1)[m], start.h)
        BY <1>3, <2>1, <2>3
      <4> QED
        BY <1>2, <4>1, DualNone
    <3> HIDE DEF A, older
    <3> QED
      BY <1>2, <2>3, <3>1
  <2> QED
    BY <2>2, <2>3
<1> HIDE DEF A, older
<1>6. /\ A.h[1] \in [0 .. 2 -> I] /\ A.h[2] \in [0 .. 2 -> I]
      /\ A.h[1][0] = a[0] /\ A.h[1][1] = a[1]
      /\ A.h[2][0] = b[0] /\ A.h[2][1] = b[1]
      /\ A.h[1][2] = IF older(a[1]) THEN Bubble ELSE a[2]
      /\ A.h[2][2] = IF older(a[1]) THEN Bubble ELSE b[2]
  BY <1>5, StallOfThree
<1>7. B = A
  BY <1>6, DualNone
<1> HIDE DEF B
<1>8. /\ C.cicles = A.cicles + IF WaitsLoad(b[1], a[1]) THEN 2 ELSE IF WaitsSum(b[1], a[1]) THEN 1 ELSE 0
      /\ C.h[1] = IF WaitsLoad(b[1], a[1]) THEN Stall(A.h[1], 0, 2)
                  ELSE IF WaitsSum(b[1], a[1]) THEN Stall(A.h[1], 0, 1) ELSE A.h[1]
      /\ C.h[2] = IF WaitsLoad(b[1], a[1]) THEN Stall(A.h[2], 1, 2)
                  ELSE IF WaitsSum(b[1], a[1]) THEN Stall(A.h[2], 1, 1) ELSE A.h[2]
  <2> DEFINE R == SplitRules(b[1])
             w == <<<<2, 1>>, <<1, 1>>>>
  <2>1. /\ DOMAIN R = IF b[1].t = "LOAD" THEN {1} ELSE {1, 2}
        /\ R[1] = DualRule({w}, {"LOAD"}, <<0, 2>>, <<1, 2>>)
        /\ b[1].t # "LOAD" => R[2] = DualRule({w}, {"OUTRAS"}, <<0, 1>>, <<1, 1>>)
    <3>1. CASE b[1].t = "LOAD"
      <4>1. R = <<DualRule({w}, {"LOAD"}, <<0, 2>>, <<1, 2>>)>> \o <<>>
        BY <3>1 DEF SplitRules
      <4> QED
        BY <3>1, <4>1
    <3>2. CASE b[1].t # "LOAD"
      <4>1. R = <<DualRule({w}, {"LOAD"}, <<0, 2>>, <<1, 2>>)>> \o <<DualRule({w}, {"OUTRAS"}, <<0, 1>>, <<1, 1>>)>>
        BY <3>2 DEF SplitRules
      <4> QED
        BY <3>2, <4>1
    <3> QED
      BY <3>1, <3>2
  <2>2. /\ R[1].pairs = {w} /\ R[1].kinds = {"LOAD"} /\ R[1].first = <<0, 2>> /\ R[1].second = <<1, 2>>
        /\ b[1].t # "LOAD" =>
             R[2].pairs = {w} /\ R[2].kinds = {"OUTRAS"} /\ R[2].first = <<0, 1>> /\ R[2].second = <<1, 1>>
    BY <2>1 DEF DualRule
  <2>3. At(A.h, w[1]) = b[1] /\ At(A.h, w[2]) = a[1]
    BY <1>6 DEF At
  <2> HIDE DEF w, R
  <2>4. \A n : R[n].pairs = {w} => (Meets(b[1], R[n], A.h) <=> a[1].t \in R[n].kinds /\ Clash(TwoRegisters(b[1]), b[1], a[1]))
    BY <2>3, Zenon DEF Meets
  <2>5. /\ b[1].t \in Data => (Meets(b[1], R[1], A.h) <=> WaitsLoad(b[1], a[1]))
        /\ b[1].t \in Data /\ b[1].t # "LOAD" => (Meets(b[1], R[2], A.h) <=> WaitsSum(b[1], a[1]))
    BY <2>2, <2>4 DEF WaitsLoad, WaitsSum
  <2>6. C = DualCharge(Data, b[1], R, A)
    BY <1>6, <1>7 DEF R
  <2> HIDE DEF C
  <2>7. CASE WaitsLoad(b[1], a[1])
    <3>1. b[1].t \in Data /\ b[1].t # "JUMP" /\ Meets(b[1], R[1], A.h)
      BY <2>5, <2>7 DEF WaitsLoad, Data
    <3>2. DOMAIN R \subseteq Int /\ 1 \in DOMAIN R /\ \A m \in DOMAIN R : ~(m < 1)
      BY <2>1
    <3>3. C = Charged(R[1], A)
      BY <2>6, <3>1, <3>2, DualFirst
    <3>4. C = [h |-> <<Stall(A.h[1], 0, 2), Stall(A.h[2], 1, 2)>>, cicles |-> A.cicles + 2]
      BY <2>2, <3>3 DEF Charged
    <3> QED
      BY <2>7, <3>4
  <2>8. CASE ~WaitsLoad(b[1], a[1]) /\ WaitsSum(b[1], a[1])
    <3>1. b[1].t \in Data /\ b[1].t # "JUMP" /\ b[1].t # "LOAD" /\ ~Meets(b[1], R[1], A.h) /\ Meets(b[1], R[2], A.h)
      BY <2>5, <2>8 DEF WaitsSum, Data
    <3>2. DOMAIN R \subseteq Int /\ 2 \in DOMAIN R /\ \A m \in DOMAIN R : m < 2 => m = 1
      BY <2>1, <3>1
    <3>3. C = Charged(R[2], A)
      BY <2>6, <3>1, <3>2, DualFirst
    <3>4. C = [h |-> <<Stall(A.h[1], 0, 1), Stall(A.h[2], 1, 1)>>, cicles |-> A.cicles + 1]
      BY <2>2, <3>1, <3>3 DEF Charged
    <3> QED
      BY <2>8, <3>4
  <2>9. CASE ~WaitsLoad(b[1], a[1]) /\ ~WaitsSum(b[1], a[1])
    <3>1. b[1].t \notin Data \/ \A m \in DOMAIN R : ~Meets(b[1], R[m], A.h)
      BY <2>1, <2>5, <2>9
    <3>2. C = A
      BY <2>6, <3>1, DualNone
    <3>3. A.cicles + 0 = A.cicles
      BY <1>5
    <3> QED
      BY <2>9, <3>2, <3>3
  <2> QED
    BY <2>7, <2>8, <2>9
<1> HIDE DEF C
<1>9. /\ C.h[1] \in [0 .. 2 -> I] /\ C.h[2] \in [0 .. 2 -> I]
      /\ C.h[1][0] = a[0] /\ C.h[2][0] = b[0] /\ C.h[2][1] = b[1]
      /\ C.h[1][1] = IF split THEN Bubble ELSE a[1]
      /\ split => C.h[1][2].t # "LOAD" /\ C.h[2][2].t # "LOAD"
      /\ ~split => C.h[1][2] = A.h[1][2] /\ C.h[2][2] = A.h[2][2]
  <2>1. Bubble.t # "LOAD"
    BY DEF Bubble
  <2>2. CASE WaitsLoad(b[1], a[1])
    <3>1. C.h[1] = Stall(A.h[1], 0, 2) /\ C.h[2] = Stall(A.h[2], 1, 2)
      BY <1>8, <2>2
    <3>2. 0 \in {0, 1} /\ 1 \in {0, 1} /\ 2 \in {1, 2}
      OBVIOUS
    <3> QED
      BY <1>6, <2>1, <2>2, <3>1, <3>2, StallOfThree
  <2>3. CASE ~WaitsLoad(b[1], a[1]) /\ WaitsSum(b[1], a[1])
    <3>1. C.h[1] = Stall(A.h[1], 0, 1) /\ C.h[2] = Stall(A.h[2], 1, 1)
      BY <1>8, <2>3
    <3>2. 0 \in {0, 1} /\ 1 \in {0, 1} /\ 1 \in {1, 2}
      OBVIOUS
    <3>3. a[1].t # "LOAD"
      BY <2>3 DEF WaitsSum
    <3> QED
      BY <1>6, <2>1, <2>3, <3>1, <3>2, <3>3, StallOfThree
  <2>4. CASE ~WaitsLoad(b[1], a[1]) /\ ~WaitsSum(b[1], a[1])
    BY <1>6, <1>8, <2>4
  <2> QED
    BY <2>2, <2>3, <2>4
<1> DEFINE late == ~split /\ ~older(a[1]) /\ older(b[1])
<1>10. Meets(b[1], UseRules(2)[1], C.h) /\ b[1].t \in Data <=> late
  <2>1. Meets(b[1], UseRules(2)[1], C.h) <=>
          \/ C.h[1][2].t = "LOAD" /\ Clash(TwoRegisters(b[1]), b[1], C.h[1][2])
          \/ C.h[2][2].t = "LOAD" /\ Clash(TwoRegisters(b[1]), b[1], C.h[2][2])
    <3>1. C.h[2][1] = b[1]
      BY <1>9
    <3> QED
      BY <1>4, <3>1
  <2>2. CASE split
    BY <1>9, <2>1, <2>2, Zenon
  <2>3. CASE ~split /\ older(a[1])
    <3>1. C.h[1][2].t # "LOAD" /\ C.h[2][2].t # "LOAD"
      BY <1>6, <1>9, <2>3 DEF Bubble
    <3> QED
      BY <2>1, <2>3, <3>1, Zenon
  <2>4. CASE ~split /\ ~older(a[1])
    <3>1. C.h[1][2] = a[2] /\ C.h[2][2] = b[2]
      BY <1>6, <1>9, <2>4
    <3> DEFINE x == a[2].t = "LOAD" /\ Clash(TwoRegisters(b[1]), b[1], a[2])
               y == b[2].t = "LOAD" /\ Clash(TwoRegisters(b[1]), b[1], b[2])
    <3>2. older(b[1]) <=> (b[1].t \in Data /\ (x \/ y))
      BY DEF older, WaitsLoad
    <3>3. Meets(b[1], UseRules(2)[1], C.h) <=> (x \/ y)
      BY <2>1, <3>1
    <3>4. late <=> older(b[1])
      BY <2>4
    <3> QED
      BY <3>2, <3>3, <3>4
  <2> QED
    BY <2>2, <2>3, <2>4
<1>11. /\ D.cicles = C.cicles + IF late THEN 1 ELSE 0
       /\ D.h[1] \in [0 .. 2 -> I] /\ D.h[2] \in [0 .. 2 -> I]
       /\ D.h[1][0] = C.h[1][0] /\ D.h[2][0] = C.h[2][0]
       /\ D.h[1][1] = C.h[1][1] /\ D.h[2][1] = C.h[2][1]
  <2> HIDE DEF late
  <2>1. C.h[2][1] = b[1]
    BY <1>9
  <2>2. C.cicles \in Int
    BY <1>5, <1>8
  <2>3. CASE late
    <3>1. b[1].t \in Data /\ b[1].t # "JUMP" /\ Meets(b[1], UseRules(2)[1], C.h)
      BY <1>10, <2>3 DEF Data
    <3>2. DOMAIN UseRules(2) \subseteq Int /\ 1 \in DOMAIN UseRules(2)
          /\ \A m \in DOMAIN UseRules(2) : ~(m < 1)
      BY <1>3
    <3>3. D = Charged(UseRules(2)[1], C)
      BY <2>1, <3>1, <3>2, DualFirst
    <3>4. UseRules(2)[1].first = <<1, 1>> /\ UseRules(2)[1].second = <<1, 1>>
      BY <1>3
    <3> HIDE DEF D
    <3>5. D = [h |-> <<Stall(C.h[1], 1, 1), Stall(C.h[2], 1, 1)>>, cicles |-> C.cicles + 1]
      BY <3>3, <3>4 DEF Charged
    <3>6. 1 \in {0, 1} /\ 1 \in {1, 2}
      OBVIOUS
    <3> QED
      BY <1>9, <2>3, <3>5, <3>6, StallOfThree
  <2>4. CASE ~late
    <3>1. D = C
      <4>1. b[1].t \notin Data \/ \A m \in DOMAIN UseRules(2) : ~Meets(b[1], UseRules(2)[m], C.h)
        BY <1>3, <1>10, <2>4
      <4> QED
        BY <2>1, <4>1, DualNone
    <3> HIDE DEF D
    <3> QED
      BY <1>9, <2>2, <2>4, <3>1
  <2> QED
    BY <2>3, <2>4
<1> HIDE DEF D
<1>12. E = D
  BY <1>9, <1>11, DualNone
<1> HIDE DEF E
<1>13. E.cicles = PairCycles(a[1], b[1], a[2], b[2])
  <2>1. PairCycles(a[1], b[1], a[2], b[2]) =
          (IF older(a[1]) THEN 1 ELSE 0)
            + IF WaitsLoad(b[1], a[1]) THEN 2 ELSE IF WaitsSum(b[1], a[1]) THEN 1
              ELSE IF ~older(a[1]) /\ older(b[1]) THEN 1 ELSE 0
    BY DEF PairCycles, older
  <2>2. CASE WaitsLoad(b[1], a[1])
    BY <1>5, <1>8, <1>11, <1>12, <2>1, <2>2
  <2>3. CASE ~WaitsLoad(b[1], a[1]) /\ WaitsSum(b[1], a[1])
    BY <1>5, <1>8, <1>11, <1>12, <2>1, <2>3
  <2>4. CASE ~WaitsLoad(b[1], a[1]) /\ ~WaitsSum(b[1], a[1])
    BY <1>5, <1>8, <1>11, <1>12, <2>1, <2>4
  <2> QED
    BY <2>2, <2>3, <2>4
<1> QED
  BY <1>1, <1>9, <1>11, <1>12, <1>13

-----------------------------------------------------------------------------
\* The newest pair x and y makes an instruction of the next one wait for r: its
\* second loads it, or its first does and the second neither writes nor reads it.
Loaded(x, y, r) ==
  \/ y.t = "LOAD" /\ y.dest = r
  \/ x.t = "LOAD" /\ x.dest = r /\ y.dest # r /\ r \notin y.uses

PairTypes ==
  /\ p \in [0 .. 2 -> Instructions] /\ p2 \in [0 .. 2 -> Instructions]
  /\ p[0].t \notin Control /\ p2[0].t \notin Control
  /\ since \in [Registers -> 0 .. Far]
  /\ writer \in [Registers -> Data \cup Control \cup {"BUBBLE"}]

\* A pair is complete: it will be charged what the schedule has stalled it.
SecondIn ==
  /\ debt = 0
  /\ owed = PairCycles(p[0], p2[0], p[1], p2[1])
  /\ ~Unlike(p[0], p2[0])
  /\ \A r \in Registers : since[r] = 0 /\ writer[r] = "LOAD" <=> Loaded(p[0], p2[0], r)

\* The first of the next pair is in: it waits for the loads of the pair before.
FirstIn ==
  /\ debt = PairCycles(p[1], p2[0], p[2], p2[1])
  /\ owed = IF p[0].t \in Data /\ \E r \in p[0].uses : Loaded(p[1], p2[0], r) THEN 1 ELSE 0
  /\ ~Unlike(p[1], p2[0]) /\ p[1].t \notin Control
  /\ \A r \in Registers :
       /\ since[r] = 0 <=> r \in p[0].writes
       /\ r \in p[0].writes => writer[r] = p[0].t
       /\ r \notin p[0].writes =>
            (since[r] = 1 /\ writer[r] = "LOAD" <=> Loaded(p[1], p2[0], r) /\ owed = 0)

PairInv ==
  /\ build \in Builds
  /\ build = "SUPERESCALAR" /\ plain =>
       /\ PairTypes
       /\ last_inserted \in {1, 2}
       /\ last_inserted = 2 => SecondIn
       /\ last_inserted = 1 => FirstIn

\* Apart from branches and jumps, what an instruction writes without telling is
\* hi and lo, and a load tells of all it writes.
LEMMA PairWrites ==
  ASSUME build \in Builds, NEW j \in Instructions, j.t \notin Control
  PROVE  /\ j.writes # {} => j.t \in {"LOAD", "OUTRAS"}
         /\ j.t = "LOAD" => j.writes = {j.dest} /\ j.dest \in Registers \ HiLo
         /\ j.dest # None => j.writes = {j.dest} /\ j.dest \in Registers \ HiLo
         /\ j.dest = None => j.writes \subseteq HiLo
<1>1. /\ j.t \in Data \cup Control \cup {"BUBBLE"}
      /\ j.dest \in Registers \cup {None} /\ j.writes \subseteq Registers
      /\ j.dest # None => j.dest \in j.writes \ HiLo
      /\ j.writes \ {j.dest} \subseteq IF j.t = "OUTRAS" THEN HiLo ELSE {}
      /\ j.writes \cap HiLo # {} => j.dest = None
      /\ j.t \in {"STORE", "BRANCH", "BUBBLE"} => j.dest = None
      /\ j.t = "LOAD" => j.dest # None
  BY InstructionFacts
<1>2. None \notin Registers
  BY PipelineAssumption
<1>3. j.dest # None => j.writes = {j.dest} /\ j.dest \in Registers \ HiLo
  BY <1>1
<1>4. j.dest = None => j.writes \subseteq HiLo
  BY <1>1, <1>2
<1>5. j.writes # {} => j.t \in {"LOAD", "OUTRAS"}
  <2> SUFFICES ASSUME j.t \notin {"LOAD", "OUTRAS"} PROVE j.writes = {}
    OBVIOUS
  <2>1. j.dest = None
    BY <1>1 DEF Data
  <2> QED
    BY <1>1, <1>2, <2>1
<1> QED
  BY <1>1, <1>3, <1>4, <1>5

\* What the code finds is what the instruction reads, for one that tells it.
LEMMA WaitsMeans ==
  ASSUME build \in Builds, NEW i \in Instructions, NEW j \in Instructions, TellsReads(i),
         j.t \notin Control
  PROVE  /\ WaitsLoad(i, j) <=> i.t \in Data /\ j.t = "LOAD" /\ j.dest \in i.uses
         /\ ~Unlike(j, i) =>
              (WaitsSum(i, j) <=> i.t \in Data /\ i.t # "LOAD" /\ j.t = "OUTRAS" /\ j.writes \cap i.uses # {})
         /\ i.uses # {} /\ i.t \notin Control => i.t \in Data
         /\ ~Unlike(j, i) => ~(i.t = "LOAD" /\ j.t = "OUTRAS" /\ j.writes \cap i.uses # {})
         /\ i.uses \subseteq Registers
<1>1. /\ i.t \in Data \cup Control \cup {"BUBBLE"} /\ i.uses \subseteq Registers
      /\ Sources(i) \cap HiLo = {}
      /\ i.uses \ Sources(i) \subseteq IF i.t = "OUTRAS" THEN HiLo
                                       ELSE IF i.t = "LOAD" THEN {i.dest} ELSE {}
      /\ i.uses \cap HiLo # {} => i.rs = None /\ i.rt = None
  BY InstructionFacts
<1>2. /\ j.t = "LOAD" => j.writes = {j.dest} /\ j.dest \in Registers \ HiLo
      /\ j.dest # None => j.writes = {j.dest} /\ j.dest \in Registers \ HiLo
      /\ j.dest = None => j.writes \subseteq HiLo
  BY PairWrites
<1>3. None \notin Registers
  BY PipelineAssumption
<1>4. \A r \in Registers \ HiLo : r \in Sources(i) <=> r \in i.uses
  BY <1>1 DEF TellsReads
<1>5. ASSUME i.t \in Data, j.dest \in Registers \ HiLo
      PROVE  Clash(TwoRegisters(i), i, j) <=> j.dest \in i.uses
  <2>1. j.dest # None
    BY <1>3, <1>5
  <2>2. Clash(TwoRegisters(i), i, j) <=> j.dest \in Sources(i)
    BY <1>5, <2>1 DEF Clash, TwoRegisters, Sources, Data
  <2> QED
    BY <1>4, <1>5, <2>2
<1>6. WaitsLoad(i, j) <=> i.t \in Data /\ j.t = "LOAD" /\ j.dest \in i.uses
  BY <1>2, <1>5 DEF WaitsLoad
<1>7. ASSUME ~Unlike(j, i)
      PROVE  WaitsSum(i, j) <=> i.t \in Data /\ i.t # "LOAD" /\ j.t = "OUTRAS" /\ j.writes \cap i.uses # {}
  <2>1. CASE j.dest # None
    <3>1. j.writes \cap i.uses # {} <=> j.dest \in i.uses
      BY <1>2, <2>1
    <3> QED
      BY <1>2, <1>5, <2>1, <3>1 DEF WaitsSum
  <2>2. CASE j.dest = None
    <3>1. ASSUME WaitsSum(i, j) PROVE j.writes \cap i.uses # {}
      <4>1. i.t \in {"OUTRAS", "STORE"} /\ j.t = "OUTRAS"
        BY <3>1 DEF WaitsSum, Data
      <4>2. None \in {i.rs, i.rt}
        BY <2>2, <3>1 DEF WaitsSum, Clash
      <4> QED
        BY <1>7, <2>2, <4>1, <4>2 DEF Unlike
    <3>2. ASSUME i.t \in Data, i.t # "LOAD", j.t = "OUTRAS", j.writes \cap i.uses # {}
          PROVE  WaitsSum(i, j)
      <4>1. i.rs = None
        BY <1>1, <1>2, <2>2, <3>2
      <4> QED
        BY <2>2, <3>2, <4>1 DEF WaitsSum, Clash
    <3> QED
      BY <3>1, <3>2 DEF WaitsSum
  <2> QED
    BY <2>1, <2>2
<1>8. i.uses # {} /\ i.t \notin Control => i.t \in Data
  BY <1>1 DEF Sources, Data, Control
<1>9. ASSUME ~Unlike(j, i), i.t = "LOAD", j.t = "OUTRAS", j.writes \cap i.uses # {}
      PROVE  FALSE
  <2>1. i.uses \subseteq Sources(i) /\ Sources(i) \subseteq {i.rs}
    BY <1>9 DEF TellsReads, Sources
  <2>2. PICK r \in j.writes : r \in Sources(i) /\ r \notin HiLo /\ r = i.rs
    BY <1>1, <1>9, <2>1
  <2>3. j.dest = i.rs
    BY <1>2, <2>2
  <2> QED
    BY <1>9, <2>3 DEF Unlike
<1> QED
  BY <1>1, <1>6, <1>7, <1>8, <1>9

\* What the schedule charges one instruction of a pair.
LEMMA DualStalls ==
  ASSUME build = "SUPERESCALAR", since \in [Registers -> 0 .. Far], NEW i,
         i.uses \subseteq Registers, NEW c \in 0 .. 2
  PROVE  /\ Stalls(i, c) \in 0 .. 5
         /\ \A r \in i.uses : Needed(writer[r], i.t) - since[r] - c <= Stalls(i, c)
         /\ \/ Stalls(i, c) = 0
            \/ \E r \in i.uses : Stalls(i, c) = Needed(writer[r], i.t) - since[r] - c
<1> DEFINE g(r) == Needed(writer[r], i.t) - since[r] - c
           S == {0} \cup {g(r) : r \in i.uses}
<1>1. \A r \in i.uses : Needed(writer[r], i.t) \in 0 .. 5 /\ since[r] \in 0 .. 5
  BY DEF Needed, Far
<1>2. \A r \in i.uses : g(r) \in Int /\ g(r) <= 5
  BY <1>1
<1>3. Stalls(i, c) = Max(S)
  BY DEF Stalls
<1> HIDE DEF g
<1>4. S \in SUBSET Int /\ 0 \in S /\ \A x \in S : x <= 5
  BY <1>2
<1>5. Max(S) \in 0 .. 5 /\ Max(S) \in S /\ \A x \in S : x <= Max(S)
  <2> HIDE DEF S
  <2> QED
    BY <1>4, GreatestOf
<1>6. (\A r \in i.uses : g(r) \in S) /\ \A x \in S : x = 0 \/ \E r \in i.uses : x = g(r)
  OBVIOUS
<1> HIDE DEF S
<1> QED
  BY <1>3, <1>5, <1>6 DEF g

\* The lesser of two numbers.
LEMMA LeastOfTwo ==
  ASSUME NEW x \in Int, NEW y \in Int
  PROVE  Min({x, y}) = IF x <= y THEN x ELSE y
<1> DEFINE m == IF x <= y THEN x ELSE y
           T == {x, y}
<1>1. m \in T /\ \A z \in T : m <= z
  OBVIOUS
<1>2. Min(T) \in T /\ \A z \in T : Min(T) <= z
  BY <1>1 DEF Min
<1>3. \A z \in T : (\A w \in T : z <= w) => z = m
  OBVIOUS
<1> QED
  BY <1>2, <1>3

\* The age of a register after an instruction that waits.
LEMMA Ages ==
  ASSUME NEW i, NEW before \in Nat, NEW wait \in Nat, NEW with,
         since \in [Registers -> 0 .. Far], Executed(i, before, wait, 0, with)
  PROVE  /\ since' \in [Registers -> 0 .. Far]
         /\ \A r \in Registers :
              /\ r \in i.writes => since'[r] = 0 /\ writer'[r] = i.t
              /\ r \notin i.writes =>
                   /\ writer'[r] = writer[r]
                   /\ r \in with => since'[r] = 5 \/ since'[r] = since[r] + before
                   /\ r \notin with => since'[r] = 5 \/ since'[r] = since[r] + before + wait
                   /\ r \in with /\ since[r] + before <= 5 => since'[r] = since[r] + before
                   /\ r \notin with /\ since[r] + before + wait <= 5 =>
                        since'[r] = since[r] + before + wait
<1> DEFINE age(r) == since[r] + before + 0 + IF r \in with THEN 0 ELSE wait
<1>1. \A r \in Registers : since[r] \in 0 .. 5 /\ age(r) \in Nat
  BY DEF Far
<1>2. since' = [r \in Registers |-> IF r \in i.writes THEN 0 ELSE Min({5, age(r)})]
  BY DEF Executed, Far
<1>3. writer' = [r \in Registers |-> IF r \in i.writes THEN i.t ELSE writer[r]]
  BY DEF Executed
<1>4. \A r \in Registers :
        /\ r \in with => age(r) = since[r] + before
        /\ r \notin with => age(r) = since[r] + before + wait
  BY <1>1
<1> HIDE DEF age
<1>5. \A r \in Registers : Min({5, age(r)}) = IF 5 <= age(r) THEN 5 ELSE age(r)
  BY <1>1, LeastOfTwo
<1>6. \A r \in Registers : /\ r \in i.writes => since'[r] = 0 /\ writer'[r] = i.t
                           /\ r \notin i.writes =>
                                /\ writer'[r] = writer[r]
                                /\ since'[r] = IF 5 <= age(r) THEN 5 ELSE age(r)
  BY <1>2, <1>3, <1>5
<1>7. since' \in [Registers -> 0 .. 5]
  <2>1. \A r \in Registers : (IF r \in i.writes THEN 0 ELSE Min({5, age(r)})) \in 0 .. 5
    BY <1>1, <1>5
  <2> QED
    BY <1>2, <2>1
<1> QED
  BY <1>1, <1>4, <1>6, <1>7 DEF Far

\* The code looks for a load in the pair before, when that has been charged and
\* taken apart; what it finds is what is still to be waited for.
LEMMA OlderMeans ==
  ASSUME build \in Builds, NEW f \in Instructions, NEW s \in Instructions, NEW k \in Instructions,
         TellsReads(f), TellsReads(s), TellsReads(k),
         f.t \notin Control, s.t \notin Control, k.t \in Data, ~Unlike(f, s),
         NEW x, x = IF WaitsLoad(s, f) \/ WaitsSum(s, f) THEN Bubble ELSE f
  PROVE  WaitsLoad(k, x) \/ WaitsLoad(k, s) <=> \E r \in k.uses : Loaded(f, s, r)
<1>1. WaitsLoad(k, s) <=> s.t = "LOAD" /\ s.dest \in k.uses
  BY WaitsMeans
<1>2. x \in Instructions /\ Bubble.t # "LOAD" /\ x.t \notin Control
  BY DEF Instructions, Bubble, Control
<1>3. WaitsLoad(k, x) <=> x.t = "LOAD" /\ x.dest \in k.uses
  BY <1>2, WaitsMeans
<1>4. WaitsLoad(s, f) <=> s.t \in Data /\ f.t = "LOAD" /\ f.dest \in s.uses
  BY WaitsMeans
<1>5. ASSUME WaitsLoad(k, x) PROVE \E r \in k.uses : Loaded(f, s, r)
  <2>1. x.t = "LOAD" /\ x.dest \in k.uses /\ x = f /\ ~WaitsLoad(s, f)
    BY <1>2, <1>3, <1>5
  <2>2. f.dest \notin s.uses
    <3>1. s.uses # {} => s.t \in Data
      BY WaitsMeans
    <3> QED
      BY <1>4, <2>1, <3>1
  <2>3. s.dest # f.dest
    BY <2>1, <2>2 DEF Unlike
  <2> QED
    BY <2>1, <2>2, <2>3 DEF Loaded
<1>6. ASSUME WaitsLoad(k, s) PROVE \E r \in k.uses : Loaded(f, s, r)
  BY <1>1, <1>6 DEF Loaded
<1>7. ASSUME NEW r \in k.uses, Loaded(f, s, r) PROVE WaitsLoad(k, x) \/ WaitsLoad(k, s)
  <2>1. CASE s.t = "LOAD" /\ s.dest = r
    BY <1>1, <2>1
  <2>2. CASE f.t = "LOAD" /\ f.dest = r /\ r \notin s.uses
    <3>1. ~WaitsLoad(s, f) /\ ~WaitsSum(s, f)
      BY <1>4, <2>2 DEF WaitsSum
    <3> QED
      BY <1>3, <2>2, <3>1
  <2> QED
    BY <1>7, <2>1, <2>2 DEF Loaded
<1> QED
  BY <1>5, <1>6, <1>7

\* The first instruction of a pair.
LEMMA FirstStep ==
  ASSUME PairInv, build = "SUPERESCALAR", Honest("SUPERESCALAR"),
         NEW i \in Program[build], InsertFirst(i), plain'
  PROVE  PairTypes' /\ last_inserted' = 1 /\ FirstIn'
<1>1. plain /\ i.t \notin Control
  BY Zenon DEF InsertFirst
<1>2. PairTypes /\ SecondIn
  BY <1>1 DEF PairInv, InsertFirst
<1>3. build' = build /\ build \in Builds /\ Instructions' = Instructions /\ i \in Instructions /\ Bubble \in Instructions
  BY DEF InsertFirst, PairInv, Instructions
<1>4. p' = Push(p, i) /\ p2' = p2 /\ last_inserted' = 1
  BY DEF InsertFirst
<1>5. p' \in [0 .. 2 -> Instructions] /\ p'[0] = i /\ p'[1] = p[0] /\ p'[2] = p[1]
  <2>1. p \in [0 .. 2 -> Instructions]
    BY <1>2 DEF PairTypes
  <2> QED
    BY <1>3, <1>4, <2>1 DEF Push
<1>6. /\ i.uses \subseteq Registers /\ i.t \in Data \cup Control \cup {"BUBBLE"}
      /\ i.uses # {} => i.t \in Data
  <2>1. TellsReads(i)
    BY DEF Honest
  <2>2. Bubble.t \notin Control
    BY DEF Bubble, Control
  <2> QED
    BY <1>1, <1>3, <2>1, <2>2, WaitsMeans, InstructionFacts
<1> DEFINE S == Stalls(i, 1)
<1>7. /\ S \in 0 .. 5
      /\ \A r \in i.uses : Needed(writer[r], i.t) - since[r] - 1 <= S
      /\ S = 0 \/ \E r \in i.uses : S = Needed(writer[r], i.t) - since[r] - 1
  <2>1. since \in [Registers -> 0 .. Far] /\ 1 \in 0 .. 2
    BY <1>2 DEF PairTypes
  <2> QED
    BY <1>6, <2>1, DualStalls
<1>8. Executed(i, 1, S, 0, {})
  BY DEF InsertFirst
<1>9. debt' = debt + owed /\ owed' = S
  BY Zenon DEF InsertFirst
<1> HIDE DEF S
<1>10. \A r \in Registers : since[r] \in 0 .. 5 /\ writer[r] \in Data \cup Control \cup {"BUBBLE"}
  BY <1>2 DEF PairTypes, Far
<1>11. /\ since' \in [Registers -> 0 .. Far]
       /\ \A r \in Registers :
            /\ r \in i.writes => since'[r] = 0 /\ writer'[r] = i.t
            /\ r \notin i.writes =>
                 /\ writer'[r] = writer[r]
                 /\ since'[r] = 5 \/ since'[r] = since[r] + 1 + S
                 /\ since[r] + 1 + S <= 5 => since'[r] = since[r] + 1 + S
  <2>1. since \in [Registers -> 0 .. Far] /\ 1 \in Nat /\ S \in Nat
    BY <1>2, <1>7 DEF PairTypes
  <2> QED
    BY <1>8, <1>10, <2>1, Ages
<1>12. writer' \in [Registers -> Data \cup Control \cup {"BUBBLE"}]
  BY <1>2, <1>6, <1>8 DEF PairTypes, Executed
<1>13. S = IF i.t \in Data /\ \E r \in i.uses : Loaded(p[0], p2[0], r) THEN 1 ELSE 0
  <2>1. \A r \in Registers : since[r] = 0 /\ writer[r] = "LOAD" <=> Loaded(p[0], p2[0], r)
    BY <1>2 DEF SecondIn
  <2>2. CASE i.t \in Data /\ \E r \in i.uses : Loaded(p[0], p2[0], r)
    <3>1. PICK r \in i.uses : Loaded(p[0], p2[0], r)
      BY <2>2
    <3>2. since[r] = 0 /\ writer[r] = "LOAD"
      BY <1>6, <2>1, <3>1
    <3>3. Needed(writer[r], i.t) = 2
      BY <2>2, <3>2 DEF Needed
    <3>4. S >= 1
      BY <1>7, <3>2, <3>3
    <3>5. \A w \in i.uses : Needed(writer[w], i.t) \in 0 .. 2 /\ since[w] \in 0 .. 5
      BY <2>2, <1>6, <1>10 DEF Needed
    <3>6. S <= 1
      <4>1. CASE S = 0
        BY <4>1
      <4>2. CASE S # 0
        <5>1. PICK w \in i.uses : S = Needed(writer[w], i.t) - since[w] - 1
          BY <1>7, <4>2
        <5> QED
          BY <3>5, <5>1
      <4> QED
        BY <4>1, <4>2
    <3> QED
      BY <1>7, <2>2, <3>4, <3>6
  <2>3. CASE ~(i.t \in Data /\ \E r \in i.uses : Loaded(p[0], p2[0], r))
    <3>1. S = 0
      <4> SUFFICES ASSUME S # 0 PROVE FALSE
        OBVIOUS
      <4>1. PICK r \in i.uses : S = Needed(writer[r], i.t) - since[r] - 1
        BY <1>7
      <4>2. i.t \in Data
        BY <1>6, <4>1
      <4>3. since[r] \in 0 .. 5 /\ r \in Registers
        BY <1>6, <1>10, <4>1
      <4>4. Needed(writer[r], i.t) = IF writer[r] = "LOAD" THEN 2 ELSE IF writer[r] = "OUTRAS" THEN 1 ELSE 0
        BY <4>2 DEF Needed
      <4>5. since[r] = 0 /\ writer[r] = "LOAD"
        BY <1>7, <4>1, <4>3, <4>4
      <4> QED
        BY <2>1, <2>3, <4>2, <4>3, <4>5
    <3> QED
      BY <2>3, <3>1
  <2> QED
    BY <2>2, <2>3
<1>14. FirstIn'
  <2>1. debt' = PairCycles(p'[1], p2'[0], p'[2], p2'[1])
    <3>1. PairCycles(p[0], p2[0], p[1], p2[1]) \in Int
      BY DEF PairCycles
    <3>2. debt = 0 /\ owed = PairCycles(p[0], p2[0], p[1], p2[1])
      BY <1>2 DEF SecondIn
    <3>3. debt' = PairCycles(p[0], p2[0], p[1], p2[1])
      BY <1>9, <3>1, <3>2
    <3> QED
      BY <1>4, <1>5, <3>3
  <2>2. owed' = IF p'[0].t \in Data /\ \E r \in p'[0].uses : Loaded(p'[1], p2'[0], r) THEN 1 ELSE 0
    BY <1>4, <1>5, <1>9, <1>13
  <2>3. ~Unlike(p'[1], p2'[0]) /\ p'[1].t \notin Control
    BY <1>2, <1>4, <1>5 DEF SecondIn, PairTypes
  <2>4. ASSUME NEW r \in Registers
        PROVE  /\ since'[r] = 0 <=> r \in p'[0].writes
               /\ r \in p'[0].writes => writer'[r] = p'[0].t
               /\ r \notin p'[0].writes =>
                    (since'[r] = 1 /\ writer'[r] = "LOAD" <=> Loaded(p'[1], p2'[0], r) /\ owed' = 0)
    <3>1. since[r] \in 0 .. 5
      BY <1>10
    <3>2. r \in i.writes => since'[r] = 0 /\ writer'[r] = i.t
      BY <1>11
    <3>3. r \notin i.writes => writer'[r] = writer[r] /\ since'[r] # 0 /\ (since'[r] = 1 <=> since[r] = 0 /\ S = 0)
      BY <1>7, <1>11, <3>1
    <3>4. since[r] = 0 /\ writer[r] = "LOAD" <=> Loaded(p[0], p2[0], r)
      BY <1>2 DEF SecondIn
    <3>5. Loaded(p'[1], p2'[0], r) <=> Loaded(p[0], p2[0], r)
      BY <1>4, <1>5
    <3> QED
      BY <1>5, <1>9, <3>2, <3>3, <3>4, <3>5
  <2> HIDE DEF S
  <2>5. FirstIn' <=>
          /\ debt' = PairCycles(p'[1], p2'[0], p'[2], p2'[1])
          /\ owed' = IF p'[0].t \in Data /\ \E r \in p'[0].uses : Loaded(p'[1], p2'[0], r) THEN 1 ELSE 0
          /\ ~Unlike(p'[1], p2'[0]) /\ p'[1].t \notin Control
          /\ \A r \in Registers :
               /\ since'[r] = 0 <=> r \in p'[0].writes
               /\ r \in p'[0].writes => writer'[r] = p'[0].t
               /\ r \notin p'[0].writes =>
                    (since'[r] = 1 /\ writer'[r] = "LOAD" <=> Loaded(p'[1], p2'[0], r) /\ owed' = 0)
    BY DEF FirstIn
  <2> QED
    BY <2>1, <2>2, <2>3, <2>4, <2>5
<1>15. PairTypes'
  BY <1>1, <1>2, <1>3, <1>4, <1>5, <1>11, <1>12 DEF PairTypes
<1> QED
  BY <1>4, <1>14, <1>15

\* Beside each other, the second of a pair waits for its first, or else for the
\* loads of the pair before, unless the first has waited for them already.
LEMMA SecondStalls ==
  ASSUME PairTypes, FirstIn, build = "SUPERESCALAR", build \in Builds, NEW i \in Instructions,
         TellsReads(i), i.t \notin Control, ~Unlike(p[0], i)
  PROVE  Stalls(i, 0) = IF WaitsLoad(i, p[0]) THEN 2
                        ELSE IF WaitsSum(i, p[0]) THEN 1
                        ELSE IF owed = 0 /\ i.t \in Data /\ \E r \in i.uses : Loaded(p[1], p2[0], r) THEN 1
                        ELSE 0
<1> DEFINE S == Stalls(i, 0)
           f == p[0]
<1>1. f \in Instructions /\ f.t \notin Control
  BY DEF PairTypes
<1>2. /\ i.uses \subseteq Registers
      /\ i.uses # {} => i.t \in Data
      /\ ~(i.t = "LOAD" /\ f.t = "OUTRAS" /\ f.writes \cap i.uses # {})
      /\ WaitsLoad(i, f) <=> i.t \in Data /\ f.t = "LOAD" /\ f.dest \in i.uses
      /\ WaitsSum(i, f) <=> i.t \in Data /\ i.t # "LOAD" /\ f.t = "OUTRAS" /\ f.writes \cap i.uses # {}
  BY <1>1, WaitsMeans
<1>3. /\ f.writes # {} => f.t \in {"LOAD", "OUTRAS"}
      /\ f.t = "LOAD" => f.writes = {f.dest}
  BY <1>1, PairWrites
<1>4. \A r \in i.uses :
        /\ since[r] \in 0 .. 5
        /\ since[r] = 0 <=> r \in f.writes
        /\ r \in f.writes => writer[r] = f.t
        /\ r \notin f.writes => (since[r] = 1 /\ writer[r] = "LOAD" <=> Loaded(p[1], p2[0], r) /\ owed = 0)
  BY <1>2 DEF FirstIn, PairTypes, Far
<1>5. i.t \in Data => \A w : Needed(w, i.t) = IF w = "LOAD" THEN 2 ELSE IF w = "OUTRAS" THEN 1 ELSE 0
  BY DEF Needed
<1>6. /\ S \in 0 .. 5
      /\ \A r \in i.uses : Needed(writer[r], i.t) - since[r] - 0 <= S
      /\ S = 0 \/ \E r \in i.uses : S = Needed(writer[r], i.t) - since[r] - 0
  <2>1. since \in [Registers -> 0 .. Far] /\ 0 \in 0 .. 2
    BY DEF PairTypes
  <2> QED
    BY <1>2, <2>1, DualStalls
<1> HIDE DEF S, f
<1>7. CASE f.writes \cap i.uses # {}
  <2>0. PICK w \in i.uses : w \in f.writes
    BY <1>7
  <2>1. i.t \in Data /\ f.t \in {"LOAD", "OUTRAS"} /\ since[w] = 0 /\ writer[w] = f.t
    BY <1>2, <1>3, <1>4, <2>0
  <2> DEFINE N == IF f.t = "LOAD" THEN 2 ELSE 1
  <2>2. Needed(writer[w], i.t) = N
    BY <1>5, <2>1
  <2>3. S >= N
    BY <1>6, <2>0, <2>1, <2>2
  <2>4. S <= N
    <3>1. CASE S = 0
      BY <3>1
    <3>2. CASE S # 0
      <4>1. PICK r \in i.uses : S = Needed(writer[r], i.t) - since[r] - 0
        BY <1>6, <3>2
      <4>2. CASE r \in f.writes
        BY <1>4, <1>5, <2>1, <4>1, <4>2
      <4>3. CASE r \notin f.writes
        BY <1>4, <1>5, <2>1, <4>1, <4>3
      <4> QED
        BY <4>2, <4>3
    <3> QED
      BY <3>1, <3>2
  <2>5. S = N
    BY <1>6, <2>3, <2>4
  <2> QED
    <3>1. f.t = "LOAD" => f.dest \in i.uses
      BY <1>3, <2>0
    <3> QED
      BY <1>2, <1>7, <2>1, <2>5, <3>1 DEF S, f
<1>8. CASE f.writes \cap i.uses = {}
  <2>0. ~WaitsLoad(i, f) /\ ~WaitsSum(i, f)
    BY <1>2, <1>3, <1>8
  <2> DEFINE any == owed = 0 /\ i.t \in Data /\ \E r \in i.uses : Loaded(p[1], p2[0], r)
  <2>1. CASE any
    <3>1. PICK r \in i.uses : Loaded(p[1], p2[0], r)
      BY <2>1
    <3>2. since[r] = 1 /\ writer[r] = "LOAD"
      BY <1>4, <1>8, <2>1, <3>1
    <3>3. S >= 1
      BY <1>5, <1>6, <2>1, <3>2
    <3>4. S <= 1
      <4>1. CASE S = 0
        BY <4>1
      <4>2. CASE S # 0
        <5>1. PICK w \in i.uses : S = Needed(writer[w], i.t) - since[w] - 0
          BY <1>6, <4>2
        <5> QED
          BY <1>4, <1>5, <1>8, <2>1, <5>1
      <4> QED
        BY <4>1, <4>2
    <3>5. S = 1
      BY <1>6, <3>3, <3>4
    <3> QED
      BY <2>0, <2>1, <3>5 DEF S, f
  <2>2. CASE ~any
    <3>1. S = 0
      <4> SUFFICES ASSUME S # 0 PROVE FALSE
        OBVIOUS
      <4>1. PICK r \in i.uses : S = Needed(writer[r], i.t) - since[r] - 0
        BY <1>6
      <4>2. i.t \in Data /\ r \notin f.writes /\ since[r] \in 1 .. 5
        BY <1>2, <1>4, <1>8, <4>1
      <4>3. since[r] = 1 /\ writer[r] = "LOAD"
        BY <1>5, <1>6, <4>1, <4>2
      <4>4. Loaded(p[1], p2[0], r) /\ owed = 0
        BY <1>4, <4>1, <4>2, <4>3
      <4> QED
        BY <2>2, <4>1, <4>2, <4>4
    <3> QED
      BY <2>0, <2>2, <3>1 DEF S, f
  <2> QED
    BY <2>1, <2>2
<1> QED
  BY <1>7, <1>8

\* The registers of a pair, once its second has been executed.
LEMMA SecondAges ==
  ASSUME PairTypes, FirstIn, build = "SUPERESCALAR", build \in Builds, NEW i \in Instructions,
         TellsReads(i), i.t \notin Control, ~Unlike(p[0], i),
         Executed(i, 0, Stalls(i, 0), 0, IF WaitsFor(i, p[0]) THEN {} ELSE p[0].writes)
  PROVE  /\ since' \in [Registers -> 0 .. Far]
         /\ writer' \in [Registers -> Data \cup Control \cup {"BUBBLE"}]
         /\ \A r \in Registers : since'[r] = 0 /\ writer'[r] = "LOAD" <=> Loaded(p[0], i, r)
<1> DEFINE S == Stalls(i, 0)
           f == p[0]
           with == IF WaitsFor(i, f) THEN {} ELSE f.writes
<1>1. f \in Instructions /\ since \in [Registers -> 0 .. Far] /\ since \in [Registers -> 0 .. 5]
  BY DEF PairTypes, Far
<1>2. /\ i.uses \subseteq Registers
      /\ i.uses # {} => i.t \in Data
      /\ WaitsLoad(i, f) <=> i.t \in Data /\ f.t = "LOAD" /\ f.dest \in i.uses
  BY <1>1, WaitsMeans DEF PairTypes
<1>3. S \in 0 .. 5 /\ (WaitsLoad(i, f) => S = 2)
  <2>1. 0 \in 0 .. 2
    OBVIOUS
  <2>2. S \in 0 .. 5
    BY <1>1, <1>2, <2>1, DualStalls
  <2> QED
    BY <2>2, SecondStalls
<1>4. Executed(i, 0, S, 0, with)
  OBVIOUS
<1> HIDE DEF S, with
<1>5. /\ since' \in [Registers -> 0 .. Far]
      /\ \A r \in Registers :
           /\ r \in i.writes => since'[r] = 0 /\ writer'[r] = i.t
           /\ r \notin i.writes =>
                /\ writer'[r] = writer[r]
                /\ r \in with => since'[r] = 5 \/ since'[r] = since[r] + 0
                /\ r \notin with => since'[r] = 5 \/ since'[r] = since[r] + 0 + S
                /\ r \in with /\ since[r] + 0 <= 5 => since'[r] = since[r] + 0
  <2>1. 0 \in Nat /\ S \in Nat
    BY <1>3
  <2> QED
    BY <1>1, <1>4, <2>1, Ages
<1>6. writer' \in [Registers -> Data \cup Control \cup {"BUBBLE"}]
  <2>1. i.t \in Data \cup Control \cup {"BUBBLE"}
    BY InstructionFacts
  <2> QED
    BY <1>4, <2>1 DEF PairTypes, Executed
<1>7. /\ i.writes # {} => i.t \in {"LOAD", "OUTRAS"}
      /\ i.t = "LOAD" => i.writes = {i.dest}
      /\ i.dest # None => i.writes = {i.dest}
      /\ i.dest = None => i.writes \subseteq HiLo
      /\ f.t = "LOAD" => f.writes = {f.dest} /\ f.dest \notin HiLo
  BY <1>1, PairWrites DEF PairTypes
<1>8. ASSUME NEW r \in Registers
      PROVE  since'[r] = 0 /\ writer'[r] = "LOAD" <=> Loaded(f, i, r)
  <2>1. since[r] \in 0 .. 5 /\ r # None
    BY <1>1, PipelineAssumption
  <2>2. /\ since[r] = 0 <=> r \in f.writes
        /\ r \in f.writes => writer[r] = f.t
    BY DEF FirstIn
  <2>3. CASE r \in i.writes
    <3>1. since'[r] = 0 /\ writer'[r] = i.t
      BY <1>5, <2>3
    <3>2. f.t = "LOAD" /\ f.dest = r => i.dest = r
      BY <1>7, <2>3
    <3>3. i.t = "LOAD" => i.dest = r
      BY <1>7, <2>3
    <3> QED
      BY <3>1, <3>2, <3>3 DEF Loaded
  <2>4. CASE r \notin i.writes
    <3>0. i.dest # r
      BY <1>7, <2>1, <2>4
    <3>1. Loaded(f, i, r) <=> f.t = "LOAD" /\ f.dest = r /\ r \notin i.uses
      BY <3>0 DEF Loaded
    <3>2. writer'[r] = writer[r]
      BY <1>5, <2>4
    <3>3. CASE r \notin f.writes
      <4>1. since'[r] # 0
        BY <1>3, <1>5, <2>1, <2>2, <2>4, <3>3
      <4>2. ~(f.t = "LOAD" /\ f.dest = r)
        BY <1>7, <3>3
      <4> QED
        BY <3>1, <4>1, <4>2
    <3>4. CASE r \in f.writes /\ f.t # "LOAD"
      BY <2>2, <3>1, <3>2, <3>4
    <3>5. CASE r \in f.writes /\ f.t = "LOAD" /\ r \in i.uses
      <4>1. r = f.dest /\ f.dest \in i.uses /\ i.t \in Data
        BY <1>2, <1>7, <3>5
      <4>2. WaitsLoad(i, f) /\ WaitsFor(i, f)
        BY <1>2, <3>5, <4>1 DEF WaitsFor, Needed
      <4>3. S = 2 /\ r \notin with
        BY <1>3, <4>2 DEF with
      <4>4. since'[r] # 0
        BY <1>5, <2>1, <2>4, <4>3
      <4> QED
        BY <3>1, <3>5, <4>4
    <3>6. CASE r \in f.writes /\ f.t = "LOAD" /\ r \notin i.uses
      <4>1. r = f.dest /\ f.writes \cap i.uses = {}
        BY <1>7, <3>6
      <4>2. r \in with
        BY <3>6, <4>1 DEF with, WaitsFor
      <4>3. since'[r] = 0
        BY <1>5, <2>1, <2>2, <2>4, <3>6, <4>2
      <4> QED
        BY <2>2, <3>1, <3>2, <3>6, <4>1, <4>3
    <3> QED
      BY <3>3, <3>4, <3>5, <3>6
  <2> QED
    BY <2>3, <2>4
<1> QED
  BY <1>5, <1>6, <1>8

\* The second instruction of a pair.
LEMMA SecondStep ==
  ASSUME PairInv, build = "SUPERESCALAR", Honest("SUPERESCALAR"),
         NEW i \in Program[build], NEW missed \in BOOLEAN, InsertSecond(i, missed), plain'
  PROVE  PairTypes' /\ last_inserted' = 2 /\ SecondIn'
<1> DEFINE now == update_superescalar(<<p, Push(p2, i)>>)
           S == Stalls(i, 0)
           f == p[0]
           with == IF WaitsFor(i, f) THEN {} ELSE f.writes
<1>1. plain /\ i.t \notin Control /\ ~Unlike(p[0], i)
  BY Zenon DEF InsertSecond
<1>2. PairTypes /\ FirstIn /\ build \in Builds
  BY <1>1 DEF PairInv, InsertSecond
<1>3. /\ p \in [0 .. 2 -> Instructions] /\ p2 \in [0 .. 2 -> Instructions]
      /\ f \in Instructions /\ f.t \notin Control
      /\ p[1] \in Instructions /\ p2[0] \in Instructions /\ p2[0].t \notin Control
  BY <1>2 DEF PairTypes
<1>4. build' = build /\ Instructions' = Instructions /\ i \in Instructions /\ Bubble \in Instructions
  BY DEF InsertSecond, Instructions
<1>5. /\ p' = now.h[1] /\ p2' = now.h[2] /\ last_inserted' = 2
      /\ debt' = debt - now.cicles /\ owed' = owed + S
      /\ Executed(i, 0, S, 0, with)
  <2> DEFINE wrong(j) == j.t = "JUMP" \/ (missed /\ j.t = "BRANCH")
             c == IF wrong(f) THEN 1 ELSE IF wrong(i) THEN 2 ELSE 0
             before == IF c = 1 THEN 2 ELSE 0
             lost == IF c = 2 THEN 1 ELSE before
  <2>1. ~wrong(f) /\ ~wrong(i)
    BY <1>1, <1>3 DEF Control
  <2>2. c = 0 /\ before = 0 /\ lost = 0 /\ lost - before = 0
    BY <2>1
  <2> HIDE DEF now
  <2>3. /\ p' = After(now.h, c)[1] /\ p2' = After(now.h, c)[2] /\ last_inserted' = 2
        /\ Executed(i, before, Stalls(i, before), lost - before, with)
    BY Zenon DEF InsertSecond, now
  <2>4. debt' = debt - now.cicles /\ owed' = owed + S
    BY Zenon DEF InsertSecond, now
  <2> HIDE DEF c, before, lost
  <2>5. After(now.h, c) = now.h
    BY <2>2 DEF After
  <2> QED
    BY <2>2, <2>3, <2>4, <2>5
<1>6. \A j \in Instructions : TellsReads(j)
  <2>1. TellsReads(Bubble)
    BY DEF Bubble, Sources, TellsReads
  <2> QED
    BY <2>1 DEF Honest, Instructions
<1>7. Push(p2, i) \in [0 .. 2 -> Instructions] /\ Push(p2, i)[0] = i /\ Push(p2, i)[1] = p2[0] /\ Push(p2, i)[2] = p2[1]
  BY <1>3, <1>4 DEF Push
<1>8. /\ now.cicles = PairCycles(p[1], p2[0], p[2], p2[1])
      /\ now.h[1] \in [0 .. 2 -> Instructions] /\ now.h[2] \in [0 .. 2 -> Instructions]
      /\ now.h[1][0] = f /\ now.h[2][0] = i /\ now.h[2][1] = p2[0]
      /\ now.h[1][1] = IF WaitsLoad(p2[0], p[1]) \/ WaitsSum(p2[0], p[1]) THEN Bubble ELSE p[1]
  <2> DEFINE b == Push(p2, i)
  <2>1. b \in [0 .. 2 -> Instructions] /\ b[0] = i /\ b[1] = p2[0] /\ b[2] = p2[1]
    BY <1>7
  <2>2. b[0].t \notin Control
    BY <1>1, <2>1
  <2>3. now = update_superescalar(<<p, b>>)
    OBVIOUS
  <2> HIDE DEF b, now
  <2> DEFINE u == update_superescalar(<<p, b>>)
  <2>4. /\ u.cicles = PairCycles(p[1], b[1], p[2], b[2])
        /\ u.h[1] \in [0 .. 2 -> Instructions] /\ u.h[2] \in [0 .. 2 -> Instructions]
        /\ u.h[1][0] = p[0] /\ u.h[2][0] = b[0] /\ u.h[2][1] = b[1]
        /\ u.h[1][1] = IF WaitsLoad(b[1], p[1]) \/ WaitsSum(b[1], p[1]) THEN Bubble ELSE p[1]
    BY <1>3, <1>4, <2>1, <2>2, PairUpdate
  <2> HIDE DEF u
  <2> QED
    BY <2>1, <2>3, <2>4 DEF u
<1> HIDE DEF now, S, with
<1>9. /\ since' \in [Registers -> 0 .. Far]
      /\ writer' \in [Registers -> Data \cup Control \cup {"BUBBLE"}]
      /\ \A r \in Registers : since'[r] = 0 /\ writer'[r] = "LOAD" <=> Loaded(f, i, r)
  BY <1>1, <1>2, <1>4, <1>5, <1>6, SecondAges DEF S, with
<1>10. PairTypes'
  <2>1. PairTypes' <=> /\ p' \in [0 .. 2 -> Instructions'] /\ p2' \in [0 .. 2 -> Instructions']
                       /\ p'[0].t \notin Control /\ p2'[0].t \notin Control
                       /\ since' \in [Registers -> 0 .. Far]
                       /\ writer' \in [Registers -> Data \cup Control \cup {"BUBBLE"}]
    BY DEF PairTypes, Far
  <2> QED
    BY <1>1, <1>3, <1>4, <1>5, <1>8, <1>9, <2>1
<1> DEFINE x == now.h[1][1]
           s == p2[0]
           waits(k) == k.t \in Data /\ \E r \in k.uses : Loaded(p[1], s, r)
           older(k) == WaitsLoad(k, x) \/ WaitsLoad(k, s)
<1>11. \A k \in Instructions : older(k) <=> waits(k)
  <2> SUFFICES ASSUME NEW k \in Instructions PROVE older(k) <=> waits(k)
    OBVIOUS
  <2>1. CASE k.t \notin Data
    BY <2>1 DEF WaitsLoad
  <2>2. CASE k.t \in Data
    <3>1. ~Unlike(p[1], s)
      BY <1>2 DEF FirstIn
    <3>2. TellsReads(p[1]) /\ TellsReads(s) /\ TellsReads(k) /\ p[1].t \notin Control
      BY <1>2, <1>3, <1>6 DEF FirstIn
    <3>3. x = IF WaitsLoad(s, p[1]) \/ WaitsSum(s, p[1]) THEN Bubble ELSE p[1]
      BY <1>8
    <3> HIDE DEF x
    <3>4. WaitsLoad(k, x) \/ WaitsLoad(k, s) <=> \E r \in k.uses : Loaded(p[1], s, r)
      BY <1>2, <1>3, <2>2, <3>1, <3>2, <3>3, OlderMeans
    <3> QED
      BY <2>2, <3>4
  <2> QED
    BY <2>1, <2>2
<1>12. owed + S = PairCycles(f, i, x, s)
  <2>1. owed = IF waits(f) THEN 1 ELSE 0
    BY <1>2 DEF FirstIn
  <2>2. S = IF WaitsLoad(i, f) THEN 2 ELSE IF WaitsSum(i, f) THEN 1
            ELSE IF owed = 0 /\ waits(i) THEN 1 ELSE 0
    BY <1>1, <1>2, <1>4, <1>6, SecondStalls DEF S
  <2>3. PairCycles(f, i, x, s) =
          (IF older(f) THEN 1 ELSE 0)
            + IF WaitsLoad(i, f) THEN 2 ELSE IF WaitsSum(i, f) THEN 1
              ELSE IF ~older(f) /\ older(i) THEN 1 ELSE 0
    BY DEF PairCycles
  <2>4. (older(f) <=> waits(f)) /\ (older(i) <=> waits(i))
    BY <1>3, <1>4, <1>11
  <2> HIDE DEF older, waits, x, f
  <2> QED
    BY <2>1, <2>2, <2>3, <2>4
<1>13. SecondIn'
  <2>1. debt' = 0
    <3>1. debt = PairCycles(p[1], p2[0], p[2], p2[1])
      BY <1>2 DEF FirstIn
    <3>2. PairCycles(p[1], p2[0], p[2], p2[1]) \in Int
      BY DEF PairCycles
    <3> QED
      BY <1>5, <1>8, <3>1, <3>2
  <2>2. p'[0] = f /\ p2'[0] = i /\ p'[1] = x /\ p2'[1] = s
    BY <1>5, <1>8
  <2>3. owed' = PairCycles(p'[0], p2'[0], p'[1], p2'[1])
    BY <1>5, <1>12, <2>2
  <2>4. SecondIn' <=>
          /\ debt' = 0
          /\ owed' = PairCycles(p'[0], p2'[0], p'[1], p2'[1])
          /\ ~Unlike(p'[0], p2'[0])
          /\ \A r \in Registers : since'[r] = 0 /\ writer'[r] = "LOAD" <=> Loaded(p'[0], p2'[0], r)
    BY DEF SecondIn
  <2> QED
    BY <1>1, <1>9, <2>1, <2>2, <2>3, <2>4
<1> QED
  BY <1>5, <1>10, <1>13

\* Every state of every such program satisfies it.
LEMMA PairInvariant == ASSUME Honest("SUPERESCALAR") PROVE DualSpec => []PairInv
<1>1. DualInit => PairInv
  <2> SUFFICES ASSUME DualInit PROVE PairInv
    OBVIOUS
  <2>1. build \in Builds
    BY DEF DualInit, Init
  <2>2. ASSUME build = "SUPERESCALAR" PROVE PairTypes /\ last_inserted = 2 /\ SecondIn
    <3>1. /\ p = [k \in 0 .. 2 |-> Bubble] /\ p2 = [k \in 0 .. 2 |-> Bubble]
          /\ last_inserted = 2 /\ debt = 0 /\ owed = 0
          /\ since = [r \in Registers |-> 5] /\ writer = [r \in Registers |-> "BUBBLE"]
      BY <2>2 DEF DualInit, Init, Seen, Far
    <3>2. PairTypes
      BY <3>1 DEF PairTypes, Instructions, Bubble, Control, Far
    <3>3. /\ p[0] = Bubble /\ p2[0] = Bubble /\ p[1] = Bubble /\ p2[1] = Bubble
          /\ Bubble.t = "BUBBLE"
      BY <3>1 DEF Bubble
    <3>4. PairCycles(Bubble, Bubble, Bubble, Bubble) = 0
      BY <3>3 DEF PairCycles, WaitsLoad, WaitsSum, Data
    <3>5. ~Unlike(Bubble, Bubble)
      BY <3>3 DEF Unlike
    <3>6. \A r \in Registers : ~(since[r] = 0) /\ ~Loaded(p[0], p2[0], r)
      BY <3>1, <3>3 DEF Loaded
    <3> QED
      BY <3>1, <3>2, <3>3, <3>4, <3>5, <3>6 DEF SecondIn
  <2> QED
    BY <2>1, <2>2 DEF PairInv
<1>2. PairInv /\ [DualNext]_allVars => PairInv'
  <2> SUFFICES ASSUME PairInv, [DualNext]_allVars PROVE PairInv'
    OBVIOUS
  <2>1. CASE DualNext
    <3>1. build' = build
      BY <2>1, BuildStays
    <3>2. build' \in Builds
      BY <3>1 DEF PairInv
    <3>3. CASE build = "SUPERESCALAR"
      <4>1. PICK i \in Program[build] :
              InsertFirst(i) \/ \E missed \in BOOLEAN : InsertSecond(i, missed)
        BY <2>1, <3>3 DEF DualNext
      <4>2. ASSUME plain' PROVE /\ PairTypes'
                                /\ \/ last_inserted' = 1 /\ FirstIn'
                                   \/ last_inserted' = 2 /\ SecondIn'
        <5>1. CASE InsertFirst(i)
          BY <3>3, <4>2, <5>1, FirstStep
        <5>2. ASSUME NEW missed \in BOOLEAN, InsertSecond(i, missed)
              PROVE  PairTypes' /\ last_inserted' = 2 /\ SecondIn'
          BY <3>3, <4>2, <5>2, SecondStep
        <5> QED
          BY <4>1, <5>1, <5>2
      <4> QED
        BY <3>2, <4>2 DEF PairInv
    <3>4. CASE build # "SUPERESCALAR"
      BY <3>1, <3>2, <3>4 DEF PairInv
    <3> QED
      BY <3>3, <3>4
  <2>2. CASE UNCHANGED allVars
    BY <2>2 DEF allVars, vars, dual, PairInv, PairTypes, SecondIn, FirstIn, Instructions
  <2> QED
    BY <2>1, <2>2
<1> QED
  BY <1>1, <1>2, PTL DEF DualSpec

\* With two pipelines each pair of a program of arithmetic, loads and stores that
\* reads what it tells, and tells what its loads read, is charged exactly what the
\* schedule stalls it, when the next pair is in, in whatever order the histories
\* got their bubbles, mult and mflo in one pair included.
THEOREM PairsCharge == ASSUME Honest("SUPERESCALAR") PROVE DualSpec => []PairsExact
<1>1. PairInv => PairsExact
  BY DEF PairInv, SecondIn, PairsExact
<1> QED
  BY <1>1, PairInvariant, PTL

-----------------------------------------------------------------------------
(* The bound on the two-bit predictor, for every penalty and any number of  *)
(* branches.  Each outcome moves the state by at most one step, and each    *)
(* misprediction is paid for by an outcome or by the distance the state has *)
(* moved.                                                                   *)

\* The initial state satisfies the invariant: nothing paid, strongly not taken.
LEMMA PredictorInitially == PredictorInit => PredictorInv
  BY PenaltyAssumption, SMT DEF PredictorInit, PredictorInv, PredictorTypeOK, BP2bits, LeastTaken, WarmUp

\* A taken branch preserves it, one case per state of the machine.
LEMMA TakenStep == PredictorInv /\ Taken => PredictorInv'
<1> SUFFICES ASSUME PredictorInv, Taken PROVE PredictorInv'
  OBVIOUS
<1> USE PenaltyAssumption DEF PredictorInv, PredictorTypeOK, BP2bits, Taken, AfterTaken,
                              PredictsTaken, LeastTaken, WarmUp
<1>1. CASE preditor = "SNT"
  BY <1>1, SMT
<1>2. CASE preditor = "WNT"
  BY <1>2, SMT
<1>3. CASE preditor = "WT"
  BY <1>3, SMT
<1>4. CASE preditor = "ST"
  BY <1>4, SMT
<1> QED
  BY <1>1, <1>2, <1>3, <1>4

\* So does a branch that is not taken.
LEMMA NotTakenStep == PredictorInv /\ NotTaken => PredictorInv'
<1> SUFFICES ASSUME PredictorInv, NotTaken PROVE PredictorInv'
  OBVIOUS
<1> USE PenaltyAssumption DEF PredictorInv, PredictorTypeOK, BP2bits, NotTaken, AfterNotTaken,
                              PredictsTaken, LeastTaken, WarmUp
<1>1. CASE preditor = "SNT"
  BY <1>1, SMT
<1>2. CASE preditor = "WNT"
  BY <1>2, SMT
<1>3. CASE preditor = "WT"
  BY <1>3, SMT
<1>4. CASE preditor = "ST"
  BY <1>4, SMT
<1> QED
  BY <1>1, <1>2, <1>3, <1>4

\* In every reachable state the two-bit build has paid at most twice what
\* either static build has, plus two mispredictions of warming up.
THEOREM TwoBitsBound == PredictorSpec => [](PredictorInv /\ TwoBitsCompetitive)
<1>1. PredictorInv /\ [PredictorNext]_predictorVars => PredictorInv'
  <2> SUFFICES ASSUME PredictorInv, [PredictorNext]_predictorVars PROVE PredictorInv'
    OBVIOUS
  <2>1. CASE Taken
    BY <2>1, TakenStep
  <2>2. CASE NotTaken
    BY <2>2, NotTakenStep
  <2>3. CASE UNCHANGED predictorVars
    BY <2>3 DEF PredictorInv, PredictorTypeOK, LeastTaken, WarmUp, predictorVars
  <2> QED
    BY <2>1, <2>2, <2>3 DEF PredictorNext
<1>2. PredictorInv => TwoBitsCompetitive
  BY PenaltyAssumption, SMT
  DEF PredictorInv, PredictorTypeOK, BP2bits, TwoBitsCompetitive, LeastTaken, WarmUp
<1> QED
  BY PredictorInitially, <1>1, <1>2, PTL DEF PredictorSpec
=============================================================================
