----------------------------- MODULE Superscalar -----------------------------
(***************************************************************************)
(* The build of the pipeline simulator with two pipelines of five stages.  *)
(* insere_instr fills p and p2 in turn, and when both have a new head      *)
(* update_superescalar compares the pair with the older ones and with      *)
(* itself.  Where the second waits for the first, the bubbles go to        *)
(* different places of the two histories.                                  *)
(*                                                                         *)
(* The reference is that of Pipeline, for two instructions in one cycle.   *)
(***************************************************************************)
EXTENDS Pipeline, Sequences

CONSTANT MaxLead   \* short is not followed below -MaxLead

ASSUME SuperscalarAssumption == MaxLead \in Nat

VARIABLES
  p2,             \* the history of the second pipeline
  last_inserted,  \* 1 or 2: the pipeline that was filled last
  owed,           \* stalls of the newest pair in the schedule
  plain,          \* nothing yet that the code is known to charge otherwise
  short           \* cycles of the schedule less twice those of the code

dual == <<p2, last_inserted, owed, plain, short>>
allVars == <<vars, dual>>

DualInit ==
  /\ Init
  /\ p2 = [k \in 0 .. Seen - 1 |-> Bubble]
  /\ last_inserted = 2
  /\ owed = 0 /\ plain = TRUE /\ short = 0

-----------------------------------------------------------------------------
\* A place in the two histories h = <<p, p2>> is a pipeline and a position.  A
\* rule compares readers with writers, and stalls each pipeline behind a
\* position; behind -1 is in front, where insere_instr(BUBBLE) puts them.
At(h, place) == h[place[1]][place[2]]
DualRule(pairs, kinds, first, second) ==
  [pairs |-> pairs, kinds |-> kinds, first |-> first, second |-> second]

\* The new instruction of pipeline c, and the one before it, with the pairs
\* that came in k insertions ago.
Against(c, pos, k) == {<<<<c, pos>>, <<1, k>>>>, <<<<c, pos>>, <<2, k>>>>}

UseRules(c) == <<DualRule(Against(c, 1, 2), {"LOAD"}, <<1, 1>>, <<1, 1>>)>>

\* Mutant: a pair of dependent loads is forgotten.
ArithmeticOnly(i) ==
  LET pair == {<<<<2, 1>>, <<1, 1>>>>} IN
  IF i.t = "LOAD" THEN <<>>
  ELSE <<DualRule(pair, {"LOAD"}, <<0, 2>>, <<1, 2>>), DualRule(pair, {"OUTRAS"}, <<0, 1>>, <<1, 1>>)>>

\* The second of a pair uses what the first loads or computes.
SplitRules(i) ==
  LET pair == {<<<<2, 1>>, <<1, 1>>>>} IN
  <<DualRule(pair, {"LOAD"}, <<0, 2>>, <<1, 2>>)>>
    \o IF i.t = "LOAD" THEN <<>> ELSE <<DualRule(pair, {"OUTRAS"}, <<0, 1>>, <<1, 1>>)>>

TwoRegisters(i) == i.t \in {"OUTRAS", "STORE"} \/ (i.t = "BRANCH" /\ i.rt # None)

\* Mutant: the two instructions of the newest pair are not compared.
OlderRules(c, i) ==
  <<DualRule(Against(c, 0, 1), {"LOAD"}, <<0, 2>>, <<0, 2>>),
    DualRule(Against(c, 0, 1), {"OUTRAS"}, <<0, 1>>, <<0, 1>>),
    DualRule(Against(c, 0, 2), {"LOAD"}, <<1, 1>>, <<1, 1>>)>>

\* With two registers, a branch in p2 that waits for arithmetic in p puts one
\* bubble more in p than in p2; with one, p[2] is compared with the rs of p[0].
DualControlRules(c, i) ==
  LET pair == {<<<<2, 0>>, <<1, 0>>>>}
      older == IF c = 2 /\ ~TwoRegisters(i)
                 THEN {<<<<1, 0>>, <<1, 2>>>>, <<<<2, 0>>, <<2, 2>>>>} ELSE Against(c, 0, 2)
  IN (IF c = 1 THEN <<>>
      ELSE <<DualRule(pair, {"LOAD"}, <<-1, 3>>, <<0, 3>>),
             DualRule(pair, {"OUTRAS"}, <<-1, IF TwoRegisters(i) THEN 3 ELSE 2>>, <<0, 2>>)>>)
     \o <<DualRule(Against(c, 0, 1), {"LOAD"}, <<0, 2>>, <<0, 2>>),
          DualRule(Against(c, 0, 1), {"OUTRAS"}, <<0, 1>>, <<0, 1>>),
          DualRule(older, {"LOAD"}, <<1, 1>>, <<1, 1>>)>>

\* Unlike the other builds this one does not leave -1 out: an instruction
\* without a source waits for one without a destination.
Clash(two, i, j) == j.dest = i.rs \/ (two /\ j.dest = i.rt)

\* How many registers are compared goes by i, the instruction that the rules are
\* about, also where another one is compared.
Meets(i, rule, h) ==
  \E w \in rule.pairs :
    /\ At(h, w[2]).t \in rule.kinds
    /\ Clash(TwoRegisters(i), At(h, w[1]), At(h, w[2]))

Charged(rule, now) ==
  [h |-> <<Stall(now.h[1], rule.first[1], rule.first[2]), Stall(now.h[2], rule.second[1], rule.second[2])>>,
   cicles |-> now.cicles + rule.second[2]]

\* The first of a list of rules that meets is charged.
Met(i, rules, h) == {n \in DOMAIN rules : Meets(i, rules[n], h)}

DualCharge(consumers, i, rules, now) ==
  LET met == Met(i, rules, now.h)
  IN IF i.t \notin consumers \/ (i.t = "JUMP" /\ i.rs = None) \/ met = {} THEN now
     ELSE Charged(rules[Min(met)], now)

update_superescalar(h) ==
  LET a == DualCharge(Data, h[1][1], UseRules(1), [h |-> h, cicles |-> 0])
      b == DualCharge(Control, a.h[1][0], DualControlRules(1, a.h[1][0]), a)
      c == DualCharge(Data, b.h[2][1], SplitRules(b.h[2][1]), b)
      d == DualCharge(Data, c.h[2][1], UseRules(2), c)
  IN DualCharge(Control, d.h[2][0], DualControlRules(2, d.h[2][0]), d)

-----------------------------------------------------------------------------
\* Two cycles after a jump or a branch predicted wrong in p, which then stands
\* alone; one in p2.
After(h, c) ==
  IF c = 0 THEN h
  ELSE IF c = 1 THEN <<Flush(h[1], 2), Stall(h[2], 0, 2)>>
  ELSE <<Flush(h[1], 1), Flush(h[2], 1)>>

\* The bookkeeping of the reference: i is executed so many cycles before and
\* after.  A pair waits together for older ones, then with, written by its first,
\* does not age; the first goes ahead only where the second waits for it.  Which
\* hazards are told is only asked in the other builds.
Executed(i, before, wait, after, with) ==
  /\ since' = [r \in Registers |->
                 IF r \in i.writes THEN after
                 ELSE Min({Far, since[r] + before + after + IF r \in with THEN 0 ELSE wait})]
  /\ writer' = [r \in Registers |-> IF r \in i.writes THEN i.t ELSE writer[r]]
  /\ UNCHANGED <<hidden, unseen>>

Account(schedule, code) == short' = Max({-MaxLead, short + schedule - 2 * code})

Stalls(i, cycles) == Max({0} \cup {Needed(writer[r], i.t) - since[r] - cycles : r \in i.uses})

WaitsFor(i, j) == j.writes \cap i.uses # {} /\ Needed(j.t, i.t) > 0

\* A load is not compared with arithmetic beside it; -1 may equal -1, which only
\* mflo needs after mult; a load that the second of its pair overwrites is still
\* waited for.
Unlike(i, j) ==
  \/ i.t = "OUTRAS" /\ j.t = "LOAD" /\ i.dest = j.rs
  \/ /\ i.t = "OUTRAS" /\ j.t \in {"OUTRAS", "STORE"} /\ i.dest = None /\ None \in {j.rs, j.rt}
     /\ i.writes \cap j.uses = {}
  \/ i.t = "LOAD" /\ i.dest = j.dest /\ i.dest \notin j.uses

InsertFirst(i) ==
  /\ last_inserted = 2
  /\ slot => i.t \notin Control
  /\ last_inserted' = 1
  /\ p' = Push(p, i)
  /\ slot' = (i.t \in Control)
  /\ Executed(i, 1, Stalls(i, 1), 0, {})
  /\ Account(1 + Stalls(i, 1), 1)
  /\ plain' = (plain /\ i.t \notin Control)
  /\ debt' = IF plain' THEN debt + owed ELSE 0
  /\ owed' = IF plain' THEN Stalls(i, 1) ELSE 0
  /\ UNCHANGED <<build, p2>>

\* missed tells of the branch in p or in p2: tomado is that of the last one.
InsertSecond(i, missed) ==
  LET now == update_superescalar(<<p, Push(p2, i)>>)
      wrong(j) == j.t = "JUMP" \/ (missed /\ j.t = "BRANCH")
      c == IF wrong(p[0]) THEN 1 ELSE IF wrong(i) THEN 2 ELSE 0
      before == IF c = 1 THEN 2 ELSE 0
      lost == IF c = 2 THEN 1 ELSE before
  IN
  /\ last_inserted = 1
  /\ slot => i.t \notin Control
  /\ missed => "BRANCH" \in {p[0].t, i.t}
  /\ last_inserted' = 2
  /\ p' = After(now.h, c)[1] /\ p2' = After(now.h, c)[2]
  /\ slot' = (i.t \in Control)
  /\ Executed(i, before, Stalls(i, before), lost - before, IF WaitsFor(i, p[0]) THEN {} ELSE p[0].writes)
  /\ Account(lost + Stalls(i, before), lost + now.cicles)
  /\ plain' = (plain /\ i.t \notin Control /\ ~Unlike(p[0], i))
  /\ debt' = IF plain' THEN debt - now.cicles ELSE 0
  /\ owed' = IF plain' THEN owed + Stalls(i, 0) ELSE 0
  /\ UNCHANGED build

DualNext ==
  \/ build # "SUPERESCALAR" /\ Next /\ UNCHANGED dual
  \/ /\ build = "SUPERESCALAR"
     /\ \E i \in Program[build] :
          InsertFirst(i) \/ \E missed \in BOOLEAN : InsertSecond(i, missed)

DualSpec == DualInit /\ [][DualNext]_allVars

-----------------------------------------------------------------------------
\* relatorio.md, "os dois pipelines": between arithmetic, stores and loads, in one
\* pair or in two, each pair is charged what the schedule needs when the next one
\* has come in, however the bubbles before it were put in the two histories.
PairsExact == build = "SUPERESCALAR" /\ plain /\ last_inserted = 2 => debt = 0

\* With branches and jumps, rules that hide each other, a comparison with the wrong
\* instruction and bubbles that put the histories out of step lose stalls; yet no
\* program is charged less than half the cycles of the schedule.  This is about
\* programs without lwl and lwr: what these wait for in their own pair is never
\* charged.
AtLeastHalf == short <= 3
=============================================================================
