----------------------------- MODULE CacheDrivers -----------------------------
(***************************************************************************)
(* The two programs of the repository that use the library of Dinero: the  *)
(* pipeline simulator, whose instructions call doread and dowrite, and     *)
(* dineroIV, which exercicio2 runs on traces.  calls is what the current   *)
(* instruction or trace record has still to ask of the caches; d4ref       *)
(* returns before the next call.                                           *)
(***************************************************************************)
EXTENDS Dinero

CONSTANTS WordSize   \* 4

\* The caches a program refers to, and what it asks of them.  D4XMISC, which is a
\* read that is never prefetched for, is left out.
ASSUME ProgramsAssumption ==
  /\ WordSize \in Nat \ {0}
  /\ \A f \in Configs :
       /\ f.ci \in DOMAIN f.cache /\ f.cd \in DOMAIN f.cache
       /\ f.code \subseteq Nat /\ f.data \subseteq Nat /\ f.flushcount \in Nat
       /\ \A r \in f.trace :
            /\ r.type \in {"READ", "INSTRN", "WRITE", "COPYB", "INVAL"}
            /\ r.addr \in Nat /\ r.size \in Nat
            /\ r.size = 0 => r.type \in {"COPYB", "INVAL"}
            /\ r = Reference(r.type, r.addr, r.size)

VARIABLES calls, flcount, done

driver == <<calls, flcount, done>>
vars == <<conf, stack, pending, seen, newest, calls, flcount, done>>

Ready == Idle /\ calls = <<>> /\ ~done

Init ==
  /\ d4setup
  /\ calls = <<>>
  /\ flcount = conf.flushcount
  /\ done = FALSE

-----------------------------------------------------------------------------
\* mips_isa.cpp: every access is of a whole word, whatever the instruction.
doread(a, c) == [cache |-> c, ref |-> Reference("READ", a, WordSize)]
dowrite(a, c) == [cache |-> c, ref |-> Reference("WRITE", a, WordSize)]

\* The generic instruction behaviour reads the instruction before the behaviour
\* of the instruction reads or writes its operand.
Instruction(pc, operands) ==
  /\ conf.program = "mips_isa" /\ Ready
  /\ calls' = <<doread(pc, conf.ci)>> \o operands
  /\ UNCHANGED <<conf, stack, pending, seen, newest, flcount, done>>

\* lb, lbu, lh, lhu, lw; lwl and lwr; sb, sh, sw; swl and swr.
Load(a) == <<doread(a, conf.cd)>>
Store(a) == <<dowrite(a, conf.cd)>>
Aligned(a) == a - (a % WordSize)
LoadPart(a) == <<doread(Aligned(a), conf.cd)>>
StorePart(a) == <<doread(Aligned(a), conf.cd), dowrite(Aligned(a), conf.cd)>>

Execute ==
  \E pc \in conf.code :
    \/ Instruction(pc, <<>>)
    \/ \E a \in conf.data :
         Instruction(pc, Load(a)) \/ Instruction(pc, Store(a)) \/ Instruction(pc, LoadPart(a))
           \/ Instruction(pc, StorePart(a))

-----------------------------------------------------------------------------
\* cmdmain.c: one record of the trace, and every flushcount records a flush.
WholeCache(t) == Reference(t, 0, 0)
To(c, m) == [cache |-> c, ref |-> m]

\* Mutant: invalidated before it is copied back.
FlushLate ==
  <<To(conf.cd, WholeCache("INVAL")), To(conf.cd, WholeCache("COPYB"))>>
    \o IF conf.ci # conf.cd THEN <<To(conf.ci, WholeCache("INVAL"))>> ELSE <<>>

Flush ==
  <<To(conf.cd, WholeCache("COPYB")), To(conf.ci, WholeCache("INVAL"))>>
    \o IF conf.ci # conf.cd THEN <<To(conf.cd, WholeCache("INVAL"))>> ELSE <<>>

TraceItem(r) ==
  /\ conf.program = "dineroIV" /\ Ready
  /\ calls' = (CASE r.type = "INSTRN" -> <<To(conf.ci, r)>>
                 [] r.type = "INVAL" -> <<To(conf.ci, r), To(conf.cd, r)>>
                 [] OTHER -> <<To(conf.cd, r)>>)
              \o IF flcount = 1 THEN Flush ELSE <<>>
  /\ flcount' = IF flcount = 1 THEN conf.flushcount ELSE IF flcount > 1 THEN flcount - 1 ELSE 0
  /\ UNCHANGED <<conf, stack, pending, seen, newest, done>>

\* The trace is over, or maxcount records have been read.
TraceEnds ==
  /\ conf.program = "dineroIV" /\ Ready
  /\ calls' = <<To(conf.cd, WholeCache("COPYB"))>>
  /\ done' = TRUE
  /\ UNCHANGED <<conf, stack, pending, seen, newest, flcount>>

-----------------------------------------------------------------------------
Call ==
  /\ Idle /\ calls # <<>>
  /\ d4ref(Head(calls).cache, Head(calls).ref, pending, Head(calls).cache)
  /\ calls' = Tail(calls)
  /\ UNCHANGED <<flcount, done>>

Continue == (\E c \in Caches : d4_dopending(c)) /\ UNCHANGED driver

Finished == done /\ Idle /\ calls = <<>> /\ UNCHANGED vars

Next == Execute \/ (\E r \in conf.trace : TraceItem(r)) \/ TraceEnds \/ Call \/ Continue \/ Finished

Spec == Init /\ [][Next]_vars

-----------------------------------------------------------------------------
WholeSubBlocks(c, m) ==
  SubBlock(c, m.addr) = m.addr /\ SubBlock(c, m.addr + m.size) = m.addr + m.size

\* What c may pass on as it came: what is asked of all caches, and writes that
\* it does not allocate or does not keep.
AsItCame(c, m) ==
  \/ m.type \in {"COPYB", "INVAL"}
  \/ m.type = "WRITE" /\ (P(c).walloc # "always" \/ P(c).wback # "always")

\* The rest of a reference that crossed a block begins with the next one.
WholeOrPassed(c, m) ==
  IF m.split THEN Block(c, m.addr) = m.addr ELSE AsItCame(c, m) \/ WholeSubBlocks(c, m)

\* Nodes are of blocks of their cache, with sub-blocks of these; what a cache has
\* still to fetch, prefetch or write back is of whole sub-blocks of its own.
TypeOK ==
  /\ conf \in Configs /\ flcount \in 0 .. conf.flushcount /\ done \in BOOLEAN
  /\ newest \in [Addresses -> Caches \cup {Mem, Nobody}]
  /\ \A c \in Caches :
       /\ \A s \in Stacks(c) :
            /\ DOMAIN stack[c][s] = 1 .. StackSize(c, s)
            /\ \A k \in 1 .. StackSize(c, s) :
                 LET n == stack[c][s][k] IN
                 /\ n.block \in Nat /\ Block(c, n.block) = n.block
                 /\ \A a \in n.valid \cup n.referenced \cup n.dirty :
                      SubBlock(c, a) = a /\ Block(c, a) = n.block
       /\ \A k \in DOMAIN pending[c] :
            LET m == pending[c][k] IN
            /\ m.addr \in Int /\ m.size \in Nat
            /\ m.type \in {"READ", "INSTRN", "WRITE", "COPYB", "INVAL"}
            /\ m.size = 0 => m.type \in {"COPYB", "INVAL"}
            /\ WholeOrPassed(c, m)
       /\ \A a \in seen[c] : P(c).ccc /\ SubBlock(c, a) = a

\* d4.h, "The valid ones are always first", and the assertions of d4rep_*,
\* d4copyback and d4invalidate that the last node is not valid: a search that
\* stops at the first invalid node misses nothing.  A block is in one node only,
\* of its own set.
StackOK(c, s) ==
  LET q == stack[c][s] IN
  /\ q[Len(q)].valid = {}
  /\ \A k \in 1 .. Len(q) - 1 : q[k].valid = {} => q[k + 1].valid = {}
  /\ \A k \in DOMAIN q : q[k].valid # {} =>
       /\ \A j \in DOMAIN q : j # k /\ q[j].valid # {} => q[j].block # q[k].block
       /\ s # FullStack(c) => SetOf(c, q[k].block) = s
       /\ \A a \in q[k].valid : Block(c, a) = q[k].block
       /\ q[k].dirty \subseteq q[k].valid

ValidFirst == \A c \in Caches : \A s \in Stacks(c) : StackOK(c, s)

\* Where a write has come to: bytes dirty in a cache, or on their way out of it.
Nodes(c) == UNION {{stack[c][s][k] : k \in DOMAIN stack[c][s]} : s \in Stacks(c)}
Dirty(c) == UNION {n.valid \cap n.dirty : n \in Nodes(c)}
Leaving(c) == UNION {Bytes(pending[c][k]) :
                       k \in {i \in DOMAIN pending[c] : /\ pending[c][i].type = "WRITE"
                                                       /\ ~pending[c][i].split}}
Holds(c, a) == SubBlock(c, a) \in Dirty(c) \/ a \in Leaving(c)

\* A byte that was written and has not reached the memory is dirty in the cache
\* it was last written to or is on its way out of it.
NewestHeld ==
  \A a \in Addresses : newest[a] \in Caches => Holds(newest[a], a)

\* No cache writes back what a cache further down, or the memory, has newer.
NothingStale ==
  \A c \in Caches : \A a \in Addresses :
    P(c).sub = 1 /\ Holds(c, a) /\ newest[a] # Nobody
      => newest[a] \in Caches /\ P(newest[a]).cacheid >= P(c).cacheid

\* The reference that the next step hands to a cache.
NextRef ==
  IF Idle THEN Head(calls)
  ELSE LET c == CHOOSE x \in Caches : /\ pending[x] # <<>>
                                      /\ \A d \in Caches : pending[d] # <<>> => P(x).cacheid <= P(d).cacheid
           m == Head(pending[c])
       IN To(IF m.prefetch \/ m.split THEN c ELSE P(c).down, m)

\* A set as its replacement policy describes it: the blocks it has, at most
\* size of them, first the last to be used (LRU) or to come (FIFO).
Residents(q) == [k \in 1 .. Cardinality({j \in DOMAIN q : q[j].valid # {}}) |-> q[k].block]

PolicyStep(c, q, t, b, allocate) ==
  LET old == Residents(q)
      new == Residents(t)
      size == Len(q) - 1
      FirstWithout(k) == new = <<b>> \o RemoveAt(old, k)
  IN IF Contains(old, b)
       THEN IF P(c).rep = "lru" THEN \E k \in DOMAIN old : old[k] = b /\ FirstWithout(k) ELSE new = old
     ELSE IF ~allocate THEN new = old
     ELSE IF Len(old) < size THEN new = <<b>> \o old
     ELSE \E k \in DOMAIN old : (P(c).rep # "random" => k = size) /\ FirstWithout(k)

\* Every stack, the fully associative one too, keeps the blocks its policy asks
\* for (d4.3, "replacementf"), whatever spare and invalid nodes it goes through.
FollowsPolicy ==
  ~(Idle /\ calls = <<>>) =>
    \A c \in Caches \cap {NextRef.cache}, m \in {NextRef.ref} : \A s \in Stacks(c) :
      m.type \in {"READ", "INSTRN", "WRITE"} =>
        IF s \in {SetOf(c, m.addr), FullStack(c)}
          THEN PolicyStep(c, stack[c][s], stack'[c][s], Block(c, m.addr),
                          m.type # "WRITE" \/ WriteAllocate(c, FirstPart(c, m)))
          ELSE Residents(stack'[c][s]) = Residents(stack[c][s])

PolicyKept == [][FollowsPolicy]_vars

\* With D4F_CCC, what any of the two caches holds was seen by the infinite one:
\* no miss on it is ever compulsory again.
CachedIsSeen ==
  \A c \in Caches : P(c).ccc => \A n \in Nodes(c) : n.valid \subseteq seen[c]

\* d4ref returns: what a reference makes its own cache refer to again ranks lower
\* (a prefetch below every demand, the rest of a split below the whole), and
\* everything else goes to a cache created earlier, closer to the memory.
Rank(m) == IF m.prefetch THEN 0 ELSE m.size

Descends ==
  ~(Idle /\ calls = <<>>) =>
    \A c \in Caches \cap {NextRef.cache}, m \in {NextRef.ref} :
      \A k \in 1 .. Len(pending'[c]) - (IF pending[c] = <<>> THEN 0 ELSE Len(pending[c]) - 1) :
        LET e == pending'[c][k] IN
        IF e.prefetch \/ e.split THEN Rank(e) < Rank(m)
        ELSE P(c).down = Mem \/ P(P(c).down).cacheid < P(c).cacheid

RecursionEnds == [][Descends]_vars

\* dineroIV invalidates only after it has copied back, unless the trace asks
\* for less, and ends with everything in the memory.
FlushKeepsWrites ==
  /\ (\A r \in conf.trace : r.type # "INVAL") => \A a \in Addresses : newest[a] # Nobody
  /\ done /\ Idle /\ calls = <<>> => \A a \in Addresses : newest[a] \in {Mem, Nobody}
=============================================================================
