-------------------------------- MODULE Dinero --------------------------------
(***************************************************************************)
(* The cache simulator library Dinero IV, as the pipeline simulator links  *)
(* it (d4-7/ref.c and d4-7/misc.c).  A tree of caches ends in the memory.  *)
(* Every set of a cache is a stack of 1 + assoc nodes, most recently used  *)
(* first; the last one is spare.  No data is simulated: a node has a block *)
(* address and the sub-blocks that are valid, referenced and dirty.        *)
(*                                                                         *)
(* One step is one execution of d4ref for one cache.  What it asks for in  *)
(* consequence (a fetch, write-backs, a prefetch, the rest of a reference  *)
(* that crosses a block) is put on the stack `pending' of the cache, and   *)
(* d4_dopending takes them off one by one, the cache downstream first,     *)
(* because d4ref only returns when its own stack is empty.                 *)
(*                                                                         *)
(* The hash table that stands in for the search of long stacks finds the   *)
(* same node; the counters of fetches and misses are left out, except for  *)
(* the class of a miss.                                                    *)
(*                                                                         *)
(* newest is not in the code: the place each byte was last written to.     *)
(***************************************************************************)
EXTENDS Integers, Sequences, FiniteSets, SequencesExt

CONSTANTS
  Mem,        \* the simulated memory, root of the tree
  Nobody,     \* no cache: a byte that an invalidation has dropped
  Configs,    \* the trees of caches
  Addresses   \* the bytes that programs write

\* What d4setup checks of every cache, and what it does not: that a cache has at
\* least one set, and that the valid bits of a block fit in an unsigned int.
ASSUME CachesAssumption ==
  \A f \in Configs : \A c \in DOMAIN f.cache :
    LET par == f.cache[c] IN
    /\ par.sub \in Nat \ {0} /\ par.block \in Nat \ {0} /\ par.block % par.sub = 0
    /\ \E e \in 0 .. par.block \div par.sub : 2 ^ e = par.block \div par.sub
    /\ par.block \div par.sub <= 32
    /\ par.sets \in Nat \ {0} /\ par.assoc \in Nat \ {0} /\ par.dist \in Nat
    /\ par.ccc \in BOOLEAN
    /\ par.down \in DOMAIN f.cache \cup {Mem}

\* Addresses are unsigned, the memory and nobody are two and no caches, and
\* d4new numbers every cache anew, after the one downstream, which it is given.
ASSUME TreeAssumption ==
  /\ Addresses \subseteq Nat /\ Mem # Nobody
  /\ \A f \in Configs :
       /\ Mem \notin DOMAIN f.cache /\ Nobody \notin DOMAIN f.cache
       /\ \A c \in DOMAIN f.cache :
            /\ f.cache[c].cacheid \in Nat
            /\ f.cache[c].down # Mem => f.cache[f.cache[c].down].cacheid < f.cache[c].cacheid
            /\ \A d \in DOMAIN f.cache : f.cache[c].cacheid = f.cache[d].cacheid => c = d

VARIABLES conf, stack, pending, seen, newest

\* P(c): what d4setup finds in the d4cache structure of c.  sub, block and dist
\* are in bytes; fetch is the prefetch policy; ccc is D4F_CCC, ro D4F_RO.
Caches == DOMAIN conf.cache
P(c) == conf.cache[c]

Node == [block |-> 0, valid |-> {}, referenced |-> {}, dirty |-> {}]

\* With D4F_CCC there is one more stack, for the fully associative cache.
FullStack(c) == P(c).sets
Stacks(c) == 0 .. (IF P(c).ccc THEN FullStack(c) ELSE P(c).sets - 1)
StackSize(c, s) == 1 + (IF s = FullStack(c) THEN P(c).assoc * P(c).sets ELSE P(c).assoc)

d4setup ==
  /\ conf \in Configs
  /\ stack = [c \in Caches |-> [s \in Stacks(c) |-> [k \in 1 .. StackSize(c, s) |-> Node]]]
  /\ pending = [c \in Caches |-> <<>>]
  /\ seen = [c \in Caches |-> {}]
  /\ newest = [a \in Addresses |-> Mem]

Reference(t, a, n) == [type |-> t, addr |-> a, size |-> n, prefetch |-> FALSE, split |-> FALSE]

-----------------------------------------------------------------------------
\* D4ADDR2BLOCK, D4ADDR2SUBBLOCK, D4ADDR2SET, D4REFNSB, D4ADDR2SBMASK.  A set
\* of sub-blocks is the set of their addresses.
Block(c, a) == a - (a % P(c).block)
SubBlock(c, a) == a - (a % P(c).sub)
SetOf(c, a) == (a \div P(c).block) % P(c).sets
Bytes(m) == m.addr .. m.addr + m.size - 1
SubBlocks(c, m) == {SubBlock(c, a) : a \in Bytes(m)}

\* Mutant: only what is asked for is counted, not the sub-blocks around it.
AsAsked(c, m) == m.size

Covering(c, m) ==
  SubBlock(c, m.addr + m.size - 1) - SubBlock(c, m.addr) + P(c).sub

\* d4_find: the search goes down to the first node that is not valid; 0 if none.
Find(q, b) ==
  LET found == {k \in DOMAIN q : /\ q[k].block = b /\ q[k].valid # {}
                                 /\ \A j \in 1 .. k - 1 : q[j].block # b /\ q[j].valid # {}}
  IN IF found = {} THEN 0 ELSE CHOOSE k \in found : TRUE

d4movetotop(q, k) ==
  [j \in DOMAIN q |-> IF j = 1 THEN q[k] ELSE IF j <= k THEN q[j - 1] ELSE q[j]]

d4movetobot(q, k) ==
  [j \in DOMAIN q |-> IF j = Len(q) THEN q[k] ELSE IF j >= k THEN q[j + 1] ELSE q[j]]

\* Mutant: FIFO moves a node that is found to the top, as LRU does.
FifoAsLru(c, q, b, k) ==
  LET new == [d4movetotop(q, Len(q)) EXCEPT ![1].block = b] IN
  IF k # 0 THEN {d4movetotop(q, k)}
  ELSE IF P(c).rep = "random" /\ new[Len(q)].valid # {}
    THEN {d4movetobot(new, j) : j \in 2 .. Len(q)}
    ELSE {new}

\* d4rep_lru, d4rep_fifo, d4rep_random: the stacks a reference to the node at k
\* may leave; k = 0 is a miss, which turns the spare node into the top.
Replacement(c, q, b, k) ==
  LET new == [d4movetotop(q, Len(q)) EXCEPT ![1].block = b] IN
  IF k # 0 THEN {IF P(c).rep = "lru" THEN d4movetotop(q, k) ELSE q}
  ELSE IF P(c).rep = "random" /\ new[Len(q)].valid # {}
    THEN {d4movetobot(new, j) : j \in 2 .. Len(q)}
    ELSE {new}

\* d4_splitm: the part in the first block, and the rest to be done later.
Crosses(c, m) == Block(c, m.addr) # Block(c, m.addr + m.size - 1)

\* Mutant: the first part keeps the size of the whole.
Unshortened(c, m) == m

FirstPart(c, m) ==
  IF Crosses(c, m) THEN [m EXCEPT !.size = P(c).block - (m.addr % P(c).block)] ELSE m

\* Mutant: the rest starts over.
StartsOver(c, m) == IF Crosses(c, m) THEN <<[m EXCEPT !.split = TRUE]>> ELSE <<>>

OtherPart(c, m) ==
  IF Crosses(c, m)
    THEN <<[m EXCEPT !.addr = Block(c, m.addr) + P(c).block, !.split = TRUE,
                     !.size = m.size - (P(c).block - (m.addr % P(c).block))]>>
    ELSE <<>>

\* d4walloc_always, _never, _nofetch.
WriteAllocate(c, m) ==
  \/ P(c).walloc = "always"
  \/ P(c).walloc = "nofetch" /\ m.size = Covering(c, m)

\* d4wback_always, _never, _nofetch.  d4ref has already made the sub-blocks
\* valid when it asks, so the last one always finds them so.
WriteBack(c, m, valid) ==
  \/ P(c).wback = "always"
  \/ P(c).wback = "nofetch" /\ (SubBlocks(c, m) \subseteq valid \/ m.size = Covering(c, m))

\* d4prefetch_none, _always, _loadforw, _subblock, _miss, _tagged; a share of
\* the prefetches may be thrown away (prefetch_abortpercent).
Prefetch(c, m, miss, referenced) ==
  LET to == SubBlock(c, m.addr + P(c).dist)
      home == Block(c, m.addr)
      at == IF P(c).fetch = "subblock" /\ Block(c, to) # home THEN to - P(c).block ELSE to
      wanted ==
        /\ m.type \in {"READ", "INSTRN"} /\ ~m.prefetch
        /\ \/ P(c).fetch \in {"always", "subblock"}
           \/ P(c).fetch = "loadforw" /\ Block(c, m.addr + P(c).dist) = home
           \/ P(c).fetch = "miss" /\ miss
           \/ P(c).fetch = "tagged" /\ (miss \/ SubBlocks(c, m) \cap referenced = {})
      request == <<[Reference(m.type, at, P(c).sub) EXCEPT !.prefetch = TRUE]>>
  IN IF ~wanted THEN {<<>>} ELSE IF P(c).abort THEN {<<>>, request} ELSE {request}

\* The contiguous bunches of dirty sub-blocks of the node at a place.
Bunches(c, node, place) ==
  LET dirty == node.valid \cap node.dirty
      ends == {d + P(c).sub : d \in dirty}
  IN {b \in {[place |-> place, addr |-> a, size |-> e - a] : a \in dirty, e \in ends} :
        /\ b.size > 0 /\ b.addr - P(c).sub \notin dirty /\ b.addr + b.size \notin dirty
        /\ \A x \in Bytes(b) : SubBlock(c, x) \in dirty}

\* The bunch done last is written first: it is on top of what is pending.
Later(x, y) ==
  \/ x.place[1] > y.place[1]
  \/ x.place[1] = y.place[1] /\ x.place[2] > y.place[2]
  \/ x.place = y.place /\ x.addr > y.addr

Writes(bunches) ==
  {[k \in DOMAIN q |-> Reference("WRITE", q[k].addr, q[k].size)] :
     q \in {o \in [1 .. Cardinality(bunches) -> bunches] :
              \A i, j \in DOMAIN o : i < j => Later(o[i], o[j])}}

\* Mutant: every bunch is taken for one sub-block.
OneSubBlock(c, node) == Writes({[b EXCEPT !.size = P(c).sub] : b \in Bunches(c, node, <<0, 0>>)})

\* d4_wbblock: one write for every bunch, the one sequence of them as a set.
d4_wbblock(c, node) == Writes(Bunches(c, node, <<0, 0>>))

-----------------------------------------------------------------------------
\* What D4F_CCC adds to d4ref: the fully associative stack, the infinite cache
\* (d4infcache) and the class of the miss.  With random replacement the stack
\* may take several forms.
FullyAssociative(c, m, allocate) ==
  LET q == stack[c][FullStack(c)]
      k == Find(q, Block(c, m.addr))
      subs == SubBlocks(c, m)
      next == IF k # 0 \/ allocate THEN Replacement(c, q, Block(c, m.addr), k) ELSE {q}
      at == IF k = 0 \/ P(c).rep = "lru" THEN 1 ELSE k
  IN {IF k # 0 THEN [r EXCEPT ![at].valid = @ \cup subs]
      ELSE IF allocate THEN [r EXCEPT ![1].valid = subs, ![Len(q)].valid = {}] ELSE r : r \in next}

\* Mutant: a block hit in the fully associative cache is taken for a hit.
BlockClass(c, m, miss) ==
  LET q == stack[c][FullStack(c)]
      k == Find(q, Block(c, m.addr))
  IN IF ~miss THEN "hit"
     ELSE IF k # 0 THEN "conflict"
     ELSE IF SubBlocks(c, m) \subseteq seen[c] THEN "capacity"
     ELSE "compulsory"

Class(c, m, miss) ==
  LET q == stack[c][FullStack(c)]
      k == Find(q, Block(c, m.addr))
  IN IF ~miss THEN "hit"
     ELSE IF k # 0 /\ SubBlocks(c, m) \subseteq q[k].valid THEN "conflict"
     ELSE IF SubBlocks(c, m) \subseteq seen[c] THEN "capacity"
     ELSE "compulsory"

-----------------------------------------------------------------------------
\* A write brings to c what the cache `from' had; new data if that is c itself.
Moves(c, m, from) ==
  newest' = [a \in Addresses |->
    IF m.type = "WRITE" /\ a \in Bytes(m) /\ from \in {c, newest[a]} THEN c ELSE newest[a]]

\* The main part of d4ref, for reads, writes and instruction fetches.
Access(c, mr, pend, from) ==
  LET b == Block(c, mr.addr)
      m == FirstPart(c, mr)
      s == SetOf(c, m.addr)
      q == stack[c][s]
      n == Len(q)
      k == Find(q, b)
      subs == SubBlocks(c, m)
      blockmiss == k = 0
      miss == blockmiss \/ ~(subs \subseteq q[k].valid)
      write == m.type = "WRITE"
      walloc == write /\ WriteAllocate(c, m)
      update == ~write \/ ~blockmiss \/ walloc
      at == IF blockmiss \/ P(c).rep = "lru" THEN 1 ELSE k
      old == IF blockmiss THEN [Node EXCEPT !.block = b] ELSE q[k]
      wback == update /\ write /\ WriteBack(c, m, old.valid \cup subs)
      node == [old EXCEPT !.valid = @ \cup subs,
                          !.referenced = IF m.prefetch THEN @ ELSE @ \cup subs,
                          !.dirty = IF wback THEN @ \cup subs ELSE @]
      fetch == IF miss /\ (~write \/ (walloc /\ m.size # Covering(c, m)))
                 THEN <<Reference(IF write THEN "READ" ELSE m.type,
                                  SubBlock(c, m.addr), Covering(c, m))>>
                 ELSE <<>>
      through == IF write /\ ~wback THEN <<m>> ELSE <<>>
  IN
  /\ ~(P(c).ro /\ write)
  /\ \E next \in IF update THEN Replacement(c, q, b, k) ELSE {q},
        prefetch \in Prefetch(c, m, miss, IF blockmiss THEN {} ELSE q[k].referenced),
        full \in IF P(c).ccc THEN FullyAssociative(c, m, ~write \/ walloc) ELSE {<<>>} :
       LET replaced == update /\ blockmiss /\ next[n].valid # {}
           mine == IF ~update THEN q
                   ELSE IF replaced
                     THEN [next EXCEPT ![at] = node, ![n].valid = {}, ![n].dirty = {}]
                     ELSE [next EXCEPT ![at] = node]
       IN /\ stack' = [stack EXCEPT ![c] = [t \in Stacks(c) |->
                         IF t = s THEN mine ELSE IF t = FullStack(c) THEN full ELSE @[t]]]
          /\ \E back \in IF replaced THEN d4_wbblock(c, next[n]) ELSE {<<>>} :
               pending' = [pend EXCEPT ![c] =
                             fetch \o through \o back \o prefetch \o OtherPart(c, mr) \o @]
  /\ seen' = [seen EXCEPT ![c] =
                IF P(c).ccc /\ Class(c, m, miss) \in {"capacity", "compulsory"} THEN @ \cup subs ELSE @]
  /\ Moves(c, m, from)
  /\ UNCHANGED conf

\* d4copyback: the dirty parts of one block, or with size 0 of all of them; the
\* same is then asked of the caches downstream.
Touched(c, m, s, node) ==
  /\ s # FullStack(c) /\ node.valid \cap node.dirty # {}
  /\ m.size = 0 \/ node.block = Block(c, m.addr)

d4copyback(c, m, pend) ==
  LET places == {at \in UNION {{s} \X DOMAIN stack[c][s] : s \in Stacks(c)} :
                   Touched(c, m, at[1], stack[c][at[1]][at[2]])}
      bunches == UNION {Bunches(c, stack[c][at[1]][at[2]], at) : at \in places}
  IN
  /\ stack' = [stack EXCEPT ![c] = [s \in Stacks(c) |-> [k \in DOMAIN @[s] |->
                 IF <<s, k>> \in places THEN [@[s][k] EXCEPT !.dirty = {}] ELSE @[s][k]]]]
  /\ \E writes \in Writes(bunches) : pending' = [pend EXCEPT ![c] = writes \o <<m>> \o @]
  /\ UNCHANGED <<conf, seen, newest>>

\* Mutant: an invalidated node stays where it is.
LeftInPlace(q, b) == IF Find(q, b) = 0 THEN q ELSE [q EXCEPT ![Find(q, b)].valid = {}]

\* d4invalidate: without copying back.  One block goes to the bottom of its
\* stacks; with size 0 everything does.
Without(q, b) ==
  IF Find(q, b) = 0 THEN q
  ELSE d4movetobot([q EXCEPT ![Find(q, b)].valid = {}], Find(q, b))

\* All nodes are moved to the bottom in turn, which leaves the old spare on top.
Emptied(q) ==
  LET n == Len(q)
      valid == Cardinality({k \in DOMAIN q : q[k].valid # {}})
  IN [k \in DOMAIN q |-> [q[IF k + valid <= n THEN k + valid ELSE k + valid - n] EXCEPT !.valid = {}]]

\* d4_invinfcache clears lg2blocksize - lg2subblocksize bits for one block.
Log2(n) == CHOOSE k \in 0 .. n : 2 ^ k = n
Forgotten(c, m) ==
  LET b == Block(c, m.addr) IN
  IF m.size = 0 THEN seen[c]
  ELSE {b + k * P(c).sub : k \in 0 .. Log2(P(c).block \div P(c).sub) - 1}

d4invalidate(c, m, pend) ==
  LET b == Block(c, m.addr)
      dropped == {a \in Addresses :
                    /\ newest[a] = c
                    /\ m.size = 0 \/ Block(c, a) = b}
  IN
  /\ stack' = [stack EXCEPT ![c] = [s \in Stacks(c) |->
                 IF m.size = 0 THEN Emptied(@[s])
                 ELSE IF s \in {SetOf(c, m.addr), FullStack(c)} THEN Without(@[s], b) ELSE @[s]]]
  /\ pending' = [pend EXCEPT ![c] = <<m>> \o @]
  /\ seen' = [seen EXCEPT ![c] = IF P(c).ccc THEN @ \ Forgotten(c, m) ELSE @]
  /\ newest' = [a \in Addresses |-> IF a \in dropped THEN Nobody ELSE newest[a]]
  /\ UNCHANGED conf

\* d4ref: m for the cache c, with pend the stacks of pending references.  A
\* reference that reaches the memory is only counted.
d4ref(c, m, pend, from) ==
  \/ /\ c = Mem
     /\ pending' = pend
     /\ Moves(c, m, from)
     /\ UNCHANGED <<conf, stack, seen>>
  \/ c # Mem /\ m.type = "COPYB" /\ d4copyback(c, m, pend)
  \/ c # Mem /\ m.type = "INVAL" /\ d4invalidate(c, m, pend)
  \/ c # Mem /\ m.type \in {"READ", "WRITE", "INSTRN"} /\ Access(c, m, pend, from)

Idle == \A c \in Caches : pending[c] = <<>>

\* d4_dopending: the reference on top goes to the cache itself if it is a
\* prefetch or the rest of a split, downstream otherwise.
d4_dopending(c) ==
  LET m == Head(pending[c])
      to == IF m.prefetch \/ m.split THEN c ELSE P(c).down
  IN /\ pending[c] # <<>>
     /\ \A d \in Caches : pending[d] # <<>> => P(c).cacheid <= P(d).cacheid
     /\ d4ref(to, [m EXCEPT !.split = FALSE], [pending EXCEPT ![c] = Tail(@)], c)
=============================================================================
