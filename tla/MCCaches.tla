------------------------------- MODULE MCCaches -------------------------------
EXTENDS CacheDrivers

CONSTANTS L1i, L1d, L1u, L2

Cache(id, down, block, sub, sets, assoc) ==
  [cacheid |-> id, down |-> down, block |-> block, sub |-> sub, sets |-> sets, assoc |-> assoc,
   rep |-> "lru", fetch |-> "demand", dist |-> 0, abort |-> FALSE,
   walloc |-> "always", wback |-> "always", ro |-> FALSE, ccc |-> FALSE]

Simulator(caches, code, data) ==
  [program |-> "mips_isa", cache |-> caches, ci |-> L1i, cd |-> L1d,
   code |-> code, data |-> data, trace |-> {}, flushcount |-> 0]
Trace(caches, ci, cd, trace, flush) ==
  [program |-> "dineroIV", cache |-> caches, ci |-> ci, cd |-> cd,
   code |-> {}, data |-> {}, trace |-> trace, flushcount |-> flush]

\* The behaviour begin of mips_isa.cpp: two levels, sub-blocks of one byte.
Levels2(sub1, sub2) ==
  L2 :> Cache(2, Mem, 8, sub2, 1, 1) @@ L1i :> Cache(3, L2, 4, sub1, 1, 1)
    @@ L1d :> Cache(4, L2, 4, sub1, 1, 2)

Refs(types, as, sizes) == {Reference(t, a, n) : t \in types, a \in as, n \in sizes}

\* The behaviour begin of mips_isa.cpp.  A word at 7 is in two blocks, and leaves
\* a block at 4 with two bunches of dirty bytes.
Begin == {Simulator(Levels2(1, 1), {0}, {4, 7, 12})}

\* exercicio2: one level, no sub-blocks, FIFO or random replacement.
OneLevel(r) ==
  Trace(L1i :> [Cache(2, Mem, 2, 2, 1, 2) EXCEPT !.rep = r, !.ro = TRUE]
          @@ L1d :> [Cache(3, Mem, 2, 2, 2, 2) EXCEPT !.rep = r],
        L1i, L1d,
        Refs({"INSTRN"}, {0}, {2}) \cup Refs({"READ"}, {4, 8}, {2}) \cup Refs({"WRITE"}, {0, 3}, {2, 1}), 0)

Exercicio2 == {OneLevel("fifo"), OneLevel("random")}

\* Two levels with sub-blocks and a flush after every fourth record.
TwoLevels(w) ==
  Trace(L2 :> Cache(2, Mem, 4, 2, 1, 1) @@ L1i :> [Cache(3, L2, 4, 2, 1, 1) EXCEPT !.ro = TRUE]
          @@ L1d :> [Cache(4, L2, 4, 2, 1, 1) EXCEPT !.wback = w],
        L1i, L1d, Refs({"INSTRN"}, {0}, {2}) \cup Refs({"READ"}, {4}, {2}) \cup Refs({"WRITE"}, {0, 3, 6}, {2}), 4)

Flushed == {TwoLevels("always"), TwoLevels("never")}

\* One unified cache with each of the other policies; the trace invalidates and
\* copies back.
Unified(c, reads, writes) ==
  Trace(L1u :> c, L1u, L1u,
        Refs({"READ"}, reads, {1}) \cup Refs({"WRITE"}, writes, {1, 2})
          \cup Refs({"COPYB", "INVAL"}, {0}, {0, 1}), 0)

Policy(f, abort, walloc, wback) ==
  Unified([Cache(2, Mem, 4, 2, 1, 1) EXCEPT
             !.fetch = f, !.dist = 2, !.abort = abort, !.walloc = walloc, !.wback = wback], {0, 6}, {3})

Policies ==
  {Policy("always", FALSE, "never", "always"), Policy("loadforw", FALSE, "never", "never"),
   Policy("subblock", TRUE, "nofetch", "nofetch"), Policy("miss", FALSE, "nofetch", "never"),
   Policy("tagged", FALSE, "always", "nofetch")}

\* -ccc: with the fully associative and the infinite cache.
Ccc(r, walloc) ==
  Unified([Cache(2, Mem, 2, 1, 2, 1) EXCEPT !.ccc = TRUE, !.rep = r, !.walloc = walloc], {0, 5}, {3})
Classified == {Ccc("lru", "always"), Ccc("fifo", "never")}

MCConfigs == Begin \cup Exercicio2 \cup Flushed \cup Policies \cup Classified
=============================================================================
