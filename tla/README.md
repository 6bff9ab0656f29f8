# Verification of the MC733 platforms and guests

This directory is a TLA+ model of the parts of the repository that have state
shared between processors, with TLC configurations that check the model on
small instances and TLAPS proofs for every value of the constants.

The repository is the course work of MC733 (computer systems laboratory). Two
of its projects are concurrent programs: `exercicio4` and `trabalho3` simulate
several MIPS cores, one memory and a few memory-mapped peripherals in SystemC,
and run bare-metal guests on them that synchronise with nothing but a
test-and-set register and shared words. The cores are the MIPS of ArchC, whose
instructions are written out in `mips_isa.cpp`. `trabalho2` is a sequential
simulator of pipelines, branch predictors and caches, and `exercicio2` runs
traces through caches; both use the library of the Dinero IV simulator. The
other directories hold measurements, scripts and kernels of a few lines.

## 1. Inventory

### Platform (`trabalho3/mips-tlm`, `exercicio4/mips-tlm`)

| part | state | operations | interacts with |
|---|---|---|---|
| cores (`mips/mips_isa.cpp`, `main.cpp`) | `ac_pc`, `npc`, `RB`, `RBF`, `hi`, `lo`, `cc`; "stopped" after `exit` | one instruction, one bus transaction at a time | bus; `exit` stops one core only |
| bus (`bus/bus.cpp`, `bus.h`) | none | `transport` routes a request by address | memory and the peripherals |
| lock peripheral (`peripheral/peripheral.cpp`) | `ultimo_valor_escrito` | `readm` returns the value and leaves 1, `writem` stores | bus |
| memory (`memory/memory.cpp`) | words | read, write | bus |
| floating peripheral (`floating/floating.cpp`) | `fdata1`, `fdata2`, one pair per core | `writem` of two argument registers, `readm` of six results | bus |
| trigonometric peripheral (`trigonometric/`) | one argument per core | `writem`, `readm` of two results | bus |
| complex peripheral (`complex/`) | | | not instantiated |

A guest sees the platform only through loads and stores. The SystemC kernel
switches cores between bus transactions, so two accesses of different cores
interleave freely and one access is atomic. What is hard: a shared word may
change between any two instructions of a core; a lock is a protocol of four
accesses; a peripheral register written by one call is read by a later access.

### Guests

* **Lock functions** (`trabalho3/.../sw/aplicacao.c:167-193`). A two-level
  lock: `AcquireGlobalLock` spins on the register, `AcquireLock` tests and sets
  a word in memory under it, `ReleaseLock` clears the word *without* it.
  Correct when no two cores own one word and some waiting core gets in.
* **Lock macros** (`exercicio4/.../sw/hist.c:19-38`). `SEQUENTIAL` holds the
  register for the whole section; `ATOMIC` waits for a word *while holding the
  register*, which is free of deadlock only because the owner of the word
  clears it without the register.
* **Image DFT** (`aplicacao.c:195-557`). Every core runs `main`: takes an id
  (`getProcID`), core 0 reads the image, the rows are handed out
  (`getProcRow`, `getStartPoint`), then `desloca_origem`, the row pass and the
  column pass of `DFT`, `max_min`, `transforma_intervalo` and, on core 0,
  `writePGM`. Seven counting barriers separate the phases. Correct when the rows
  are partitioned, every phase reads finished data, the file is what one core
  would write, and everybody reaches `exit`.
* **Histogram** (`hist.c:47-159`). The cores read the image from one standard
  input under `ATOMIC(l1)`, each its own rows; partial histograms, a barrier,
  the sum by bins, a barrier, core 1 prints, a barrier. Correct when the rows
  are read in the order of the image and the bins printed are its histogram.
* **Accelerator calls** (`aplicacao.c:80-127`). `add_ac` and its seven siblings
  store their operands and load a result. Correct when the result belongs to
  the operands of the same call.
* Other guests: `hello_world.c`, `mat_quad.c` (the same macros around a matrix
  product), `antiga.c`, `app_single_acc.c` (single-core versions).

### Sequential parts

* **MIPS core** (`trabalho3/mips-tlm/mips/mips_isa.cpp`, the same file in
  `exercicio4`): 145 instruction behaviours. What is hard: two program
  counters that implement delay slots, the address a call links, sign extension
  and rotation by shifts of host integers, words stored in two halves by
  `swl`/`swr`, doubles kept in pairs of registers. Correct when every
  instruction returns what it is for and every path through a branch, a jump or
  a call executes its slot once.
* **Pipelines, predictor** (`trabalho2/mips-2.4.0/mips_isa.cpp`): a history of
  the last instructions, hazard detection for 5, 7 and 13 stages, scalar and
  with two pipelines, static and two-bit predictors. Correct when the cycles
  charged are those `relatorio.md` describes.
* **Caches** (`trabalho2/mips-2.4.0/d4-7/`, `exercicio2/dinero/d4-7/`): Dinero
  IV, a tree of caches with stacks of nodes; `d4ref` executes one reference in
  one cache and puts the consequences (fetches, write-backs, prefetches, the
  other half of a split reference) on a stack of pending references. The
  simulator calls it from its instructions (`doread`, `dowrite`), `cmdmain.c`
  from the records of a trace. Correct when no written byte is lost or
  overtaken, the stacks hold what the replacement policy says, and every
  reference ends.
* `exercicio1` (prime counting), `competicao` (factorisation), `trabalho1`
  (ranking scripts), `exercicio3` (instruction counters).

### Hazards

What is hard to test in this code is listed, line by line, in `PROJECT.json`
under `hazards`, with the properties that would catch it going wrong. The
themes: accesses of different cores in an order nobody ran (the lock words, the
two counters behind the row shares); counters that lose an increment and leave
every core in a barrier; a phase that reads what another core has not finished;
one core that gives up (a file that cannot be opened, a header that does not
fit) while the others wait for it; peripheral registers between two accesses of
one call; in the pipelines, a history that is compared and changed by a
cascade of tests whose order matters; in the caches, references that ask for
others and must neither overtake them nor go on for ever; in the core,
program counters and partial words between two instructions.

## 2. Modules and how they correspond to the code

`PROJECT.json` maps every definition to the lines it stands for. Each module
starts with a comment that says what one action is.

| module | models | state and actions |
|---|---|---|
| `Mutex` | what `AcquireLock`/`ReleaseLock` promise | an owner per lock, taken and given back atomically |
| `SpinLock` | lock peripheral of trabalho3 and the lock functions | `reg` is `ultimo_valor_escrito`, `word` the local words, `at` the line a core is about to execute; one action per memory access |
| `NestedLock` | lock peripheral of exercicio4 and the macros | the same, with `poll` for a core that waits for a word with the register in its hands |
| `Barrier` | what a chain of counting barriers promises | how many barriers each core has arrived at and passed |
| `ImageDFT` | the guest `aplicacao.c` | its globals and locals by name; instantiates `SpinLock` for every `AcquireLock`, so every access inside it interleaves too |
| `Histogram` | the guest `hist.c`, and what `hist-serial.c` counts | its globals and locals by name; instantiates `NestedLock` |
| `Accelerators` | bus address map, both arithmetic peripherals, the `*_ac` functions | argument registers per bank, one action per store or load of a guest |
| `BranchPredictor` | the predictors of `insere_instr` | the two-bit state and the cycles each build has paid on the same outcomes |
| `Pipeline` | `insere_instr`, `update`, `stall` for 5, 7 and 13 stages | the history `p`; beside it a reference schedule (when was each register written) and `debt`, the stalls the reference has charged and the code has not |
| `Superscalar` | `update_superescalar` and the pairing of `insere_instr` | the second history `p2` and `last_inserted`; extends `Pipeline` and its schedule to two instructions a cycle |
| `Dinero` | the library: `d4ref`, the replacement, prefetch and write policies, `d4_dopending`, copy-back and invalidation | a stack of nodes per set, `pending` per cache; one step is one execution of `d4ref`. `newest`, which is not in the code, is the place each byte was last written to |
| `CacheDrivers` | the programs that call the library: the instructions of trabalho2 and the loop of `dineroIV` | `calls`, what the current instruction or record still asks for; extends `Dinero` |
| `MipsCore` | every instruction of `mips_isa.cpp` | the register banks, the two program counters and the memory by name; one action per group of instructions. `started` keeps the state the program began in |

`SpinLockProofs`, `NestedLockProofs`, `BarrierProofs`, `AcceleratorsProofs`,
`ImageDFTProofs`, `HistogramProofs`, `PipelineProofs` (for `Pipeline`,
`Superscalar` and `BranchPredictor`) and `CachesProofs` (for `Dinero` and
`CacheDrivers`) hold the theorems (section 4). The `MC*` modules give the constants their values. `Mutant` operators in the modules are variants of a definition
with a bug (a test dropped, a barrier missing); no specification uses them, they
serve to see that a property notices.

Composition. `ImageDFT` contains `SpinLock` (`Lk == INSTANCE SpinLock`) and
implements `Barrier` (`Phases`); `Histogram` contains `NestedLock` and implements
`Barrier`; `SpinLock` and `NestedLock` implement `Mutex`. The two guests use the
lock modules themselves, not the abstract lock, because waiting cores that keep
writing 1 into the register are part of what could go wrong. `CacheDrivers`
extends `Dinero` by the programs that use it, because some of its promises
(nothing is lost when dineroIV invalidates) hold only in the order in which they
call.

### Abstractions

* Memory is sequentially consistent: one bus, one transaction at a time.
* `x++` on a shared word is a load and a store (`Load`/`Store`,
  `LoadBarrier`/`CountIn`). Work on a row no other core touches in that phase is
  one step; where a core reads other cores' rows (`ReadColumn`, `AddPartial`) or
  the shared `max` and `min` (`Scale`) each read is a step of its own.
* Pixels are the stage their row has reached ("input", "shifted", ...), so that
  an early or repeated read shows as "wrong"; `Level` stands for the magnitudes
  whose extremes `max_min` looks for. Floating-point arithmetic is not modelled.
* In `Accelerators` a float is a member of `Values`, a result is the operation
  with its operands; addresses are the real byte addresses.
* In `Pipeline` the history keeps only the entries `update` reads (3, 4 or 5):
  the shifts move entries towards the end, so the rest never comes back. The
  counters `ciclos_arit`, `ciclos_load` and `ciclos_branch` are one, because
  `end` only adds them up. `ControlRules` and `LoadRules` are the else-if chains
  as tables; for 13 stages the four ifs in a row are a chain too, because the
  stall of one leaves bubbles for the later ones to meet. An instruction is
  followed by its delay slot, so two branches are never adjacent.
* In `Superscalar` a rule is a set of places in the two histories that it
  compares and the bubbles it puts behind each; the chains of
  `update_superescalar` are tables of such rules in the order of the code. The
  reference executes a pair in one cycle: both wait together for older
  instructions, and the first goes ahead only where the second waits for it.
  `Unlike` lists what the code is known to charge otherwise: a load beside the
  arithmetic it reads is not compared, -1 may equal -1, and a load that the
  second of its own pair overwrites is still waited for.
* An instruction of `Program` is what its behaviour tells `insere_instr` (a type,
  two sources and a destination) and what it really reads and writes (`uses`,
  `writes`). The history and the rules go by the first, the reference schedule by
  the second. `ToldAssumption` says how far the two are apart in
  `mips_isa.cpp`: `mult`, `div`, `mthi` and their siblings write hi and lo and
  `mfhi`, `mflo` read them without a word (1504-1578); `jal`, `bltzal` and
  `bgezal` write `$31` and do not tell it (1607, 1744, 1761); `lwl` and `lwr` keep
  a part of the register they load and do not tell that they read it; `addi` and
  its siblings tell their destination as a source too (1261). hi and lo are
  registers like the others (`HiLo`). `hidden` are the registers whose last writer
  has not told so; `debt` counts the hazards of which both instructions tell, and
  `unseen` says whether there were others.
* In `Dinero` no data are simulated, as in the code. The hash table of the long
  stacks finds the node the linear search finds, so there is one search; random
  replacement is any node. The counters of fetches and misses are left out, but
  not the class of a miss, which the fully associative and the infinite cache
  decide.
* `MipsCore` has words of four bytes of `ByteBits` bits each, and derives from it
  every constant of the code that depends on the width. A shift by the width of
  the word, which C++ leaves undefined, may return the operand or 0. The
  arithmetic on floating-point numbers is an operator of the host (`Host`) whose
  result no property looks into; system calls are ArchC's, of which the registers
  they leave are modelled, but neither what they write into memory nor `exit`.
* In `ImageDFT` the program has its two arguments (it exits otherwise,
  `aplicacao.c:474`) and an image that fits its matrices of 100 rows (133, 142),
  which the code does not check. In `CacheDrivers` the records of type D4XMISC,
  which `d4ref` treats as reads without prefetch, are left out.
* The status a `transport` returns is left out: the guests never see it.

## 3. What is checked

| run | instance | what it shows |
|---|---|---|
| `spin_lock` | 3 cores, 2 locks | `LockInv`, `SomebodyEnters`, refinement of `Mutex` |
| `nested_lock` | 3 cores, 2 words and the register | the same for the macros |
| `image_two_cores` | 2 cores, 3 rows, files that open or do not | the output is the serial one, nobody exits before it is written, refinement of `Barrier`, `Termination`, and what happens when a file cannot be opened |
| `image_three_cores` | 3 cores, 5 rows, cores interchangeable | rows partitioned and balanced where two cores take a left-over row and a third races them; the output; no two cores more than one barrier apart |
| `histogram` | 3 cores, six headers, the register free or taken at power-on | rows read in order, the bins printed, refinement of `Barrier`, `Termination`, and what a rejected header or a taken register does |
| `accelerators` | 2 cores, every operation | every call returns its own result |
| `branch_predictors` | every sequence of 20 outcomes | the two-bit build against the static ones |
| `pipelines` | 20 instructions with 5 stages, 11 with 13, 8 with two pipelines, over 3 registers and hi, programs of any length | with 5 stages the charge is exactly that of the report (`FiveStagesExact`); with 5 and 13, what is told is never charged too little (`ToldHazardsCharged`); with two pipelines the charge is exact between arithmetic, stores and loads (`PairsExact`), and never less than half with branches (`AtLeastHalf`) |
| `caches` | 12 trees of one to three caches | the valid nodes come first (`ValidFirst`), no write is lost or overtaken (`NewestHeld`, `NothingStale`, `FlushKeepsWrites`), the stacks follow their policy (`PolicyKept`), a block is compulsory once (`CachedIsSeen`), every reference ends (`RecursionEnds`) |
| `mips_core` | 38,025 initial states: programs of one to eight instructions with their registers and memory | `ResultsExact`, `UnalignedCopies`, `DoublesCopied`, `SlotsAndReturns` |

Two further runs end in a violation; each states what a document of the
repository says and the code does not do:

| run | what disagrees |
|---|---|
| `histogram_serial` | `hist-serial.c` reads `w` rows, not `h`: for a tall image it prints other bins than `hist.c`, although the README calls the two the same program |
| `pipeline_7_loads` | two instructions in a row that use a load cost 1 cycle in all; the report says 2 for the first alone |

Seen while modelling, and without a run of their own:

* `addi` and its siblings are compared as if they read their destination
  (`trabalho2/mips-2.4.0/mips_isa.cpp:1261`), so that one which overwrites a load
  is charged a stall too many. Never one too few: `ToldHazardsCharged` runs with
  such an instruction (`addi` of `MCPipeline`); `FiveStagesExact` is about
  programs without.
* With 13 stages the report stalls every kind of dependent instruction
  (`relatorio.md:145`), but `mflo` behind `mult` is charged none of its four
  stalls: neither tells `insere_instr` of hi and lo (1504, 1570). Nor is a reader
  of `$31` behind `bltzal` or `bgezal` stalled (1744, 1761), nor, in any build,
  `lwl` or `lwr` for the register it keeps a part of. `ToldHazardsCharged` does
  not count these hazards; `FiveStagesExact`, `PairsExact` and `AtLeastHalf` are
  about programs without `lwl` and `lwr`. `mult`, `mflo` and a call
  are among the instructions of every build in the run.
* In the build with two pipelines a jump in `p2` is compared with the load at
  `p[2]` by the register of the instruction beside it, `p[0].rs`
  (`mips_isa.cpp:626`). `DualControlRules` does the same, and `AtLeastHalf` bounds
  what is lost by it.
* With 7 stages an arithmetic instruction before a branch costs 1 cycle
  (`mips_isa.cpp:338`); `trabalho2/relatorio.md:135` says one more than with 5.
* With 13 stages `stall(1, 3)` puts the bubbles behind the wrong instruction
  (`mips_isa.cpp:391`), so that a resolved dependency is charged again.
* The simulator asks Dinero for sub-blocks of one byte
  (`mips_isa.cpp:1021`), so that a miss brings the four bytes asked for and not
  the block whose size the miss rates of the report are given by.
* `d4wback_nofetch` looks at the valid bits after `d4ref` has set them
  (`d4-7/ref.c:471`): it always says write-back.
* `writem` of the floating peripheral falls off its end for its two argument
  registers (`trabalho3/mips-tlm/floating/floating.cpp:57`), where its comment
  promises SUCCESS.
* The peripheral of exercicio4 never initialises its register
  (`exercicio4/mips-tlm/peripheral/peripheral.cpp:13`): `histogram` therefore
  starts it at 0 and at 1, and `PowerOnTakenBlocksAll` says that from 1 no core
  ever enters a section. `Termination` is promised from 0 only.
* In `trabalho3/mips-tlm/mips/mips_isa.cpp`, as modelled: the overflow test of
  `add` compares the wrong signs (686); `addi` into its own source never sees an
  overflow (606); `movz.d` and `movz.s` move when the register is *not* zero
  (1199); `neg.d` and `neg.s` read `rt` (426); `c.ueq`, `c.ule` and `c.ult` are
  false on a NaN (277); `bc1fl` and `bc1tl` execute the slot they should annul
  (496); `sc` always succeeds (1158); `lwr` and `swl` shift by the width of the
  word at one address of four (158, 585).

### Bounds, and why they are enough

Three cores are the least with which a core that waits, one that owns a lock and
one that races for the register exist at once; two locks show that the register
is shared by all and the words are not. In `ImageDFT` the behaviours depend on
how rows divide among cores: 3 rows for 2 cores and 5 for 3 leave a remainder
(1 and 2), so that the first core to ask, which takes none of the rest, is
distinguished from the others. The levels put both extremes off the first and
last row and contain a tie; `Highest` is any number above them. In `Histogram`
the headers are: shares that do not divide, fewer rows than cores, no rows, more
bins than cores and fewer, and one that each limit rejects; the pixels saturate
at both ends.

In `Pipeline` a rule compares an instruction with one at most 4 before it,
through one register of a pair, so three registers suffice for a dependency, an
unrelated write and a base that is never written. `MaxDebt` only stops a program
after the code has been wrong by that many cycles, and never binds with five
stages; `MaxLead` stops the comparison of the two pipelines where the code is
that far ahead of half the schedule.

In `caches` blocks have 1 to 8 bytes, sets one or two nodes (two or three on the
stack), and a program touches the addresses at which references cross blocks,
evict each other and meet again in the larger cache; every value of every policy
option occurs in one of the trees. A word has two bytes (`WordSize`), so that it
can lie across two blocks. No bound is needed: the model keeps no counter that
grows.

In `mips_core` a byte has 2 bits, a word 8: the 22 values are those around 0, the
sign bit, the largest numbers and the powers of 2 at which `clz` and the rotations
change. `MaxSteps` ends a program that jumps to itself; the marked programs take
at most 10 steps.

`CHECK_DEADLOCK FALSE` stands where the system stops: guests exit or hang by
design, a chain of barriers ends, and bounded runs reach their bound. In
`caches` a program that has ended says so, and deadlock is checked.

### Fairness

`FairSpec` and `FairLockSpec` assume weak fairness of each core's steps inside
the lock code and the guests. It is what the SystemC kernel provides: every core
that has not called `exit` gets its quantum again and again, and a core never
stops on its own in the middle of a program. No strong fairness is assumed: a
particular core may lose every race for a lock (`SomebodyEnters` promises only
that some core gets in), and still both guests terminate, because each acquires
each lock a bounded number of times. Nothing obliges a core to call
`AcquireLock` in `SpinLock` and `NestedLock`.

## 4. What is proved

The theorems hold for every value of the constants that satisfies the named
assumptions.

* `LockSafety` (`SpinLockProofs`): `LockSpec => []LockInv`, any number of cores
  and locks, the register powered on at 0 or 1. `LockInv` is inductive as it
  stands because it says both what the register tells about its owner
  (`RegisterTellsOwner`: it reads 0 only when nobody holds it) and what a word
  tells about its owner (`WordTellsOwner`). Mutual exclusion alone is not
  inductive: that `SetLocal` keeps it needs the word to be still 0, and that the
  word is still 0 needs `RegisterMutex`. `ReleaseLock`, which clears a word without the
  register, is harmless because the core in `set` found the word 0 and so has no
  owner to be released by.
* `LockRefinesMutex`: the same code implements the atomic lock. A step of the
  register is a stutter of `Mutex`; `SetLocal` is the acquisition.
* `NestedLockSafety` (`NestedLockProofs`): the same invariant for the macros,
  where a core may hold the register as an end in itself.
* `NestedLockRefinesMutex`: the macros implement one atomic lock per word and one
  for all `SEQUENTIAL` sections. The read that finds the register 0 acquires the
  latter (`RegisterTellsOwner`: nobody is in such a section), `SetLocal` the
  former (`WordTellsOwner`: the word is still 0); every other access stutters.
* `BarrierLockstep` (`BarrierProofs`): a chain of barriers of any length keeps
  any number of cores within one phase.
* The image guest, for any number of cores and rows and any spectrum
  (`ImageDFTProofs`), in three layers, each of which uses the one before:
  * The barriers. `GuestSafety` (`Spec => []GuestInv`) carries `LockInv` of
    `SpinLock` over to the guest and adds where in the lock code a core is when
    it is at each line of `main` (`LineFits`), and that each barrier word is the
    number of cores that have counted themselves in (`BarrierCounts`). The count
    is not inductive alone: that `barrierN++` loses nothing needs the word a
    core has loaded to be still there when it stores, which needs the lock.
    From it follow `ImageRefinesBarriers` (the seven counters implement
    `Barrier`: `CountIn` arrives, `PassBarrier` passes, everything else
    stutters) and, through `BarrierLockstep`, `ImageLockstep`.
  * The rows. `RowsInv` counts: the ids given out are as many as the
    cores that have one (`IdsCounted`); the rows left over, plus the cores that
    took one, make the remainder of the division, and while rows are left all
    cores but the first took one (`RestCounted`); `startPoint` is what the shares
    placed so far add up to, and they fill the rows before it without overlap
    (`SharesPlaced`). When all cores have their share this is the whole image,
    because Rows = Quotient * N + Remainder: `ImageRowsPartitioned`,
    `ImageSharesBalanced`. That every core divides by the full count needs
    `barrier6`, hence the first layer.
  * The output. `DataInv` gives every row of every core a progress from
    0 to 6 that is a function of where the core is and of its row index, and says
    what the data of the row are at each (`RowFits`). A row that another core
    reads was written by its owner, whose progress the lockstep bounds from
    below, and exists because the shares cover the image: both earlier layers are
    needed for `RowSpectrumFinished` (the column phase reads no unfinished row of
    `P`), `ExtremesFinished` (nobody scales before all extremes are merged) and
    `PixelsSerial`. `ImageOutputSerial`, `ImageExitAfterOutput` and `ImageTypes`
    (type correctness with the tight bounds of `TypeOK`) follow.
* `AcceleratorSafety` (`AcceleratorsProofs`): for any number of cores every
  accelerator call returns its own operation on its own operands. Its lemmas
  show that the address a guest computes is routed to the peripheral and the
  bank it means, for every core and register, given that guest and platform are
  compiled with the same number of cores (`SameConfiguration`, which
  `trabalho3/relatorio.md` asks for). The invariant is `BankHoldsOperands`: what
  the bank contains between the stores and the load.
* `TwoBitsBound` (`PipelineProofs`): for every penalty and any number of
  branches the two-bit build pays at most twice what the better static build
  pays, plus two mispredictions. `PredictorInv` adds what makes it inductive:
  the state of the machine counts the outcomes that brought it there.
* The histogram, for any number of cores above one, any image that is read and
  any limits, the register powered on at 0 or 1 (`HistogramProofs`), in three
  layers like the image guest:
  * `HistogramSafety` (`Spec => []GuestInv`): the invariant of the macros inside
    the guest, at which line of a macro a core is when it is at each line of
    `main`, and that each counter is the number of cores that have counted
    themselves in. Unlike the image guest, which counts under a lock word, this
    one counts with the register in its hands, so the step that loses nothing is
    `CountIn` between two accesses of the register. From it follow
    `HistogramRefinesBarriers` and, through `BarrierLockstep`,
    `HistogramLockstep`.
  * `HistogramRows`: `ReaderInv` says that the ids are given out in order, each
    to one core (`IdsGiven`), that between two turns at l1 the next row on the
    standard input is the first of the next id, and that the rows consumed are the
    first ones of `img` (`RowsTaken`). A core reads from `id * h / N` to
    `(id + 1) * h / N`, rounded down, so the shares meet without gap whether or not
    N divides h.
  * `HistogramPrinted`: `HistInv` says that the partial histogram of a core
    counts its rows up to the one it is at (`OwnRows`), that the bin a core is
    adding up holds what the shares added so far contain, that the bins of a core
    below the one it is at are those of the image (`OwnBins`), and that what
    core 1 has printed are finished bins (`PrintedFits`). That no bin is read
    before it is complete is `HistogramLockstep`; that the shares of all cores make
    up the image is `HistogramRows`. How often a value occurs is a cardinality
    (`Tally`) and not a recursive sum, so that it can be split by rows without
    induction.
  * `HistogramPowerOn`: with the register at 1 when the simulator starts, no core
    ever leaves the first line of its first section.
* The pipelines, for any registers and any program that satisfies
  `ToldAssumption`, of any length (`PipelineProofs`):
  * `FiveStagesCharge`: with 5 stages the debt is exactly `Pending`, and the
    schedule asks for nothing that is not told. `FiveInv`
    ties the two newest entries of the history to the ages the schedule keeps: what
    the schedule can still ask for is where the rules look for it (`FiveKnown`), and
    what they find there the schedule asks for (`FiveSeen`), also after the late
    bubble has gone behind the second instruction (`Due`). What mult, mflo and the
    calls do not tell costs nothing here, because nobody waits for it
    (`NeverAwaited`). It needs `Honest`: every instruction of the program reads what
    it tells (`addi` does not), and a load tells what it reads (`lwl` does not).
  * `HazardsCharged`: with 5 and 13 stages, no hazard of which both instructions
    tell is charged too little, for any program. With 13, by a potential argument.
    `Tracked` says that the writer of every register is in the history at
    most as far back as in the schedule, plus what the code has already
    overcharged (`-debt`): every bubble that goes behind the wrong
    instruction was paid for. With this every comparison the schedule needs is one
    the code makes, or its cycles are in the debt already.
  * `PairsCharge`: with two pipelines, between arithmetic, stores and loads.
    `PairUpdate` says what the cascade of five chains charges a pair and
    what it leaves of it (`PairCycles`, which no longer mentions bubbles or
    positions); `PairInv` says which registers the schedule still waits for, in
    terms of the newest pair (`Loaded`), after the first (`FirstIn`) and after
    the second (`SecondIn`) of a pair. `OlderMeans` is where the two meet: a pair
    that was split left a bubble in the place of its first, and the schedule has
    let that first go ahead. It needs `Honest` too. A `mflo` beside its `mult` is
    charged, because there -1 equals -1 (`PairWrites`).
* The caches, for any trees of caches, any sets, associativity, policies and
  block sizes `d4setup` accepts, and any program or trace (`CachesProofs`):
  * `CachesTyped`, `ValidNodesFirst`, `CachedSeen`. `CachesInv` (`Spec =>
    []CachesInv`) says of every cache (`CacheInv`) that each stack holds nodes of its own
    set, the valid ones first, none twice (`StackInv`), that what is pending are
    references to whole sub-blocks, what the cache passes on, or the rest of what it
    cut at a block (`Asked`), and that the infinite cache has seen what the
    other two hold. The steps of the library are taken apart from below: what
    `d4movetotop` and `d4movetobot` do to a stack (`TopFacts`, `BotFacts`), a
    hit and a miss under each replacement policy (`HitFacts`, `MissFacts`), an
    invalidation of one block and of all (`WithoutFacts`, `EmptiedFacts`), the write-backs
    of a node (`BunchesCover`: the bunches are its dirty sub-blocks and nothing
    else), and then `Access`, `d4copyback` and `d4invalidate` as a whole. Each
    of the three has the same `Effect` on the cache it is handed to, so that the
    invariant of the tree (`EffectInv`) is proved once.
  * `NewestBytesHeld`. Beside `CachesInv`, `HeldAll` says that the newest bytes of
    a cache are in a dirty sub-block or in a write on its stack of pending
    references. `Effect` says that a step at a cache gives up a dirty byte only with a
    write it asks for, and takes every byte of a write that is within one block;
    `Taken` says which byte a stack of pending references may lose: one of the
    write that is handed to the cache downstream, which lies in one of its blocks
    (`NestedBlock`). The theorem needs `Nested`: the block downstream is a whole
    number of blocks. `d4setup` does not ask for that; without it a write-back
    crosses a block downstream, and the second part waits on the stack of the cache
    downstream while the byte still belongs to the one above.
  * `RecursionDescends`: every step has `RecursionEnds`. What makes it inductive is
    `Calm`: a prefetch that waits is a read of one sub-block, so it never crosses a
    block and leaves no rest (`PrefetchFacts`, also where `d4prefetch_subblock` wraps
    around the end of a block), and a prefetch asks for no prefetch. `Lower` says
    of every list of requests that what in it is for the cache itself ranks below the
    reference that asked. A reference that goes downstream finds nothing pending
    there (`TakenCalm`), because the cache with the lowest number is served first.
  * `PoliciesKept`: every step has `FollowsPolicy`, also of the fully associative stack
    that classifies misses. The valid nodes of a stack are its first ones
    (`Occupied`), so that its blocks in order (`Residents`) say what the policy
    describes, without the spare node and the invalid ones. `SlidFacts` says what moving
    nodes does to that list, and `PolicyReplaced` that a hit and a miss are
    such moves: a hit under LRU takes the place of the block itself, a miss that of
    none, of the last one or, with random replacement, of any.
  * `FlushesKeepWrites` (`FlushInv`). What a program writes passes only through
    the data cache and the caches downstream of it (`Path`), which are numbered one
    below the other. While a copy-back of everything goes down this path, one cache
    on it is the last that may have newer bytes (`Copying`): what it has still to
    write stands before the copy-back it asks for downstream, and nothing newer is above it.
    When nothing is pending, `Settled` leaves only that the writes are in the
    memory. `CopiedFirst` is what the order of dineroIV's calls gives: every invalidation
    of everything comes after such a copy-back with no write between the two, and so does
    the end. It needs `Nested`, as `NewestBytesHeld` does.
  * `NothingWrittenStale` (`StaleInv`). A cache has a byte to write at most once: it is dirty
    or it is in one write on the cache's stack, never both, and not at all if
    its writes go through (`Tidy`). With this the bytes a cache passes on are the newest of
    those above it, and leave nothing older behind them (`Exact`, `Arrives`). Needed
    besides: what is still split is in the data cache only (`SplitsAtTop`), because a
    write-back that crosses a block downstream would leave its second part to race with the cache
    above. It needs `Nested`, and `Bytewise`: a cache that keeps track of single bytes is
    below caches that do too. With larger sub-blocks above, a write-back brings
    bytes nobody wrote there. The simulator has sub-blocks of one byte everywhere.

The assumptions on the caches are what `d4new` and `d4setup` make of their
arguments: `CachesAssumption` (sub-blocks divide blocks, by a power of two; at
least one set and one node in it; no more than the 32 sub-blocks in a block for which a
node has bits, `d4.h:128`, which `d4setup` does not check), `TreeAssumption` (addresses are unsigned, no
two caches have the same number, and a cache is numbered after the one downstream of
it) and `ProgramsAssumption` (the caches
a program names are in the tree; every record of a trace but an invalidation or a
copy-back has bytes).

The other assumptions are those named in the modules: as many cores as `NUM_PROCS`
(`CoresAssumption`), a whole number of rows and a core at least
(`RowsAssumption`), levels between the two extremes main starts `max_min` with
(`LevelAssumption`).

## 5. What is only model-checked, and what is not modelled

Liveness (`SomebodyEnters`, `Termination`, `FailureStrandsTheOthers`,
`RejectedHeaderBlocksAll`), `AtLeastHalf` (two pipelines with
branches), and the MIPS
core are checked on the instances above. TLAPS
cannot prove liveness under fairness, ENABLED, or induction over data; `MipsCore`
uses `Bitwise`, which a module with theorems cannot. `AtLeastHalf` adds up, over
the whole program, what the code charges too much and too little: an inductive invariant
would have to say of every way in which a branch puts the two histories
out of step with the registers how much the code is ahead already. TLC goes
through all of these states for the registers of its run; we have found no
description of them short enough for a proof. `FollowsPolicy` says nothing of an
invalidation, which `ValidFirst` and `CachedIsSeen` cover.

Not modelled: the decoder and the SystemC kernel (generated by ArchC; the
modules assume that a core executes in order, one bus transaction at a time);
memory endianness; floating-point values; the complex peripheral (not
instantiated); the other guests of exercicio4, which are the same macros around
other arithmetic; the serial image programs; of Dinero the options, trace formats
and statistics, which are input and output; the counters and totals of the
pipeline simulator; the measurement scripts and kernels of exercicio1,
exercicio3, trabalho1 and competicao, which keep no state across steps worth a
model. Most of the lines of the repository are none of these but programs that
were measured (SUSAN, the JPEG library and SHA of exercicio3),
second and third copies of Dinero and of `mips_isa.cpp`, and generated code: they
are data of the experiments, not the system. `PROJECT.json` lists each part with
its reason.

## 6. Plan

Done, in this order: locks and their promise; barriers; the image guest; the
histogram; the accelerators; the predictors and the scalar pipelines; the build
with two pipelines; the cache library and its two programs; the MIPS core; the
safety of the image guest proved for every number of cores and rows.

Next, to extend the model:

1. `mat_quad.c` and `hello_world.c` over `NestedLock`;
2. the counters of `d4ref` (fetches and misses by class) and the identities
   between them that the statistics of dineroIV rely on;
3. the accelerators behind the phases of the image guest that call them.

Next, to prove: `AtLeastHalf`, which needs a bound on what the histories lose after
a branch; and of the MIPS core what does not depend on single bits, once the
instructions that do are in a module of their own.
