------------------------------ MODULE Histogram ------------------------------
(***************************************************************************)
(* The parallel histogram of hist.c on the four-core platform: the cores   *)
(* read the image from one standard input under ATOMIC(l1), count their    *)
(* own rows, add up the partial histograms bin by bin, and core 1 prints.  *)
(*                                                                         *)
(* One action is one access to a word another core may touch, or the work  *)
(* on one row or bin that no other core touches in that phase.             *)
(***************************************************************************)
EXTENDS Integers, Sequences, FiniteSets

CONSTANTS
  Procs,              \* the cores
  NumProcs,           \* NUM_PROCS
  Headers,            \* the first three numbers of the input: [w, h, max]
  Image,              \* the pixels that follow, by row and column
  MaxBin, MaxH, MaxW, \* MAX_BIN, MAX_H, MAX_W
  PowerOn             \* what the lock register may hold at power-on

ASSUME ProcsAssumption == IsFiniteSet(Procs) /\ NumProcs = Cardinality(Procs) /\ NumProcs > 1
ASSUME HeadersAssumption ==
  \A hd \in Headers :
    /\ hd.w \in Nat /\ hd.h \in Nat /\ hd.max \in Nat
    /\ \A r \in 0 .. hd.h - 1, col \in 0 .. hd.w - 1 : Image[r][col] \in Int
ASSUME LimitsAssumption == MaxBin \in Nat /\ MaxH \in Nat /\ MaxW \in Nat
ASSUME PowerOnAssumption == PowerOn \subseteq {0, 1}

Locks == {"l1", "l3"}

VARIABLES
  reg, word, at, want,     \* the lock hardware and macros
  header,                  \* the header on the standard input
  stage, line,             \* where in main a core is
  tmp,                     \* value of the barrier word loaded last
  my_id, my_start, my_end, \* locals of main
  i, j,                    \* loop indices
  next_id, barreira,       \* p and barreira[0..2]
  w, h, d,                 \* the shared header
  stdin,                   \* rows consumed from the standard input
  img,                     \* for each row of img, the input row it holds
  hist,                    \* hist[0..NUM_PROCS][0..MAX_BIN-1]
  printed                  \* the bins printed

lockState == <<reg, word, at, want>>
control == <<stage, line>>
locals == <<tmp, my_id, my_start, my_end, i, j>>
shared == <<next_id, barreira, w, h, d>>
data == <<stdin, img, hist, printed>>
vars == <<lockState, header, control, locals, shared, data>>

Lk == INSTANCE NestedLock WITH Global <- "global", NoLock <- "none"

Unread == -1
BinIndex == 0 .. MaxBin - 1

Init ==
  /\ Lk!LockInit
  /\ header \in Headers
  /\ stage = [c \in Procs |-> "read"]
  /\ line = [c \in Procs |-> "call"]
  /\ tmp = [c \in Procs |-> 0]
  /\ my_id = [c \in Procs |-> -1]
  /\ my_start = [c \in Procs |-> 0]
  /\ my_end = [c \in Procs |-> 0]
  /\ i = [c \in Procs |-> 0]
  /\ j = [c \in Procs |-> 0]
  /\ next_id = 0
  /\ barreira = [k \in 0 .. 2 |-> 0]
  /\ w = 0 /\ h = 0 /\ d = 0
  /\ stdin = 0
  /\ img = [r \in 0 .. MaxH - 1 |-> Unread]
  /\ hist = [k \in 0 .. NumProcs |-> [b \in BinIndex |-> 0]]
  /\ printed = <<>>

At(c, s, l) == stage[c] = s /\ line[c] = l
GoTo(c, s, l) ==
  /\ stage' = [stage EXCEPT ![c] = s]
  /\ line' = [line EXCEPT ![c] = l]
Line(c, from, to) ==
  /\ line[c] = from
  /\ line' = [line EXCEPT ![c] = to]
  /\ UNCHANGED stage

-----------------------------------------------------------------------------
(* Sections: read is ATOMIC(l1), print is ATOMIC(l3), barrier0 .. barrier2  *)
(* are SEQUENTIAL.                                                          *)

Barriers == {"barrier0", "barrier1", "barrier2"}
BarrierOf(s) == IF s = "barrier0" THEN 0 ELSE IF s = "barrier1" THEN 1 ELSE 2

LockOf(s) == IF s = "read" THEN "l1" ELSE IF s = "print" THEN "l3" ELSE "global"

\* What comes after a barrier.
Behind(s) == IF s = "barrier0" THEN "sum" ELSE IF s = "barrier1" THEN "print" ELSE "exit"
Entry(s) == IF s = "barrier0" THEN "bin" ELSE IF s = "barrier1" THEN "call" ELSE "stopped"

EnterSection(c) ==
  /\ stage[c] \in Barriers \cup {"read", "print"}
  /\ Line(c, "call", "begin")
  /\ Lk!Call(c, LockOf(stage[c]))
  /\ UNCHANGED <<header, locals, shared, data>>

InsideMacro(c) ==
  /\ Lk!EnterStep(c)
  /\ UNCHANGED <<header, control, locals, shared, data>>

LeaveSection(c) ==
  LET s == stage[c]
  IN
  /\ line[c] = "leave"
  /\ Lk!Leave(c)
  /\ \/ s = "read" /\ GoTo(c, "partial", "zero")
     \/ s = "print" /\ GoTo(c, "barrier2", "call")
     \/ s \in Barriers /\ GoTo(c, s, "wait")
  /\ UNCHANGED <<header, locals, shared, data>>

\* Mutant: barreira[k]++ starts before SEQUENTIAL is entered.
LoadBarrierEarly(c) ==
  /\ stage[c] \in Barriers
  /\ Line(c, "begin", "store")
  /\ tmp' = [tmp EXCEPT ![c] = barreira[BarrierOf(stage[c])]]
  /\ UNCHANGED <<lockState, header, my_id, my_start, my_end, i, j, shared, data>>

\* barreira[k]++ in a SEQUENTIAL section: load and store.
LoadBarrier(c) ==
  /\ stage[c] \in Barriers
  /\ at[c] = "in"
  /\ Line(c, "begin", "store")
  /\ tmp' = [tmp EXCEPT ![c] = barreira[BarrierOf(stage[c])]]
  /\ UNCHANGED <<lockState, header, my_id, my_start, my_end, i, j, shared, data>>

CountIn(c) ==
  /\ stage[c] \in Barriers
  /\ Line(c, "store", "leave")
  /\ barreira' = [barreira EXCEPT ![BarrierOf(stage[c])] = tmp[c] + 1]
  /\ tmp' = [tmp EXCEPT ![c] = 0]
  /\ UNCHANGED <<lockState, header, my_id, my_start, my_end, i, j, next_id, w, h, d, data>>

\* Mutant: the last core is not waited for.
PassBarrierEarly(c) ==
  LET s == stage[c]
  IN
  /\ s \in Barriers
  /\ line[c] = "wait"
  /\ barreira[BarrierOf(s)] >= NumProcs - 1
  /\ GoTo(c, Behind(s), Entry(s))
  /\ i' = [i EXCEPT ![c] = my_id[c]]
  /\ j' = [j EXCEPT ![c] = 0]
  /\ UNCHANGED <<lockState, header, tmp, my_id, my_start, my_end, shared, data>>

\* while (barreira[k] < NUM_PROCS);
PassBarrier(c) ==
  LET s == stage[c]
  IN
  /\ s \in Barriers
  /\ line[c] = "wait"
  /\ barreira[BarrierOf(s)] >= NumProcs
  /\ GoTo(c, Behind(s), Entry(s))
  /\ i' = [i EXCEPT ![c] = my_id[c]]
  /\ j' = [j EXCEPT ![c] = 0]
  /\ UNCHANGED <<lockState, header, tmp, my_id, my_start, my_end, shared, data>>

-----------------------------------------------------------------------------
(* Part 1: ATOMIC(l1) -- identify, read the header if first, read the rows. *)

\* Mutant: the id is taken before ATOMIC(l1) is entered.
IdentifyEarly(c) ==
  /\ stage[c] = "read"
  /\ Line(c, "begin", "count")
  /\ my_id' = [my_id EXCEPT ![c] = next_id]
  /\ UNCHANGED <<lockState, header, tmp, my_start, my_end, i, j, shared, data>>

\* my_id = p
Identify(c) ==
  /\ stage[c] = "read"
  /\ at[c] = "in"
  /\ Line(c, "begin", "count")
  /\ my_id' = [my_id EXCEPT ![c] = next_id]
  /\ UNCHANGED <<lockState, header, tmp, my_start, my_end, i, j, shared, data>>

CountSelf(c) ==
  /\ stage[c] = "read"
  /\ Line(c, "count", IF my_id[c] = 0 THEN "header" ELSE "share")
  /\ next_id' = next_id + 1
  /\ UNCHANGED <<lockState, header, locals, barreira, w, h, d, data>>

ReadHeader(c) ==
  /\ stage[c] = "read"
  /\ Line(c, "header", "check")
  /\ w' = header.w /\ h' = header.h /\ d' = header.max + 1
  /\ UNCHANGED <<lockState, header, locals, next_id, barreira, data>>

\* Mutant: the width is not checked.
TooTall == d > MaxBin \/ h > MaxH

TooBig == d > MaxBin \/ h > MaxH \/ w > MaxW

HeaderOK(c) ==
  /\ stage[c] = "read"
  /\ Line(c, "check", "share")
  /\ ~TooBig
  /\ UNCHANGED <<lockState, header, locals, shared, data>>

\* exit(0) in the middle of ATOMIC(l1): the core stops, l1 stays 1.
HeaderTooBig(c) ==
  /\ At(c, "read", "check")
  /\ TooBig
  /\ GoTo(c, "exit_bad_header", "stopped")
  /\ UNCHANGED <<lockState, header, locals, shared, data>>

\* my_id*h/NUM_PROCS
StartOf(id) == (id * h) \div NumProcs

TakeShare(c) ==
  /\ stage[c] = "read"
  /\ Line(c, "share", "rows")
  /\ my_start' = [my_start EXCEPT ![c] = StartOf(my_id[c])]
  /\ my_end' = [my_end EXCEPT ![c] = StartOf(my_id[c] + 1)]
  /\ i' = [i EXCEPT ![c] = StartOf(my_id[c])]
  /\ UNCHANGED <<lockState, header, tmp, my_id, j, shared, data>>

ReadRow(c) ==
  /\ At(c, "read", "rows")
  /\ i[c] < my_end[c]
  /\ img' = [img EXCEPT ![i[c]] = stdin]
  /\ stdin' = stdin + 1
  /\ i' = [i EXCEPT ![c] = @ + 1]
  /\ UNCHANGED <<lockState, header, control, tmp, my_id, my_start, my_end, j, shared, hist, printed>>

RowsRead(c) ==
  /\ stage[c] = "read"
  /\ Line(c, "rows", "leave")
  /\ i[c] >= my_end[c]
  /\ i' = [i EXCEPT ![c] = my_start[c]]
  /\ UNCHANGED <<lockState, header, tmp, my_id, my_start, my_end, j, shared, data>>

-----------------------------------------------------------------------------
(* The partial histogram of a core's own rows.                              *)

Saturate(x, top) == IF x < 0 THEN 0 ELSE IF x < top THEN x ELSE top

\* The value of a pixel of img: the input row it was filled from, or 0.
PixelOf(row, col) == IF img[row] = Unread THEN 0 ELSE Image[img[row]][col]

ZeroPartial(c) ==
  /\ stage[c] = "partial"
  /\ Line(c, "zero", "loop")
  /\ hist' = [hist EXCEPT ![my_id[c]] = [b \in BinIndex |-> IF b < d THEN 0 ELSE @[b]]]
  /\ UNCHANGED <<lockState, header, locals, shared, stdin, img, printed>>

CountRow(c) ==
  /\ At(c, "partial", "loop")
  /\ i[c] < my_end[c]
  /\ hist' = [hist EXCEPT ![my_id[c]] =
       [b \in BinIndex |->
          @[b] + Cardinality({col \in 0 .. w - 1 : Saturate(PixelOf(i[c], col), d - 1) = b})]]
  /\ i' = [i EXCEPT ![c] = @ + 1]
  /\ UNCHANGED <<lockState, header, control, tmp, my_id, my_start, my_end, j, shared, stdin, img, printed>>

RowsCounted(c) ==
  /\ At(c, "partial", "loop")
  /\ i[c] >= my_end[c]
  /\ GoTo(c, "barrier0", "call")
  /\ UNCHANGED <<lockState, header, locals, shared, data>>

-----------------------------------------------------------------------------
(* Part 2: each core adds up the bins my_id, my_id + NUM_PROCS, ...         *)

ZeroBin(c) ==
  /\ stage[c] = "sum"
  /\ Line(c, "bin", "add")
  /\ i[c] < d
  /\ hist' = [hist EXCEPT ![NumProcs][i[c]] = 0]
  /\ j' = [j EXCEPT ![c] = 0]
  /\ UNCHANGED <<lockState, header, tmp, my_id, my_start, my_end, i, shared, stdin, img, printed>>

AddPartial(c) ==
  /\ At(c, "sum", "add")
  /\ j[c] < NumProcs
  /\ hist' = [hist EXCEPT ![NumProcs][i[c]] = @ + hist[j[c]][i[c]]]
  /\ j' = [j EXCEPT ![c] = @ + 1]
  /\ UNCHANGED <<lockState, header, control, tmp, my_id, my_start, my_end, i, shared, stdin, img, printed>>

NextBin(c) ==
  /\ stage[c] = "sum"
  /\ Line(c, "add", "bin")
  /\ j[c] >= NumProcs
  /\ i' = [i EXCEPT ![c] = @ + NumProcs]
  /\ UNCHANGED <<lockState, header, tmp, my_id, my_start, my_end, j, shared, data>>

BinsDone(c) ==
  /\ At(c, "sum", "bin")
  /\ i[c] >= d
  /\ GoTo(c, "barrier1", "call")
  /\ UNCHANGED <<lockState, header, locals, shared, data>>

-----------------------------------------------------------------------------
(* Part 3: ATOMIC(l3) -- core 1 prints the final histogram, bin by bin.     *)

PrintBin(c) ==
  /\ At(c, "print", "begin")
  /\ at[c] = "in"
  /\ my_id[c] = 1 /\ Len(printed) < d
  /\ printed' = Append(printed, hist[NumProcs][Len(printed)])
  /\ UNCHANGED <<lockState, header, control, locals, shared, stdin, img, hist>>

PrintDone(c) ==
  /\ stage[c] = "print"
  /\ at[c] = "in"
  /\ my_id[c] # 1 \/ Len(printed) >= d
  /\ Line(c, "begin", "leave")
  /\ UNCHANGED <<lockState, header, locals, shared, data>>

-----------------------------------------------------------------------------
Step(c) ==
  \/ EnterSection(c) \/ InsideMacro(c) \/ LeaveSection(c)
  \/ LoadBarrier(c) \/ CountIn(c) \/ PassBarrier(c)
  \/ Identify(c) \/ CountSelf(c) \/ ReadHeader(c) \/ HeaderOK(c) \/ HeaderTooBig(c)
  \/ TakeShare(c) \/ ReadRow(c) \/ RowsRead(c)
  \/ ZeroPartial(c) \/ CountRow(c) \/ RowsCounted(c)
  \/ ZeroBin(c) \/ AddPartial(c) \/ NextBin(c) \/ BinsDone(c)
  \/ PrintBin(c) \/ PrintDone(c)

Next == \E c \in Procs : Step(c)

Spec == Init /\ [][Next]_vars

\* Every core that has not stopped is scheduled again and again.
FairSpec == Spec /\ \A c \in Procs : WF_vars(Step(c))

-----------------------------------------------------------------------------
Rejected == header.max + 1 > MaxBin \/ header.h > MaxH \/ header.w > MaxW

\* The cores that have left ATOMIC(l1).
Readers == {c \in Procs : stage[c] \in Barriers \cup {"partial", "sum", "print", "exit"}}

\* README of exercicio4: the core with id 0 gets the floor of the average
\* share, the last one the ceiling, nobody less than core 0.
FirstReadsLeast ==
  \A c \in Readers :
    LET share == my_end[c] - my_start[c]
        least == header.h \div NumProcs
        most == least + IF header.h % NumProcs = 0 THEN 0 ELSE 1
    IN
    /\ share \in least .. most
    /\ my_id[c] = 0 => share = least
    /\ my_id[c] = NumProcs - 1 => share = most

\* Ids follow the order of arrival at l1, so the cores take the rows off the
\* shared standard input in the order of the image, each row once: row r of
\* img is row r of the input, and after the last core nothing is left.
RowsInOrder ==
  /\ FirstReadsLeast
  /\ \A r \in DOMAIN img : img[r] \in {Unread, r}
  /\ Readers = Procs =>
       /\ stdin = header.h
       /\ \A r \in 0 .. header.h - 1 : img[r] = r

\* How often a value saturates to bin b in the whole image.
CountOf(b) ==
  Cardinality({rc \in (0 .. header.h - 1) \X (0 .. header.w - 1) :
                 Saturate(Image[rc[1]][rc[2]], header.max) = b})

\* Whatever is printed is the histogram of the input image.
PrintedIsHistogram ==
  /\ \A k \in DOMAIN printed : printed[k] = CountOf(k - 1)
  /\ (\E c \in Procs : stage[c] = "exit") => Len(printed) = header.max + 1

\* Barriers in front of a part of main.
Phase(s) ==
  IF s \in {"sum", "barrier1"} THEN 1
  ELSE IF s \in {"print", "barrier2"} THEN 2
  ELSE IF s = "exit" THEN 3
  ELSE 0

PassedBarriers(c) == Phase(stage[c])

CountedIn(c) == stage[c] \in Barriers /\ line[c] \in {"leave", "wait"}
ArrivedBarriers(c) == PassedBarriers(c) + IF CountedIn(c) THEN 1 ELSE 0

Phases == INSTANCE Barrier WITH
  Barriers <- 3,
  passed <- [c \in Procs |-> PassedBarriers(c)],
  arrived <- [c \in Procs |-> ArrivedBarriers(c)]

\* README of exercicio4: a thread gets past the while only when the last
\* thread has incremented the barrier inside SEQUENTIAL.
ImplementsBarriers == Phases!BarrierSpec

\* Every core reaches exit(0) when the header fits and the lock register
\* happens to be 0 when the simulator starts.
Termination == reg = 0 /\ ~Rejected => <>(\A c \in Procs : stage[c] = "exit")

\* A header that does not fit stops core 0 inside ATOMIC(l1): one core stays
\* for ever in the wait for l1 with the register in its hands, and every other
\* one in front of the register.
RejectedHeaderBlocksAll ==
  reg = 0 /\ Rejected =>
    <>[](\E c, e \in Procs :
           /\ stage[c] = "exit_bad_header"
           /\ at[e] = "poll"
           /\ \A f \in Procs \ {c, e} : at[f] = "spin")

\* The peripheral of exercicio4 does not initialise ultimo_valor_escrito: when it
\* is not 0 at power-on, no core ever gets past its first AcquireGlobalLock.
PowerOnTakenBlocksAll ==
  reg = 1 => [](\A c \in Procs : stage[c] = "read" /\ at[c] \in {"out", "spin"})

-----------------------------------------------------------------------------
(* The serial program hist-serial.c, which reads w rows whatever h is.      *)
SerialPixel(row, col) == IF row < header.w THEN Image[row][col] ELSE 0
SerialCountOf(b) ==
  Cardinality({rc \in (0 .. header.h - 1) \X (0 .. header.w - 1) :
                 Saturate(SerialPixel(rc[1], rc[2]), header.max) = b})

\* README of exercicio4: the serial version does everything the parallel one
\* does, only without locks and barriers -- so both print the same bins.
SameAsSerial == \A k \in DOMAIN printed : printed[k] = SerialCountOf(k - 1)
=============================================================================
