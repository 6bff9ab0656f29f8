----------------------------- MODULE NestedLock -----------------------------
(***************************************************************************)
(* The lock macros of the first multicore guests (SEQUENTIAL, AcquireLock, *)
(* ReleaseLock, ATOMIC of hist.c, hello_world.c and mat_quad.c).  Unlike   *)
(* the functions of SpinLock, AcquireLock here is itself a SEQUENTIAL      *)
(* section: a core waits for a local word while it holds the register.     *)
(***************************************************************************)
EXTENDS Naturals

CONSTANTS
  Procs,    \* the cores
  Locks,    \* the words passed to ATOMIC
  Global,   \* stands for a SEQUENTIAL section, which takes the register only
  NoLock,   \* what a core outside the lock code wants
  PowerOn   \* values ultimo_valor_escrito may hold before the first access

ASSUME NestedLockAssumption ==
  /\ Global \notin Locks /\ NoLock \notin Locks /\ NoLock # Global
  /\ PowerOn \subseteq {0, 1}

VARIABLES reg, word, at, want

lockVars == <<reg, word, at, want>>

(* Program points of a core:
     out    not in the lock code
     spin   reading the register until it returns 0
     poll   owns the register, reading the local word until it is 0
     set    read 0: about to write 1 into the local word
     give   wrote 1: about to release the register
     in     inside the section, of Global or of a local lock                *)
Points == {"out", "spin", "poll", "set", "give", "in"}

LockInit ==
  /\ reg \in PowerOn
  /\ word = [l \in Locks |-> 0]
  /\ at = [p \in Procs |-> "out"]
  /\ want = [p \in Procs |-> NoLock]

Goto(p, from, to) ==
  /\ at[p] = from
  /\ at' = [at EXCEPT ![p] = to]

\* SEQUENTIAL or ATOMIC is reached.
Call(p, l) ==
  /\ Goto(p, "out", "spin")
  /\ want' = [want EXCEPT ![p] = l]
  /\ UNCHANGED <<reg, word>>

\* Mutant: the loop ends after one read.
ReadRegisterOnce(p) ==
  /\ Goto(p, "spin", IF want[p] = Global THEN "in" ELSE "poll")
  /\ reg' = 1
  /\ UNCHANGED <<word, want>>

\* One read of the register in the loop of AcquireGlobalLock.
ReadRegister(p) ==
  /\ at[p] = "spin"
  /\ reg' = 1
  /\ at' = IF reg # 0 THEN at
            ELSE [at EXCEPT ![p] = IF want[p] = Global THEN "in" ELSE "poll"]
  /\ UNCHANGED <<word, want>>

\* Mutant: the word is set whatever it was.
PollNothing(p) ==
  /\ Goto(p, "poll", "set")
  /\ UNCHANGED <<reg, word, want>>

\* while (l); inside the SEQUENTIAL section: the register stays taken.
PollLocal(p) ==
  /\ Goto(p, "poll", "set")
  /\ word[want[p]] = 0
  /\ UNCHANGED <<reg, word, want>>

SetLocal(p) ==
  /\ Goto(p, "set", "give")
  /\ word' = [word EXCEPT ![want[p]] = 1]
  /\ UNCHANGED <<reg, want>>

GiveRegister(p) ==
  /\ Goto(p, "give", "in")
  /\ reg' = 0
  /\ UNCHANGED <<word, want>>

\* Mutant: SEQUENTIAL ends without freeing the register.
LeaveKeepsRegister(p) ==
  /\ Goto(p, "in", "out")
  /\ word' = IF want[p] = Global THEN word ELSE [word EXCEPT ![want[p]] = 0]
  /\ want' = [want EXCEPT ![p] = NoLock]
  /\ UNCHANGED reg

\* The end of SEQUENTIAL frees the register, ReleaseLock clears the word.
Leave(p) ==
  /\ Goto(p, "in", "out")
  /\ \/ want[p] = Global /\ reg' = 0 /\ UNCHANGED word
     \/ want[p] # Global /\ word' = [word EXCEPT ![want[p]] = 0] /\ UNCHANGED reg
  /\ want' = [want EXCEPT ![p] = NoLock]

EnterStep(p) == ReadRegister(p) \/ PollLocal(p) \/ SetLocal(p) \/ GiveRegister(p)

LockNext ==
  \E p \in Procs :
    \/ \E l \in Locks \cup {Global} : Call(p, l)
    \/ EnterStep(p)
    \/ Leave(p)

LockSpec == LockInit /\ [][LockNext]_lockVars

\* A core never stops inside the lock code or a section.
FairLockSpec == LockSpec /\ \A p \in Procs : WF_lockVars(EnterStep(p) \/ Leave(p))

-----------------------------------------------------------------------------
OwnsRegister(p) ==
  at[p] \in {"poll", "set", "give"} \/ (at[p] = "in" /\ want[p] = Global)

LockTypeOK ==
  /\ reg \in {0, 1}
  /\ word \in [Locks -> {0, 1}]
  /\ at \in [Procs -> Points]
  /\ want \in [Procs -> Locks \cup {Global, NoLock}]
  /\ \A p \in Procs : at[p] = "out" <=> want[p] = NoLock
  /\ \A p \in Procs : at[p] \in {"poll", "set", "give"} => want[p] \in Locks

\* A SEQUENTIAL section runs alone, and a core waiting for a local word keeps
\* every other core out of the lock code.
RegisterMutex == \A p, q \in Procs : OwnsRegister(p) /\ OwnsRegister(q) => p = q

RegisterTellsOwner == reg = 0 => \A p \in Procs : ~OwnsRegister(p)

\* Two ATOMIC sections on the same word never overlap.
AtomicMutex ==
  \A p, q \in Procs :
    /\ at[p] \in {"give", "in"} /\ at[q] \in {"give", "in"}
    /\ want[p] = want[q] /\ want[p] \in Locks
    => p = q

\* The word is 1 for as long as its section runs, and still 0 when a core is
\* about to set it.
WordTellsOwner ==
  \A p \in Procs :
    /\ at[p] \in {"give", "in"} /\ want[p] \in Locks => word[want[p]] = 1
    /\ at[p] = "set" => word[want[p]] = 0

NestedLockInv ==
  LockTypeOK /\ RegisterTellsOwner /\ RegisterMutex /\ WordTellsOwner /\ AtomicMutex

\* Holding the register while waiting for a word is safe only because the
\* owner of the word clears it without the register: whoever wants in, some
\* core gets in.
SomebodyEnters ==
  (\E p \in Procs : at[p] \notin {"out", "in"}) ~> (\E p \in Procs : at[p] = "in")

AbstractPoint(a) ==
  IF a = "out" THEN "out" ELSE IF a \in {"give", "in"} THEN "in" ELSE "waiting"

Abstract == INSTANCE Mutex WITH
  Locks <- Locks \cup {Global},
  lockOf <- want,
  phase <- [p \in Procs |-> AbstractPoint(at[p])]

\* SEQUENTIAL and ATOMIC sections behave as critical sections of one atomic lock
\* each.
ImplementsMutex == Abstract!MutexSpec
=============================================================================
