-------------------------------- MODULE Cfs --------------------------------
(***************************************************************************)
(* The fair scheduler of the VM tree: weights by nice value, virtual        *)
(* runtime kept as two unsigned words, the pick of the least one, the       *)
(* timer's accounting, placement on wakeup, and what fork() inherits.       *)
(*                                                                          *)
(* A critical section of ptable.lock is one step, except that the scheduler *)
(* keeps the lock from the moment a process gives up the CPU until it       *)
(* dispatches the next one.  fork() copies the parent's fields without the  *)
(* lock and with interrupts on: one step per field that another step can    *)
(* change meanwhile.  A process is named by its slot.  What a process does  *)
(* between two of these steps is its own choice.                            *)
(***************************************************************************)
EXTENDS Integers, FiniteSets

CONSTANTS
  NPROC,        \* slots of the process table
  NCPU,         \* processors
  Nice,         \* nice values, from 0
  DefaultNice,  \* nice value of the first process
  weights,      \* weight per nice value
  VUnit,        \* virtual runtime of a tick at weight 1 (1024000)
  SliceTicks,   \* ticks of a whole timeslice (10000 / 1000)
  Carry,        \* vruntime_low counts below this (1000000000)
  Word,         \* unsigned words wrap here (2^32)
  MaxHigh,      \* bound: vruntime_high stays below or at this
  MayBlock,     \* bound: processes may sleep
  ForkTicks     \* bound: the timer may interrupt fork()

Slots == 1 .. NPROC
CPUs == 1 .. NCPU
InitProc == 1
Ticks == NPROC + 1  \* the channel of everyone not in wait(): &ticks and others

ASSUME SizeAssumption ==
  /\ NPROC \in Nat \ {0} /\ NCPU \in Nat \ {0}
  /\ DefaultNice \in Nice
  /\ weights \in [Nice -> Nat \ {0}]
  /\ VUnit \in Nat /\ SliceTicks \in Nat /\ MaxHigh \in Nat
  /\ Carry \in Nat \ {0} /\ Word \in Nat /\ Carry < Word
  /\ MayBlock \in BOOLEAN /\ ForkTicks \in BOOLEAN

(* A timeslice is at least a tick, and a tick at the smallest weight        *)
(* carries once at most and does not wrap the low word.                     *)
ASSUME CostAssumption ==
  /\ SliceTicks # 0
  /\ \A n \in Nice : /\ VUnit \div weights[n] <= Carry
                     /\ VUnit \div weights[n] <= Word - Carry

States == {"UNUSED", "EMBRYO", "SLEEPING", "RUNNABLE", "RUNNING", "ZOMBIE"}

VARIABLES
  proc,    \* the process table
  cur,     \* per CPU: the slot of its process, or 0
  lock,    \* the CPU whose scheduler holds ptable.lock, or 0
  cursor,  \* with the lock: the slot the scheduler's loop is at, else 0
  slice,   \* per CPU: the timeslice of its process, in ticks
  spent,   \* per CPU: the timer found the timeslice used up
  at,      \* per slot: how far its fork() got
  child    \* per slot: the slot its fork() is filling, or 0

vars == <<proc, cur, cursor, lock, slice, spent, at, child>>

(* A process's tick costs it this much virtual runtime.                     *)
Cost(r) == VUnit \div r.weight

Fresh == [state |-> "UNUSED", chan |-> 0, parent |-> 0,
          nice |-> DefaultNice, weight |-> weights[DefaultNice],
          hi |-> 0, lo |-> 0, used |-> 0]

ProcType ==
  [state : States, chan : 0 .. Ticks, parent : 0 .. NPROC, nice : Nice,
   weight : {weights[n] : n \in Nice}, hi : 0 .. MaxHigh, lo : 0 .. Word - 1,
   used : Nat]

TableOK ==
  /\ proc \in [Slots -> ProcType]
  /\ cur \in [CPUs -> 0 .. NPROC]
  /\ at \in [Slots -> {"user", "alloc", "high", "low"}]
  /\ child \in [Slots -> 0 .. NPROC]

TypeOK ==
  /\ TableOK
  /\ lock \in 0 .. NCPU /\ cursor \in 0 .. NPROC
  /\ slice \in [CPUs -> Nat] /\ spent \in [CPUs -> BOOLEAN]

(* userinit() made the first process and the CPUs enter scheduler().        *)
Init ==
  /\ proc = [p \in Slots |->
              IF p = InitProc THEN [Fresh EXCEPT !.state = "RUNNABLE"] ELSE Fresh]
  /\ cur = [c \in CPUs |-> 0] /\ cursor = 0
  /\ lock = 0
  /\ slice = [c \in CPUs |-> 0] /\ spent = [c \in CPUs |-> FALSE]
  /\ at = [p \in Slots |-> "user"] /\ child = [p \in Slots |-> 0]

-----------------------------------------------------------------------------
(* Mutant of Greater: only the high words are compared.                     *)
GreaterHigh(r, s) == r.hi > s.hi

(* compare_vruntime(): r's virtual runtime is the larger one.               *)
Greater(r, s) == r.hi > s.hi \/ (r.hi = s.hi /\ r.lo > s.lo)

Runnable(t) == {p \in Slots : t[p].state = "RUNNABLE"}

Least(t) == {p \in Runnable(t) : \A q \in Runnable(t) : ~Greater(t[p], t[q])}

First(S) == CHOOSE p \in S : \A q \in S : p <= q

(* The scan of scheduler(), started at p: p if nothing is smaller, else the *)
(* first slot with the least virtual runtime.                               *)
Pick(t, p) == IF p \in Least(t) THEN p ELSE First(Least(t))

(* The sum over the runnable processes of their weights.                    *)
TotalWeight(t) ==
  LET S[p \in 0 .. NPROC] ==
        IF p = 0 THEN 0
        ELSE S[p - 1] + IF t[p].state = "RUNNABLE" THEN t[p].weight ELSE 0
  IN S[NPROC]

(* Mutant of Wakeup1: the subtraction is signed.                            *)
Wakeup1Signed(t, ch) ==
  [p \in Slots |->
     IF t[p].state = "SLEEPING" /\ t[p].chan = ch
     THEN [t[p] EXCEPT
             !.state = "RUNNABLE",
             !.hi = IF Runnable(t) = {} THEN 0 ELSE t[First(Least(t))].hi,
             !.lo = IF Runnable(t) = {} THEN 0
                    ELSE t[First(Least(t))].lo - Cost(t[p])]
     ELSE t[p]]

(* wakeup1(): whoever sleeps on ch becomes runnable, one tick's cost below  *)
(* the least runnable process; the low word wraps, and the test that would  *)
(* borrow from the high word never holds for an unsigned word.              *)
Wakeup1(t, ch) ==
  [p \in Slots |->
     IF t[p].state = "SLEEPING" /\ t[p].chan = ch
     THEN [t[p] EXCEPT
             !.state = "RUNNABLE",
             !.hi = IF Runnable(t) = {} THEN 0 ELSE t[First(Least(t))].hi,
             !.lo = IF Runnable(t) = {} THEN 0
                    ELSE (t[First(Least(t))].lo - Cost(t[p])) % Word]
     ELSE t[p]]

-----------------------------------------------------------------------------
(* scheduler()                                                              *)

SchedLock(c) ==
  /\ cur[c] = 0 /\ lock = 0
  /\ lock' = c
  /\ UNCHANGED <<proc, cur, cursor, slice, spent, at, child>>

Ahead == {p \in Runnable(proc) : p > cursor}

SchedRelease(c) ==
  /\ lock = c /\ Ahead = {}
  /\ lock' = 0 /\ cursor' = 0
  /\ UNCHANGED <<proc, cur, slice, spent, at, child>>

(* The timeslice of a process that is dispatched: integer division, so that *)
(* it is whole or nothing.                                                  *)
Timeslice(w, total) == SliceTicks * (w \div total)

(* Mutant of SchedRun: the weight is not looked up again.                   *)
SchedRunStale(c) ==
  /\ lock = c /\ Ahead # {}
  /\ LET p == Pick(proc, First(Ahead))
     IN /\ proc' = [proc EXCEPT
                     ![p].state = "RUNNING", ![p].chan = 0]
        /\ slice' = [slice EXCEPT ![c] =
                        Timeslice(proc[p].weight, TotalWeight(proc))]
        /\ cur' = [cur EXCEPT ![c] = p]
  /\ lock' = 0 /\ cursor' = 0
  /\ UNCHANGED <<spent, at, child>>

(* The loop reaches a runnable process, then picks the least of all.  The   *)
(* weight is looked up again after the sum was formed.  A process that      *)
(* slept clears its channel first.                                          *)
SchedRun(c) ==
  /\ lock = c /\ Ahead # {}
  /\ LET p == Pick(proc, First(Ahead))
         w == weights[proc[p].nice]
     IN /\ proc' = [proc EXCEPT
                     ![p].state = "RUNNING", ![p].weight = w, ![p].chan = 0]
        /\ slice' = [slice EXCEPT ![c] = Timeslice(w, TotalWeight(proc))]
        /\ cur' = [cur EXCEPT ![c] = p]
  /\ lock' = 0 /\ cursor' = 0
  /\ UNCHANGED <<spent, at, child>>

(* A process on CPU c may go on: no timer interrupt is being handled.       *)
Runs(c) == cur[c] # 0 /\ ~spent[c]

(* sched(): the process's CPU c is back in scheduler(), which has the lock. *)
GiveUp(c) ==
  /\ cur' = [cur EXCEPT ![c] = 0]
  /\ lock' = c /\ cursor' = cur[c]
  /\ slice' = [slice EXCEPT ![c] = 0]

-----------------------------------------------------------------------------
(* The timer                                                                *)

ChargedLow(r) == (r.lo + Cost(r)) % Word

(* The timer interrupts the process of CPU c.  used is aruntime -           *)
(* aruntime_prev in ticks, an unsigned difference no wrap can disturb.      *)
Charge(c) ==
  /\ Runs(c) /\ (ForkTicks \/ at[cur[c]] = "user")
  /\ LET r == proc[cur[c]]
         high == IF ChargedLow(r) >= Carry THEN r.hi + 1 ELSE r.hi
         up == r.used + 1 >= slice[c]
     IN /\ high <= MaxHigh
        /\ proc' = [proc EXCEPT ![cur[c]].hi = high,
                                ![cur[c]].lo = ChargedLow(r) % Carry,
                                ![cur[c]].used = IF up THEN 0 ELSE @ + 1]
        /\ spent' = [spent EXCEPT ![c] = up]
  /\ UNCHANGED <<cur, cursor, lock, slice, at, child>>

(* yield(), at the end of the interrupt.                                    *)
Yield(c) ==
  /\ cur[c] # 0 /\ spent[c] /\ lock = 0
  /\ proc' = [proc EXCEPT ![cur[c]].state = "RUNNABLE"]
  /\ spent' = [spent EXCEPT ![c] = FALSE]
  /\ GiveUp(c)
  /\ UNCHANGED <<at, child>>

(* wakeup() of a channel other than wait()'s: the tick, a pipe, the disk.   *)
Wakeup ==
  /\ lock = 0
  /\ proc' = Wakeup1(proc, Ticks)
  /\ UNCHANGED <<cur, cursor, lock, slice, spent, at, child>>

-----------------------------------------------------------------------------
(* System calls                                                             *)

InUser(c) == Runs(c) /\ at[cur[c]] = "user" /\ lock = 0

Sleep(c) ==
  /\ InUser(c) /\ MayBlock
  /\ proc' = [proc EXCEPT ![cur[c]].state = "SLEEPING", ![cur[c]].chan = Ticks]
  /\ GiveUp(c)
  /\ UNCHANGED <<spent, at, child>>

(* allocproc() takes a slot.                                                *)
ForkAlloc(c) ==
  /\ InUser(c)
  /\ \E p \in Slots : proc[p].state = "UNUSED"
  /\ LET np == First({p \in Slots : proc[p].state = "UNUSED"})
     IN /\ proc' = [proc EXCEPT ![np] = [Fresh EXCEPT !.state = "EMBRYO"]]
        /\ child' = [child EXCEPT ![cur[c]] = np]
  /\ at' = [at EXCEPT ![cur[c]] = "alloc"]
  /\ UNCHANGED <<cur, cursor, lock, slice, spent>>

Forking(c, a) == Runs(c) /\ at[cur[c]] = a

(* No memory for the kernel stack or the page table.                        *)
ForkFail(c) ==
  /\ Forking(c, "alloc")
  /\ proc' = [proc EXCEPT ![child[cur[c]]].state = "UNUSED"]
  /\ at' = [at EXCEPT ![cur[c]] = "user"]
  /\ child' = [child EXCEPT ![cur[c]] = 0]
  /\ UNCHANGED <<cur, cursor, lock, slice, spent>>

ForkHigh(c) ==
  /\ Forking(c, "alloc")
  /\ proc' = [proc EXCEPT ![child[cur[c]]].parent = cur[c],
                          ![child[cur[c]]].hi = proc[cur[c]].hi]
  /\ at' = [at EXCEPT ![cur[c]] = "high"]
  /\ UNCHANGED <<cur, cursor, lock, slice, spent, child>>

ForkLow(c) ==
  /\ Forking(c, "high")
  /\ proc' = [proc EXCEPT ![child[cur[c]]].lo = proc[cur[c]].lo,
                          ![child[cur[c]]].nice = proc[cur[c]].nice]
  /\ at' = [at EXCEPT ![cur[c]] = "low"]
  /\ UNCHANGED <<cur, cursor, lock, slice, spent, child>>

ForkRun(c) ==
  /\ Forking(c, "low") /\ lock = 0
  /\ proc' = [proc EXCEPT ![child[cur[c]]].weight = proc[cur[c]].weight,
                          ![child[cur[c]]].state = "RUNNABLE"]
  /\ at' = [at EXCEPT ![cur[c]] = "user"]
  /\ child' = [child EXCEPT ![cur[c]] = 0]
  /\ UNCHANGED <<cur, cursor, lock, slice, spent>>

(* Children of p go to init; init is woken for a zombie among them.         *)
Reparent(t, p) ==
  LET u == [q \in Slots |-> IF t[q].parent = p
                            THEN [t[q] EXCEPT !.parent = InitProc] ELSE t[q]]
      zombie == \E q \in Slots : t[q].parent = p /\ t[q].state = "ZOMBIE"
  IN IF zombie THEN Wakeup1(u, InitProc) ELSE u

(* exit().  Nobody reads the scheduling fields of a zombie.                 *)
Exit(c) ==
  /\ InUser(c) /\ cur[c] # InitProc
  /\ LET p == cur[c]
     IN proc' = [Reparent(Wakeup1(proc, proc[p].parent), p)
                   EXCEPT ![p] = [Fresh EXCEPT !.state = "ZOMBIE",
                                               !.parent = proc[p].parent]]
  /\ GiveUp(c)
  /\ UNCHANGED <<spent, at, child>>

Children(p) == {q \in Slots : proc[q].parent = p}
Zombies(p) == {q \in Children(p) : proc[q].state = "ZOMBIE"}

WaitReap(c) ==
  /\ InUser(c) /\ Zombies(cur[c]) # {}
  /\ proc' = [proc EXCEPT ![First(Zombies(cur[c]))] = Fresh]
  /\ UNCHANGED <<cur, cursor, lock, slice, spent, at, child>>

WaitSleep(c) ==
  /\ InUser(c) /\ MayBlock
  /\ Zombies(cur[c]) = {} /\ Children(cur[c]) # {}
  /\ proc' = [proc EXCEPT ![cur[c]].state = "SLEEPING", ![cur[c]].chan = cur[c]]
  /\ GiveUp(c)
  /\ UNCHANGED <<spent, at, child>>

(* kill(): a sleeper becomes runnable where it stands.                      *)
Kill(c, q) ==
  /\ InUser(c) /\ proc[q].state = "SLEEPING"
  /\ proc' = [proc EXCEPT ![q].state = "RUNNABLE"]
  /\ UNCHANGED <<cur, cursor, lock, slice, spent, at, child>>

(* Mutant of SetNice: the weight is left to the scheduler.                  *)
SetNiceOnly(c, q, v) ==
  /\ InUser(c) /\ proc[q].state # "UNUSED"
  /\ proc' = [proc EXCEPT ![q].nice = v]
  /\ UNCHANGED <<cur, cursor, lock, slice, spent, at, child>>

SetNice(c, q, v) ==
  /\ InUser(c) /\ proc[q].state # "UNUSED"
  /\ proc' = [proc EXCEPT ![q].nice = v, ![q].weight = weights[v]]
  /\ UNCHANGED <<cur, cursor, lock, slice, spent, at, child>>

-----------------------------------------------------------------------------
Step(c) ==
  \/ SchedLock(c) \/ SchedRelease(c) \/ SchedRun(c)
  \/ Charge(c) \/ Yield(c) \/ Sleep(c)
  \/ ForkAlloc(c) \/ ForkFail(c) \/ ForkHigh(c) \/ ForkLow(c) \/ ForkRun(c)
  \/ Exit(c) \/ WaitReap(c) \/ WaitSleep(c)
  \/ \E q \in Slots : Kill(c, q) \/ \E v \in Nice : SetNice(c, q, v)

Next == Wakeup \/ \E c \in CPUs : Step(c)

Spec == Init /\ [][Next]_vars

-----------------------------------------------------------------------------
Active(p) == proc[p].state \in {"RUNNABLE", "RUNNING"}
Vruntime(r) == r.hi * Carry + r.lo
MaxCost == CHOOSE d \in {VUnit \div weights[n] : n \in Nice} :
             \A n \in Nice : VUnit \div weights[n] <= d

(* Nobody is starved while nobody sleeps: on one CPU whose timer does not   *)
(* interrupt fork() the virtual runtimes of any two processes differ by no  *)
(* more than one whole timeslice at the smallest weight, through forks,     *)
(* exits, reaping, setnice() and carries from the low to the high word.     *)
Spread ==
  \A p, q \in Slots :
    Active(p) /\ Active(q) =>
      Vruntime(proc[p]) - Vruntime(proc[q]) <= SliceTicks * MaxCost

(* A dispatched process may run for one whole timeslice or yields at its    *)
(* first tick, although the weights are summed before the weight of the     *)
(* process picked is looked up again, as long as fork() is not interrupted: *)
(* a child that got its nice value before a setnice() and its weight after  *)
(* it may get several timeslices.                                           *)
SliceWhole == \A c \in CPUs : slice[c] \in {0, SliceTicks}

(* Whatever fork() and setnice() did to each other, ticks are charged at    *)
(* the right rate: only a process that never ran has a weight that is not   *)
(* the one of its nice value.                                               *)
RunsAtWeight ==
  \A p \in Slots :
    proc[p].state \in {"RUNNING", "SLEEPING"} =>
      proc[p].weight = weights[proc[p].nice]

=============================================================================
