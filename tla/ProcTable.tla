----------------------------- MODULE ProcTable -----------------------------
(***************************************************************************)
(* The process table of the page-replacement kernel (proc.c): process      *)
(* slots, the per-CPU round-robin scheduler, swtch() hand-over of          *)
(* ptable.lock, fork / exit / wait / kill, sleep / wakeup on the tick      *)
(* channel, and the timer interrupt (trap.c) that drives both preemption   *)
(* and the tick counter.                                                   *)
(*                                                                         *)
(* One step is one critical section of ptable.lock or tickslock, or one    *)
(* unlocked access that another CPU can observe.  ptable.lock is held      *)
(* across steps only where the code holds it across swtch(): from the      *)
(* moment a process leaves RUNNING until the scheduler, or the process it  *)
(* dispatches, releases it.                                                *)
(***************************************************************************)
EXTENDS Naturals, FiniteSets

CONSTANTS
  NPROC,      \* number of slots of ptable.proc
  NCPU,       \* number of CPUs
  MaxPid,     \* bound: fork() is not tried once nextpid exceeds it
  TickMod,    \* ticks is a uint: it wraps at TickMod (2^32 in the code)
  SleepArgs,  \* the arguments n user programs pass to sleep(n)
  KillArgs    \* the pids user programs pass to kill(pid)

ASSUME NPROCAssumption == NPROC \in Nat \ {0}
ASSUME NCPUAssumption == NCPU \in Nat \ {0}
ASSUME MaxPidAssumption == MaxPid \in Nat \ {0}
ASSUME TickModAssumption == TickMod \in Nat \ {0}
ASSUME SleepArgsAssumption == SleepArgs \subseteq 0 .. (TickMod - 1)
ASSUME KillArgsAssumption == KillArgs \subseteq Nat

Slots == 1 .. NPROC
CPUs == 1 .. NCPU
None == 0               \* null process pointer, null channel, unheld lock
InitProc == 1           \* initproc: userinit() takes the first slot
BootCpu == 1            \* the CPU whose cpuid() is 0
TicksChan == NPROC + 1  \* the address &ticks, used as a sleep channel

States == {"UNUSED", "EMBRYO", "SLEEPING", "RUNNABLE", "RUNNING", "ZOMBIE"}

(* Where a kernel thread is: in user space, or at a point of a system call  *)
(* where it may be interrupted, must take a lock, or must release one.      *)
Locations == {"user", "fork", "forked", "exit", "wait",
              "tickcheck", "sleep", "relock", "sysret"}

(* Where swtch() resumes a thread: the saved p->context.                    *)
Contexts == {"forkret", "yield", "wait", "sleep"}

(* The phases of a timer trap on a CPU.                                     *)
TrapPhases == {"none", "tick", "wakeup", "tail"}

VARIABLES
  state, pid, parent, chan, killed,  \* fields of struct proc, per slot
  nextpid,    \* next pid to hand out
  pc,         \* kernel thread location, per slot
  ctx,        \* saved context, per slot
  child,      \* fork()'s local np, per slot
  ticks0,     \* sys_sleep()'s local ticks0, per slot
  dur,        \* sys_sleep()'s argument n, per slot
  cur,        \* cpu->proc, per CPU
  scan,       \* scheduler()'s loop cursor, per CPU
  trapno,     \* phase of the timer trap in progress, per CPU
  ptlock,     \* CPU holding ptable.lock, or None
  tickslock,  \* CPU holding tickslock, or None
  ticks,      \* the tick counter
  shell,      \* pid of the shell init started and has not reaped, or None
  panicked    \* panic() was called: every CPU stops

procVars == <<state, pid, parent, chan, killed, nextpid>>
threadVars == <<pc, ctx, child, ticks0, dur, shell>>
cpuVars == <<cur, scan, trapno>>
tickVars == <<tickslock, ticks>>
vars == <<procVars, threadVars, cpuVars, tickVars, ptlock, panicked>>

TypeOK ==
  /\ state \in [Slots -> States]
  /\ pid \in [Slots -> Nat]
  /\ parent \in [Slots -> Slots \cup {None}]
  /\ chan \in [Slots -> Slots \cup {None, TicksChan}]
  /\ killed \in [Slots -> BOOLEAN]
  /\ nextpid \in Nat
  /\ pc \in [Slots -> Locations]
  /\ ctx \in [Slots -> Contexts]
  /\ child \in [Slots -> Slots \cup {None}]
  /\ ticks0 \in [Slots -> 0 .. (TickMod - 1)]
  /\ dur \in [Slots -> 0 .. (TickMod - 1)]
  /\ cur \in [CPUs -> Slots \cup {None}]
  /\ scan \in [CPUs -> 1 .. (NPROC + 1)]
  /\ trapno \in [CPUs -> TrapPhases]
  /\ ptlock \in CPUs \cup {None}
  /\ tickslock \in CPUs \cup {None}
  /\ ticks \in 0 .. (TickMod - 1)
  /\ shell \in Nat
  /\ panicked \in BOOLEAN

(* The state userinit() leaves: the first slot holds initcode, RUNNABLE.    *)
Init ==
  /\ state = [p \in Slots |-> IF p = InitProc THEN "RUNNABLE" ELSE "UNUSED"]
  /\ pid = [p \in Slots |-> IF p = InitProc THEN 1 ELSE 0]
  /\ parent = [p \in Slots |-> None]
  /\ chan = [p \in Slots |-> None]
  /\ killed = [p \in Slots |-> FALSE]
  /\ nextpid = 2
  /\ pc = [p \in Slots |-> "user"]
  /\ ctx = [p \in Slots |-> "forkret"]
  /\ child = [p \in Slots |-> None]
  /\ ticks0 = [p \in Slots |-> 0]
  /\ dur = [p \in Slots |-> 0]
  /\ cur = [c \in CPUs |-> None]
  /\ scan = [c \in CPUs |-> 1]
  /\ trapno = [c \in CPUs |-> "none"]
  /\ ptlock = None
  /\ tickslock = None
  /\ ticks = 0
  /\ shell = None
  /\ panicked = FALSE

-----------------------------------------------------------------------------
(* Helpers.                                                                 *)

(* A loop over the table that stops at the first match stops at p.          *)
IsFirst(p, S) == p \in S /\ \A q \in S : p <= q

(* wakeup1(ch) applied to the table of states st.                           *)
Wakeup1(st, ch) ==
  [p \in Slots |->
     IF st[p] = "SLEEPING" /\ chan[p] = ch THEN "RUNNABLE" ELSE st[p]]

(* CPU c executes process p: not inside a trap, and not in the middle of a   *)
(* swtch, during which c itself holds ptable.lock.                           *)
Exec(p, c) ==
  /\ ~panicked
  /\ cur[c] = p
  /\ trapno[c] = "none"
  /\ ptlock # c

(* A system call of p starts on c: trap() saw that p was not killed.        *)
Syscall(p, c) == Exec(p, c) /\ pc[p] = "user" /\ ~killed[p]

GoTo(p, l) == pc' = [pc EXCEPT ![p] = l]

-----------------------------------------------------------------------------
(* scheduler(), sched() and the points where swtch() resumes a process.     *)

Runnable(c) == {p \in scan[c] .. NPROC : state[p] = "RUNNABLE"}

(* scheduler() takes ptable.lock and starts a pass over the table.          *)
SchedLock(c) ==
  /\ ~panicked
  /\ cur[c] = None /\ trapno[c] = "none"
  /\ ptlock = None
  /\ ptlock' = c
  /\ scan' = [scan EXCEPT ![c] = 1]
  /\ UNCHANGED <<procVars, threadVars, cur, trapno, tickVars, panicked>>

(* Mutant of SchedRun: the pass starts over after every dispatch.           *)
SchedRunRestart(c) ==
  /\ ~panicked
  /\ ptlock = c /\ cur[c] = None
  /\ \E p \in Slots :
       /\ IsFirst(p, Runnable(c))
       /\ cur' = [cur EXCEPT ![c] = p]
       /\ state' = [state EXCEPT ![p] = "RUNNING"]
       /\ scan' = [scan EXCEPT ![c] = 1]
  /\ UNCHANGED <<pid, parent, chan, killed, nextpid, threadVars, trapno,
                 tickVars, ptlock, panicked>>

(* It switches to the next RUNNABLE process, which inherits the lock.       *)
SchedRun(c) ==
  /\ ~panicked
  /\ ptlock = c /\ cur[c] = None
  /\ \E p \in Slots :
       /\ IsFirst(p, Runnable(c))
       /\ cur' = [cur EXCEPT ![c] = p]
       /\ state' = [state EXCEPT ![p] = "RUNNING"]
       /\ scan' = [scan EXCEPT ![c] = p + 1]
  /\ UNCHANGED <<pid, parent, chan, killed, nextpid, threadVars, trapno,
                 tickVars, ptlock, panicked>>

(* The pass is over: release the lock; interrupts are on before the next.   *)
SchedRelease(c) ==
  /\ ~panicked
  /\ ptlock = c /\ cur[c] = None
  /\ Runnable(c) = {}
  /\ ptlock' = None
  /\ UNCHANGED <<procVars, threadVars, cpuVars, tickVars, panicked>>

(* sched(): a process that is no longer RUNNING switches to the scheduler   *)
(* of its CPU, which continues its pass with the lock still held.           *)
Sched(c) ==
  /\ ~panicked
  /\ ptlock = c /\ cur[c] # None
  /\ state[cur[c]] # "RUNNING"
  /\ cur' = [cur EXCEPT ![c] = None]
  /\ UNCHANGED <<procVars, threadVars, scan, trapno, tickVars, ptlock, panicked>>

(* A dispatched process p runs on from its saved context, lock held.        *)
Resuming(p, c, where) ==
  /\ ~panicked
  /\ ptlock = c /\ cur[c] = p
  /\ state[p] = "RUNNING"
  /\ ctx[p] = where

ResumeForkret(p, c) ==
  /\ Resuming(p, c, "forkret")
  /\ ptlock' = None
  /\ UNCHANGED <<procVars, threadVars, cpuVars, tickVars, panicked>>

(* The tail of yield() and of trap(): a killed process in user space exits. *)
ResumeYield(p, c) ==
  /\ Resuming(p, c, "yield")
  /\ ptlock' = None
  /\ GoTo(p, IF killed[p] /\ pc[p] = "user" THEN "exit" ELSE pc[p])
  /\ UNCHANGED <<procVars, ctx, child, ticks0, dur, shell, cpuVars, tickVars,
                 panicked>>

(* The tail of sleep(): drop ptable.lock; lk must be taken again.           *)
ResumeSleep(p, c) ==
  /\ Resuming(p, c, "sleep")
  /\ ptlock' = None
  /\ chan' = [chan EXCEPT ![p] = None]
  /\ GoTo(p, "relock")
  /\ UNCHANGED <<state, pid, parent, killed, nextpid, ctx, child, ticks0, dur,
                 shell, cpuVars, tickVars, panicked>>

-----------------------------------------------------------------------------
(* trap(): the timer interrupt, taken only where c holds no spinlock.       *)

TimerIntr(c) ==
  /\ ~panicked
  /\ trapno[c] = "none"
  /\ ptlock # c /\ tickslock # c
  /\ c = BootCpu \/ cur[c] # None
  /\ trapno' = [trapno EXCEPT ![c] = IF c = BootCpu THEN "tick" ELSE "tail"]
  /\ UNCHANGED <<procVars, threadVars, cur, scan, tickVars, ptlock, panicked>>

(* acquire(&tickslock); ticks++                                             *)
TickCount(c) ==
  /\ ~panicked
  /\ trapno[c] = "tick"
  /\ tickslock = None
  /\ tickslock' = c
  /\ ticks' = (ticks + 1) % TickMod
  /\ trapno' = [trapno EXCEPT ![c] = "wakeup"]
  /\ UNCHANGED <<procVars, threadVars, cur, scan, ptlock, panicked>>

(* wakeup(&ticks); release(&tickslock)                                      *)
TickWakeup(c) ==
  /\ ~panicked
  /\ trapno[c] = "wakeup"
  /\ ptlock = None
  /\ state' = Wakeup1(state, TicksChan)
  /\ tickslock' = None
  /\ trapno' = [trapno EXCEPT ![c] = "tail"]
  /\ UNCHANGED <<pid, parent, chan, killed, nextpid, threadVars, cur, scan,
                 ticks, ptlock, panicked>>

TrapIdle(c) ==
  /\ ~panicked
  /\ trapno[c] = "tail"
  /\ cur[c] = None
  /\ trapno' = [trapno EXCEPT ![c] = "none"]
  /\ UNCHANGED <<procVars, threadVars, cur, scan, tickVars, ptlock, panicked>>

TrapExit(c) ==
  /\ ~panicked
  /\ trapno[c] = "tail"
  /\ cur[c] # None
  /\ killed[cur[c]] /\ pc[cur[c]] = "user"
  /\ GoTo(cur[c], "exit")
  /\ trapno' = [trapno EXCEPT ![c] = "none"]
  /\ UNCHANGED <<procVars, ctx, child, ticks0, dur, shell, cur, scan, tickVars,
                 ptlock, panicked>>

(* Mutant of TrapYield: the lock is released before the switch.             *)
TrapYieldUnlocked(c) ==
  /\ ~panicked
  /\ trapno[c] = "tail"
  /\ cur[c] # None
  /\ ~(killed[cur[c]] /\ pc[cur[c]] = "user")
  /\ ptlock = None
  /\ state' = [state EXCEPT ![cur[c]] = "RUNNABLE"]
  /\ ctx' = [ctx EXCEPT ![cur[c]] = "yield"]
  /\ trapno' = [trapno EXCEPT ![c] = "none"]
  /\ UNCHANGED <<pid, parent, chan, killed, nextpid, pc, child, ticks0, dur,
                 shell, cur, scan, tickVars, ptlock, panicked>>

(* yield(): back to RUNNABLE under ptable.lock, then sched().               *)
TrapYield(c) ==
  /\ ~panicked
  /\ trapno[c] = "tail"
  /\ cur[c] # None
  /\ ~(killed[cur[c]] /\ pc[cur[c]] = "user")
  /\ ptlock = None
  /\ ptlock' = c
  /\ state' = [state EXCEPT ![cur[c]] = "RUNNABLE"]
  /\ ctx' = [ctx EXCEPT ![cur[c]] = "yield"]
  /\ trapno' = [trapno EXCEPT ![c] = "none"]
  /\ UNCHANGED <<pid, parent, chan, killed, nextpid, pc, child, ticks0, dur,
                 shell, cur, scan, tickVars, panicked>>

(* The default case of trap(): a user program faults and is killed.         *)
Fault(p, c) ==
  /\ Exec(p, c) /\ pc[p] = "user"
  /\ p # InitProc
  /\ killed' = [killed EXCEPT ![p] = TRUE]
  /\ GoTo(p, "exit")
  /\ UNCHANGED <<state, pid, parent, chan, nextpid, ctx, child, ticks0, dur,
                 shell, cpuVars, tickVars, ptlock, panicked>>

(* T_SYSCALL on entry and on return: a killed process exits instead.        *)
SyscallKilled(p, c) ==
  /\ Exec(p, c) /\ pc[p] = "user" /\ killed[p]
  /\ GoTo(p, "exit")
  /\ UNCHANGED <<procVars, ctx, child, ticks0, dur, shell, cpuVars, tickVars,
                 ptlock, panicked>>

SyscallReturn(p, c) ==
  /\ Exec(p, c) /\ pc[p] = "sysret"
  /\ GoTo(p, IF killed[p] THEN "exit" ELSE "user")
  /\ UNCHANGED <<procVars, ctx, child, ticks0, dur, shell, cpuVars, tickVars,
                 ptlock, panicked>>

-----------------------------------------------------------------------------
(* fork()                                                                   *)

Free == {q \in Slots : state[q] = "UNUSED"}

(* init starts a shell, then only waits until that shell is reaped.         *)
MayFork(p) == p = InitProc => shell = None

(* fork() returned -1: a user program goes on, init calls exit().           *)
ForkError(p) == IF p = InitProc THEN "exit" ELSE "sysret"

(* allocproc()'s critical section: claim the first UNUSED slot.             *)
AllocProc(p, c) ==
  /\ Syscall(p, c) /\ MayFork(p)
  /\ nextpid <= MaxPid
  /\ ptlock = None
  /\ \E np \in Slots :
       /\ IsFirst(np, Free)
       /\ state' = [state EXCEPT ![np] = "EMBRYO"]
       /\ pid' = [pid EXCEPT ![np] = nextpid]
       /\ child' = [child EXCEPT ![p] = np]
  /\ nextpid' = nextpid + 1
  /\ GoTo(p, "fork")
  /\ UNCHANGED <<parent, chan, killed, ctx, ticks0, dur, shell, cpuVars,
                 tickVars, ptlock, panicked>>

AllocProcFull(p, c) ==
  /\ Syscall(p, c) /\ MayFork(p)
  /\ ptlock = None
  /\ Free = {}
  /\ GoTo(p, ForkError(p))
  /\ UNCHANGED <<procVars, ctx, child, ticks0, dur, shell, cpuVars, tickVars,
                 ptlock, panicked>>

(* kalloc() or copyuvm() fails: the slot is given back without the lock,    *)
(* and without clearing its pid.                                            *)
ForkFail(p, c) ==
  /\ Exec(p, c) /\ pc[p] = "fork"
  /\ state' = [state EXCEPT ![child[p]] = "UNUSED"]
  /\ child' = [child EXCEPT ![p] = None]
  /\ GoTo(p, ForkError(p))
  /\ UNCHANGED <<pid, parent, chan, killed, nextpid, ctx, ticks0, dur, shell,
                 cpuVars, tickVars, ptlock, panicked>>

(* The child's context, address space, trap frame and parent are set up.    *)
ForkCopy(p, c) ==
  /\ Exec(p, c) /\ pc[p] = "fork"
  /\ parent' = [parent EXCEPT ![child[p]] = p]
  /\ ctx' = [ctx EXCEPT ![child[p]] = "forkret"]
  /\ pc' = [pc EXCEPT ![p] = "forked", ![child[p]] = "user"]
  /\ UNCHANGED <<state, pid, chan, killed, nextpid, child, ticks0, dur, shell,
                 cpuVars, tickVars, ptlock, panicked>>

(* np->state = RUNNABLE under ptable.lock; fork() returns the pid.          *)
ForkRun(p, c) ==
  /\ Exec(p, c) /\ pc[p] = "forked"
  /\ ptlock = None
  /\ state' = [state EXCEPT ![child[p]] = "RUNNABLE"]
  /\ shell' = IF p = InitProc THEN pid[child[p]] ELSE shell
  /\ child' = [child EXCEPT ![p] = None]
  /\ GoTo(p, "sysret")
  /\ UNCHANGED <<pid, parent, chan, killed, nextpid, ctx, ticks0, dur,
                 cpuVars, tickVars, ptlock, panicked>>

-----------------------------------------------------------------------------
(* exit() and wait()                                                        *)

SysExit(p, c) ==
  /\ Syscall(p, c)
  /\ p # InitProc
  /\ GoTo(p, "exit")
  /\ UNCHANGED <<procVars, ctx, child, ticks0, dur, shell, cpuVars, tickVars,
                 ptlock, panicked>>

(* Mutant of Zombies: wait() takes any zombie, not only its own children.   *)
AnyZombies(p) == {q \in Slots : state[q] = "ZOMBIE"}

Children(p) == {q \in Slots : parent[q] = p}
Zombies(p) == {q \in Children(p) : state[q] = "ZOMBIE"}

(* Mutant of ExitWakeups: the parent is not told that its child exited.     *)
ExitWakesInitOnly(p) ==
  IF Zombies(p) # {} THEN Wakeup1(state, InitProc) ELSE state

(* The states after exit()'s wakeups: of the parent, and of init when it    *)
(* inherits a zombie.                                                       *)
ExitWakeups(p) ==
  LET woken == Wakeup1(state, parent[p])
  IN  IF Zombies(p) # {} THEN Wakeup1(woken, InitProc) ELSE woken

(* Mutant of Reparented: the children keep their dead parent.               *)
NotReparented(p) == parent

(* Abandoned children are passed to init.                                   *)
Reparented(p) ==
  [q \in Slots |-> IF parent[q] = p THEN InitProc ELSE parent[q]]

(* Mutant of Exit: the lock is released before the final switch.            *)
ExitUnlocked(p, c) ==
  /\ Exec(p, c) /\ pc[p] = "exit"
  /\ p # InitProc
  /\ ptlock = None
  /\ parent' = Reparented(p)
  /\ state' = [ExitWakeups(p) EXCEPT ![p] = "ZOMBIE"]
  /\ UNCHANGED <<pid, chan, killed, nextpid, threadVars, cpuVars, tickVars,
                 ptlock, panicked>>

(* The critical section of exit(), up to sched().  Closing the files and    *)
(* the working directory before it touches no state kept here.              *)
Exit(p, c) ==
  /\ Exec(p, c) /\ pc[p] = "exit"
  /\ p # InitProc
  /\ ptlock = None
  /\ ptlock' = c
  /\ parent' = Reparented(p)
  /\ state' = [ExitWakeups(p) EXCEPT ![p] = "ZOMBIE"]
  /\ UNCHANGED <<pid, chan, killed, nextpid, threadVars, cpuVars, tickVars,
                 panicked>>

(* exit() by initproc: panic("init exiting")                                *)
ExitPanic(p, c) ==
  /\ Exec(p, c) /\ pc[p] = "exit"
  /\ p = InitProc
  /\ panicked' = TRUE
  /\ UNCHANGED <<procVars, threadVars, cpuVars, tickVars, ptlock>>

SysWait(p, c) ==
  /\ Syscall(p, c)
  /\ p = InitProc => shell # None
  /\ GoTo(p, "wait")
  /\ UNCHANGED <<procVars, ctx, child, ticks0, dur, shell, cpuVars, tickVars,
                 ptlock, panicked>>

(* wait() with ptable.lock held by c: on entry, or again after a wakeup.    *)
InWait(p, c) ==
  \/ Exec(p, c) /\ pc[p] = "wait" /\ ptlock = None
  \/ Resuming(p, c, "wait")

(* An exited child is found: its slot is cleared and its pid returned.      *)
WaitReap(p, c) ==
  /\ InWait(p, c)
  /\ \E q \in Slots :
       /\ IsFirst(q, Zombies(p))
       /\ state' = [state EXCEPT ![q] = "UNUSED"]
       /\ pid' = [pid EXCEPT ![q] = 0]
       /\ parent' = [parent EXCEPT ![q] = None]
       /\ killed' = [killed EXCEPT ![q] = FALSE]
       /\ shell' = IF p = InitProc /\ pid[q] = shell THEN None ELSE shell
  /\ chan' = [chan EXCEPT ![p] = None]
  /\ ptlock' = None
  /\ GoTo(p, "sysret")
  /\ UNCHANGED <<nextpid, ctx, child, ticks0, dur, cpuVars, tickVars, panicked>>

(* Nothing to wait for, or killed: return -1.                               *)
WaitFail(p, c) ==
  /\ InWait(p, c)
  /\ Zombies(p) = {}
  /\ Children(p) = {} \/ killed[p]
  /\ shell' = IF p = InitProc THEN None ELSE shell
  /\ chan' = [chan EXCEPT ![p] = None]
  /\ ptlock' = None
  /\ GoTo(p, "sysret")
  /\ UNCHANGED <<state, pid, parent, killed, nextpid, ctx, child, ticks0, dur,
                 cpuVars, tickVars, panicked>>

(* Mutant of WaitSleep: sleeps without looking at p->killed.                *)
WaitSleepKilled(p, c) ==
  /\ InWait(p, c)
  /\ Zombies(p) = {}
  /\ Children(p) # {}
  /\ state' = [state EXCEPT ![p] = "SLEEPING"]
  /\ chan' = [chan EXCEPT ![p] = p]
  /\ ctx' = [ctx EXCEPT ![p] = "wait"]
  /\ GoTo(p, "wait")
  /\ ptlock' = c
  /\ UNCHANGED <<pid, parent, killed, nextpid, child, ticks0, dur, shell,
                 cpuVars, tickVars, panicked>>

(* sleep(curproc, &ptable.lock)                                             *)
WaitSleep(p, c) ==
  /\ InWait(p, c)
  /\ Zombies(p) = {}
  /\ Children(p) # {} /\ ~killed[p]
  /\ state' = [state EXCEPT ![p] = "SLEEPING"]
  /\ chan' = [chan EXCEPT ![p] = p]
  /\ ctx' = [ctx EXCEPT ![p] = "wait"]
  /\ GoTo(p, "wait")
  /\ ptlock' = c
  /\ UNCHANGED <<pid, parent, killed, nextpid, child, ticks0, dur, shell,
                 cpuVars, tickVars, panicked>>

-----------------------------------------------------------------------------
(* kill() and sys_sleep()                                                   *)

Named(n) == {q \in Slots : pid[q] = n}

(* Mutant of SysKill: the victim is marked but not woken.                   *)
SysKillNoWakeup(p, c, n) ==
  /\ Syscall(p, c)
  /\ p # InitProc
  /\ ptlock = None
  /\ \/ \E q \in Slots :
          IsFirst(q, Named(n)) /\ killed' = [killed EXCEPT ![q] = TRUE]
     \/ Named(n) = {} /\ UNCHANGED killed
  /\ GoTo(p, "sysret")
  /\ UNCHANGED <<state, pid, parent, chan, nextpid, ctx, child, ticks0, dur,
                 shell, cpuVars, tickVars, ptlock, panicked>>

(* kill(pid): mark the first slot with that pid, and wake it if it sleeps.  *)
SysKill(p, c, n) ==
  /\ Syscall(p, c)
  /\ p # InitProc
  /\ ptlock = None
  /\ \/ \E q \in Slots :
          /\ IsFirst(q, Named(n))
          /\ killed' = [killed EXCEPT ![q] = TRUE]
          /\ state' = [state EXCEPT
                         ![q] = IF @ = "SLEEPING" THEN "RUNNABLE" ELSE @]
     \/ Named(n) = {} /\ UNCHANGED <<killed, state>>
  /\ GoTo(p, "sysret")
  /\ UNCHANGED <<pid, parent, chan, nextpid, ctx, child, ticks0, dur, shell,
                 cpuVars, tickVars, ptlock, panicked>>

(* sys_sleep(): acquire(&tickslock); ticks0 = ticks                         *)
SysSleep(p, c, n) ==
  /\ Syscall(p, c)
  /\ p # InitProc
  /\ tickslock = None
  /\ tickslock' = c
  /\ ticks0' = [ticks0 EXCEPT ![p] = ticks]
  /\ dur' = [dur EXCEPT ![p] = n]
  /\ GoTo(p, "tickcheck")
  /\ UNCHANGED <<procVars, ctx, child, shell, cpuVars, ticks, ptlock, panicked>>

(* ticks - ticks0 in unsigned arithmetic.                                   *)
Elapsed(p) == (ticks + TickMod - ticks0[p]) % TickMod

(* Mutant of SleepCheck: tickslock is released before sleep() is entered.   *)
SleepCheckUnlocked(p, c) ==
  /\ Exec(p, c) /\ pc[p] = "tickcheck"
  /\ GoTo(p, IF Elapsed(p) < dur[p] /\ ~killed[p] THEN "sleep" ELSE "sysret")
  /\ tickslock' = None
  /\ UNCHANGED <<procVars, ctx, child, ticks0, dur, shell, cpuVars, ticks,
                 ptlock, panicked>>

(* The loop test of sys_sleep(), with tickslock held.                       *)
SleepCheck(p, c) ==
  /\ Exec(p, c) /\ pc[p] = "tickcheck"
  /\ IF Elapsed(p) < dur[p] /\ ~killed[p]
     THEN /\ GoTo(p, "sleep")
          /\ UNCHANGED <<tickslock, ticks0, dur>>
     ELSE /\ GoTo(p, "sysret")
          /\ tickslock' = None
          /\ ticks0' = [ticks0 EXCEPT ![p] = 0]
          /\ dur' = [dur EXCEPT ![p] = 0]
  /\ UNCHANGED <<procVars, ctx, child, shell, cpuVars, ticks, ptlock, panicked>>

(* sleep(&ticks, &tickslock): ptable.lock is taken before tickslock is      *)
(* released.                                                                *)
Sleep(p, c) ==
  /\ Exec(p, c) /\ pc[p] = "sleep"
  /\ ptlock = None
  /\ ptlock' = c
  /\ tickslock' = None
  /\ state' = [state EXCEPT ![p] = "SLEEPING"]
  /\ chan' = [chan EXCEPT ![p] = TicksChan]
  /\ ctx' = [ctx EXCEPT ![p] = "sleep"]
  /\ UNCHANGED <<pid, parent, killed, nextpid, pc, child, ticks0, dur, shell,
                 cpuVars, ticks, panicked>>

(* sleep() takes tickslock again before it returns.                         *)
SleepRelock(p, c) ==
  /\ Exec(p, c) /\ pc[p] = "relock"
  /\ tickslock = None
  /\ tickslock' = c
  /\ GoTo(p, "tickcheck")
  /\ UNCHANGED <<procVars, ctx, child, ticks0, dur, shell, cpuVars, ticks,
                 ptlock, panicked>>

-----------------------------------------------------------------------------
(* The specification.                                                       *)

(* panic() loops for ever, and every other CPU stops at its next output.    *)
Halted == panicked /\ UNCHANGED vars

SchedulerStep(c) ==
  SchedLock(c) \/ SchedRun(c) \/ SchedRelease(c) \/ Sched(c)

TrapStep(c) ==
  TickCount(c) \/ TickWakeup(c) \/ TrapIdle(c) \/ TrapExit(c) \/ TrapYield(c)

(* The first thing a dispatched process does: release the inherited lock.   *)
ResumeStep(p, c) ==
  ResumeForkret(p, c) \/ ResumeYield(p, c) \/ ResumeSleep(p, c)

(* What process p does by itself once it is inside the kernel.              *)
KernelStep(p, c) ==
  \/ SyscallReturn(p, c)
  \/ ForkFail(p, c) \/ ForkCopy(p, c) \/ ForkRun(p, c)
  \/ Exit(p, c) \/ ExitPanic(p, c)
  \/ WaitReap(p, c) \/ WaitFail(p, c) \/ WaitSleep(p, c)
  \/ SleepCheck(p, c) \/ Sleep(p, c) \/ SleepRelock(p, c)

(* What a user program may ask for, or run into.                            *)
UserStep(p, c) ==
  \/ AllocProc(p, c) \/ AllocProcFull(p, c)
  \/ SysExit(p, c) \/ SysWait(p, c)
  \/ \E n \in KillArgs : SysKill(p, c, n)
  \/ \E n \in SleepArgs : SysSleep(p, c, n)
  \/ Fault(p, c) \/ SyscallKilled(p, c)

Next ==
  \/ \E c \in CPUs : SchedulerStep(c) \/ TimerIntr(c) \/ TrapStep(c)
  \/ \E p \in Slots, c \in CPUs :
       ResumeStep(p, c) \/ KernelStep(p, c) \/ UserStep(p, c)
  \/ Halted

Spec == Init /\ [][Next]_vars

(* CPUs and the timer keep running; a timer interrupt stays pending until   *)
(* it can be taken; a process that is dispatched over and over executes     *)
(* some instruction before it is preempted again; init always calls wait()  *)
(* again.                                                                   *)
Fairness ==
  /\ \A c \in CPUs :
       /\ SF_vars(SchedulerStep(c))
       /\ WF_vars(TrapStep(c))
       /\ SF_vars(TimerIntr(c))
       /\ WF_vars(\E p \in Slots : ResumeStep(p, c))
  /\ \A p \in Slots : SF_vars(\E c \in CPUs : KernelStep(p, c))
  /\ SF_vars(\E c \in CPUs : UserStep(InitProc, c))

FairSpec == Spec /\ Fairness

-----------------------------------------------------------------------------
(* Properties.                                                              *)

(* A process runs on at most one CPU, exactly the CPUs' current processes   *)
(* are RUNNING, and only a CPU that holds ptable.lock can have a current    *)
(* process that already left RUNNING: scheduler(), sched() and the lock     *)
(* hand-over through swtch() never let two CPUs share a kernel stack.       *)
Dispatch ==
  /\ \A c, d \in CPUs : cur[c] = cur[d] /\ cur[c] # None => c = d
  /\ \A p \in Slots : state[p] = "RUNNING" => \E c \in CPUs : cur[c] = p
  /\ \A c \in CPUs :
       cur[c] # None => state[cur[c]] = "RUNNING" \/ ptlock = c

(* wait() never frees the kernel stack and page table of a process that a   *)
(* CPU still executes on: between ZOMBIE and swtch() exit() holds the lock. *)
StackNotFreed ==
  \A c \in CPUs : cur[c] # None => state[cur[c]] \notin {"UNUSED", "EMBRYO"}

(* Every process but init always has a parent that can still reap it:       *)
(* exit() hands the children of a dying process to init.                    *)
ParentLives ==
  \A p \in Slots \ {InitProc} :
    state[p] \in {"SLEEPING", "RUNNABLE", "RUNNING", "ZOMBIE"} =>
      /\ parent[p] # None
      /\ state[parent[p]] \in {"SLEEPING", "RUNNABLE", "RUNNING"}

(* No process sleeps in wait() while it has a child to reap: neither the    *)
(* child's own exit() nor the inheritance of a zombie can miss the sleeper. *)
ZombieNoticed ==
  \A p \in Slots : state[p] = "SLEEPING" /\ chan[p] = p => Zombies(p) = {}

(* kill() cannot miss a process on its way to sleep in wait(): a process    *)
(* that sleeps there has not been killed.                                   *)
KillNotMissedInWait ==
  \A p \in Slots : state[p] = "SLEEPING" /\ chan[p] = p => ~killed[p]

(* No tick is lost between sys_sleep()'s test and its sleep(): outside the  *)
(* tick handler itself, whoever sleeps on &ticks has ticks left to wait.    *)
TickNotMissed ==
  \A p \in Slots :
    state[p] = "SLEEPING" /\ chan[p] = TicksChan /\ trapno[BootCpu] # "wakeup"
      => Elapsed(p) < dur[p]

(* No two slots in use have the same pid, so kill() and wait() are          *)
(* unambiguous.                                                             *)
PidsUnique ==
  \A p, q \in Slots :
    state[p] # "UNUSED" /\ state[q] # "UNUSED" /\ pid[p] = pid[q] => p = q

(* A slot that leaves ZOMBIE is freed by wait() in its current parent.      *)
ReapStep ==
  \A q \in Slots :
    state[q] = "ZOMBIE" /\ state'[q] # "ZOMBIE" =>
      /\ state'[q] = "UNUSED" /\ pid'[q] = 0
      /\ \E c \in CPUs : cur[c] = parent[q] /\ pc[parent[q]] = "wait"

(* A zombie is only ever reaped, once, by wait() in the process that is its *)
(* parent at that moment, also when exit() hands it to init meanwhile.      *)
ReapedByParent == [][ReapStep]_vars

(* The round-robin pass serves every RUNNABLE process.                      *)
EveryRunnableRuns ==
  \A p \in Slots : state[p] = "RUNNABLE" ~> (state[p] = "RUNNING" \/ panicked)

(* A killed process exits, wherever kill() finds it: in user space, on its  *)
(* way into a sleep, or asleep.                                             *)
KilledExits ==
  \A p \in Slots \ {InitProc} :
    killed[p] ~> (state[p] \in {"ZOMBIE", "UNUSED"} \/ panicked)

(* A zombie that init is the parent of is reaped, also when init's shell    *)
(* dies first and init forks a new one before it waits again.  The model's  *)
(* bound on pids may stop init at that fork, and only there.                *)
OrphanReaped ==
  \A p \in Slots :
    (state[p] = "ZOMBIE" /\ parent[p] = InitProc)
      ~> (state[p] = "UNUSED" \/ panicked \/ (shell = None /\ nextpid > MaxPid))

(* Processes end: whatever kill() marks comes to exit(), and whatever exit() *)
(* leaves to init is reaped.                                                *)
EndsAndReaped == KilledExits /\ OrphanReaped
=============================================================================
