-------------------------- MODULE ProcTableProofs --------------------------
(* Proofs about ProcTable, for every number of slots, CPUs and pids.        *)
EXTENDS ProcTable, TLAPS

(* What the provers need to know of the constants and the null pointer.     *)
LEMMA Constants ==
  /\ InitProc \in Slots /\ None \notin Slots /\ TicksChan \notin Slots
  /\ TicksChan # None /\ None \in Nat
  /\ BootCpu \in CPUs /\ None \notin CPUs
  /\ 1 \in 1 .. (NPROC + 1) /\ 0 \in 0 .. (TickMod - 1)
  /\ \A p \in Slots : p \in 1 .. (NPROC + 1) /\ p + 1 \in 1 .. (NPROC + 1)
  /\ \A t \in 0 .. (TickMod - 1) : (t + 1) % TickMod \in 0 .. (TickMod - 1)
  BY NPROCAssumption, NCPUAssumption, TickModAssumption, SMT
  DEF Slots, CPUs, None, InitProc, BootCpu, TicksChan

-----------------------------------------------------------------------------
(* Type correctness.                                                        *)

(* fork()'s local np is a slot wherever fork() still uses it.               *)
ChildIsSlot ==
  \A p \in Slots : pc[p] \in {"fork", "forked"} => child[p] \in Slots

(* TypeOK is inductive together with ChildIsSlot: fork() reads np->pid.     *)
TypeInv == TypeOK /\ ChildIsSlot

(* The state userinit() leaves is well typed.                               *)
LEMMA TypeInit == Init => TypeInv
<1> SUFFICES ASSUME Init PROVE TypeInv
  OBVIOUS
<1> USE Constants DEF Init, States, Locations, Contexts, TrapPhases
<1>1. state \in [Slots -> States] /\ pid \in [Slots -> Nat]
  OBVIOUS
<1>2. /\ parent \in [Slots -> Slots \cup {None}]
      /\ chan \in [Slots -> Slots \cup {None, TicksChan}]
      /\ child \in [Slots -> Slots \cup {None}]
      /\ cur \in [CPUs -> Slots \cup {None}]
  OBVIOUS
<1>3. /\ pc \in [Slots -> Locations] /\ ctx \in [Slots -> Contexts]
      /\ killed \in [Slots -> BOOLEAN] /\ trapno \in [CPUs -> TrapPhases]
      /\ ptlock \in CPUs \cup {None} /\ tickslock \in CPUs \cup {None}
      /\ panicked \in BOOLEAN
  OBVIOUS
<1>4. /\ ticks0 \in [Slots -> 0 .. (TickMod - 1)]
      /\ dur \in [Slots -> 0 .. (TickMod - 1)]
      /\ ticks \in 0 .. (TickMod - 1)
      /\ scan \in [CPUs -> 1 .. (NPROC + 1)]
      /\ nextpid \in Nat /\ shell \in Nat
  OBVIOUS
<1> QED
  BY <1>1, <1>2, <1>3, <1>4 DEF TypeInv, TypeOK, ChildIsSlot

(* Every step of proc.c, trap.c and sys_sleep() keeps the types.            *)
LEMMA TypeStep == TypeInv /\ [Next]_vars => TypeInv'
<1> SUFFICES ASSUME TypeInv, [Next]_vars PROVE TypeInv'
  OBVIOUS
<1> USE Constants, SleepArgsAssumption
    DEF TypeInv, TypeOK, ChildIsSlot, States, Locations, Contexts, TrapPhases,
        procVars, threadVars, cpuVars, tickVars
<1>1. ASSUME NEW c \in CPUs, SchedLock(c) PROVE TypeInv'
  BY <1>1 DEF SchedLock
<1>2. ASSUME NEW c \in CPUs, SchedRun(c) PROVE TypeInv'
  BY <1>2 DEF SchedRun
<1>3. ASSUME NEW c \in CPUs, SchedRelease(c) PROVE TypeInv'
  BY <1>3 DEF SchedRelease
<1>4. ASSUME NEW c \in CPUs, Sched(c) PROVE TypeInv'
  BY <1>4 DEF Sched
<1>5. ASSUME NEW c \in CPUs, TimerIntr(c) PROVE TypeInv'
  BY <1>5 DEF TimerIntr
<1>6. ASSUME NEW c \in CPUs, TickCount(c) PROVE TypeInv'
  BY <1>6 DEF TickCount
<1>7. ASSUME NEW c \in CPUs, TickWakeup(c) PROVE TypeInv'
  BY <1>7 DEF TickWakeup, Wakeup1
<1>8. ASSUME NEW c \in CPUs, TrapIdle(c) PROVE TypeInv'
  BY <1>8 DEF TrapIdle
<1>9. ASSUME NEW c \in CPUs, TrapExit(c) PROVE TypeInv'
  BY <1>9 DEF TrapExit, GoTo
<1>10. ASSUME NEW c \in CPUs, TrapYield(c) PROVE TypeInv'
  BY <1>10 DEF TrapYield
<1>11. ASSUME NEW p \in Slots, NEW c \in CPUs, ResumeForkret(p, c) PROVE TypeInv'
  BY <1>11 DEF ResumeForkret
<1>12. ASSUME NEW p \in Slots, NEW c \in CPUs, ResumeYield(p, c) PROVE TypeInv'
  BY <1>12 DEF ResumeYield, GoTo
<1>13. ASSUME NEW p \in Slots, NEW c \in CPUs, ResumeSleep(p, c) PROVE TypeInv'
  BY <1>13 DEF ResumeSleep, GoTo
<1>14. ASSUME NEW p \in Slots, NEW c \in CPUs, SyscallReturn(p, c) PROVE TypeInv'
  BY <1>14 DEF SyscallReturn, GoTo
<1>15. ASSUME NEW p \in Slots, NEW c \in CPUs, ForkFail(p, c) PROVE TypeInv'
  BY <1>15 DEF ForkFail, GoTo, ForkError
<1>16. ASSUME NEW p \in Slots, NEW c \in CPUs, ForkCopy(p, c) PROVE TypeInv'
  BY <1>16 DEF ForkCopy
<1>17. ASSUME NEW p \in Slots, NEW c \in CPUs, ForkRun(p, c) PROVE TypeInv'
  BY <1>17 DEF ForkRun, GoTo
<1>18. ASSUME NEW p \in Slots, NEW c \in CPUs, Exit(p, c) PROVE TypeInv'
  BY <1>18 DEF Exit, ExitWakeups, Wakeup1, Reparented
<1>19. ASSUME NEW p \in Slots, NEW c \in CPUs, ExitPanic(p, c) PROVE TypeInv'
  BY <1>19 DEF ExitPanic
<1>20. ASSUME NEW p \in Slots, NEW c \in CPUs, WaitReap(p, c) PROVE TypeInv'
  BY <1>20 DEF WaitReap, GoTo
<1>21. ASSUME NEW p \in Slots, NEW c \in CPUs, WaitFail(p, c) PROVE TypeInv'
  BY <1>21 DEF WaitFail, GoTo
<1>22. ASSUME NEW p \in Slots, NEW c \in CPUs, WaitSleep(p, c) PROVE TypeInv'
  BY <1>22 DEF WaitSleep, GoTo
<1>23. ASSUME NEW p \in Slots, NEW c \in CPUs, SleepCheck(p, c) PROVE TypeInv'
  BY <1>23 DEF SleepCheck, GoTo
<1>24. ASSUME NEW p \in Slots, NEW c \in CPUs, Sleep(p, c) PROVE TypeInv'
  BY <1>24 DEF Sleep
<1>25. ASSUME NEW p \in Slots, NEW c \in CPUs, SleepRelock(p, c) PROVE TypeInv'
  BY <1>25 DEF SleepRelock, GoTo
<1>26. ASSUME NEW p \in Slots, NEW c \in CPUs, AllocProc(p, c) PROVE TypeInv'
  BY <1>26 DEF AllocProc, GoTo
<1>27. ASSUME NEW p \in Slots, NEW c \in CPUs, AllocProcFull(p, c) PROVE TypeInv'
  BY <1>27 DEF AllocProcFull, GoTo, ForkError
<1>28. ASSUME NEW p \in Slots, NEW c \in CPUs, SysExit(p, c) PROVE TypeInv'
  BY <1>28 DEF SysExit, GoTo
<1>29. ASSUME NEW p \in Slots, NEW c \in CPUs, SysWait(p, c) PROVE TypeInv'
  BY <1>29 DEF SysWait, GoTo
<1>30. ASSUME NEW p \in Slots, NEW c \in CPUs, Fault(p, c) PROVE TypeInv'
  BY <1>30 DEF Fault, GoTo
<1>31. ASSUME NEW p \in Slots, NEW c \in CPUs, SyscallKilled(p, c) PROVE TypeInv'
  BY <1>31 DEF SyscallKilled, GoTo
<1>32. ASSUME NEW p \in Slots, NEW c \in CPUs, NEW n \in KillArgs,
             SysKill(p, c, n)
      PROVE TypeInv'
  <2>1. state' \in [Slots -> States] /\ killed' \in [Slots -> BOOLEAN]
    <3>1. CASE Named(n) = {} /\ UNCHANGED <<killed, state>>
      BY <3>1
    <3>2. ASSUME NEW q \in Slots,
                 killed' = [killed EXCEPT ![q] = TRUE],
                 state' = [state EXCEPT
                             ![q] = IF @ = "SLEEPING" THEN "RUNNABLE" ELSE @]
          PROVE  state' \in [Slots -> States] /\ killed' \in [Slots -> BOOLEAN]
      BY <3>2
    <3> QED
      BY <1>32, <3>1, <3>2 DEF SysKill
  <2> QED
    BY <1>32, <2>1 DEF SysKill, GoTo
<1>33. ASSUME NEW p \in Slots, NEW c \in CPUs, NEW n \in SleepArgs,
             SysSleep(p, c, n)
      PROVE TypeInv'
  BY <1>33 DEF SysSleep, GoTo
<1>34. CASE UNCHANGED vars
  BY <1>34 DEF vars
<1> QED
  BY <1>1, <1>2, <1>3, <1>4, <1>5, <1>6, <1>7, <1>8, <1>9, <1>10, <1>11,
     <1>12, <1>13, <1>14, <1>15, <1>16, <1>17, <1>18, <1>19, <1>20,
     <1>21, <1>22, <1>23, <1>24, <1>25, <1>26, <1>27, <1>28, <1>29,
     <1>30, <1>31, <1>32, <1>33, <1>34 DEF Next, Halted, SchedulerStep,
     TrapStep, ResumeStep, KernelStep, UserStep

-----------------------------------------------------------------------------
(* Dispatching.                                                             *)

Forking(p) == pc[p] \in {"fork", "forked"}

(* The slot fork() is filling is EMBRYO, belongs to one fork() only, and    *)
(* once copied has its parent and its first context.  fork() writes it      *)
(* without the lock, so this is what keeps that safe.                       *)
ForkOwnsChild ==
  \A p \in Slots :
    /\ Forking(p) => state[child[p]] = "EMBRYO"
    /\ \A q \in Slots : Forking(p) /\ Forking(q) /\ child[p] = child[q] => p = q
    /\ pc[p] = "forked" =>
         /\ parent[child[p]] = p
         /\ ctx[child[p]] = "forkret" /\ pc[child[p]] = "user"

DispatchInv == Dispatch /\ StackNotFreed /\ ForkOwnsChild


(* Every step keeps CPUs, their current processes and the slots that fork() *)
(* is filling in agreement.                                                 *)
LEMMA DispatchStep ==
  TypeInv /\ DispatchInv /\ [Next]_vars => DispatchInv'
<1> SUFFICES ASSUME TypeInv, DispatchInv, [Next]_vars PROVE DispatchInv'
  OBVIOUS
<1> USE Constants
    DEF TypeInv, TypeOK, ChildIsSlot, DispatchInv, Dispatch, StackNotFreed,
        ForkOwnsChild, Forking, procVars, threadVars, cpuVars, tickVars
<1>1. ASSUME NEW c \in CPUs, SchedLock(c) PROVE DispatchInv'
  BY <1>1 DEF SchedLock
<1>2. ASSUME NEW c \in CPUs, SchedRun(c) PROVE DispatchInv'
  BY <1>2 DEF SchedRun, IsFirst, Runnable
<1>3. ASSUME NEW c \in CPUs, SchedRelease(c) PROVE DispatchInv'
  BY <1>3 DEF SchedRelease
<1>4. ASSUME NEW c \in CPUs, Sched(c) PROVE DispatchInv'
  BY <1>4 DEF Sched
<1>5. ASSUME NEW c \in CPUs, TimerIntr(c) PROVE DispatchInv'
  BY <1>5 DEF TimerIntr
<1>6. ASSUME NEW c \in CPUs, TickCount(c) PROVE DispatchInv'
  BY <1>6 DEF TickCount
<1>7. ASSUME NEW c \in CPUs, TickWakeup(c) PROVE DispatchInv'
  BY <1>7 DEF TickWakeup, Wakeup1
<1>8. ASSUME NEW c \in CPUs, TrapIdle(c) PROVE DispatchInv'
  BY <1>8 DEF TrapIdle
<1>9. ASSUME NEW c \in CPUs, TrapExit(c) PROVE DispatchInv'
  BY <1>9 DEF TrapExit, GoTo
<1>10. ASSUME NEW c \in CPUs, TrapYield(c) PROVE DispatchInv'
  BY <1>10 DEF TrapYield
<1>11. ASSUME NEW p \in Slots, NEW c \in CPUs, ResumeForkret(p, c) PROVE DispatchInv'
  BY <1>11 DEF ResumeForkret, Resuming
<1>12. ASSUME NEW p \in Slots, NEW c \in CPUs, ResumeYield(p, c) PROVE DispatchInv'
  BY <1>12 DEF ResumeYield, Resuming, GoTo
<1>13. ASSUME NEW p \in Slots, NEW c \in CPUs, ResumeSleep(p, c) PROVE DispatchInv'
  BY <1>13 DEF ResumeSleep, Resuming, GoTo
<1>14. ASSUME NEW p \in Slots, NEW c \in CPUs, SyscallReturn(p, c) PROVE DispatchInv'
  BY <1>14 DEF SyscallReturn, Exec, GoTo
<1>15. ASSUME NEW p \in Slots, NEW c \in CPUs, ForkFail(p, c) PROVE DispatchInv'
  BY <1>15 DEF ForkFail, Exec, GoTo, ForkError
<1>16. ASSUME NEW p \in Slots, NEW c \in CPUs, ForkCopy(p, c) PROVE DispatchInv'
  BY <1>16 DEF ForkCopy, Exec
<1>17. ASSUME NEW p \in Slots, NEW c \in CPUs, ForkRun(p, c) PROVE DispatchInv'
  BY <1>17 DEF ForkRun, Exec, GoTo
<1>18. ASSUME NEW p \in Slots, NEW c \in CPUs, Exit(p, c) PROVE DispatchInv'
  <2>1. state[p] = "RUNNING"
    BY <1>18 DEF Exit, Exec
  <2>2. /\ state'[p] = "ZOMBIE"
        /\ \A q \in Slots \ {p} :
             \/ state'[q] = state[q]
             \/ state[q] = "SLEEPING" /\ state'[q] = "RUNNABLE"
    BY <1>18 DEF Exit, ExitWakeups, Wakeup1
  <2>3. \A q \in Slots : parent[q] # p => parent'[q] = parent[q]
    BY <1>18 DEF Exit, Reparented
  <2>4. Dispatch' /\ StackNotFreed'
    BY <1>18, <2>1, <2>2 DEF Exit, Exec
  <2>5. ForkOwnsChild'
    BY <1>18, <2>1, <2>2, <2>3 DEF Exit, Exec
  <2> QED
    BY <2>4, <2>5
<1>19. ASSUME NEW p \in Slots, NEW c \in CPUs, ExitPanic(p, c) PROVE DispatchInv'
  BY <1>19 DEF ExitPanic, Exec
<1>20. ASSUME NEW p \in Slots, NEW c \in CPUs, WaitReap(p, c) PROVE DispatchInv'
  BY <1>20 DEF WaitReap, InWait, Exec, Resuming, GoTo, IsFirst, Zombies, Children
<1>21. ASSUME NEW p \in Slots, NEW c \in CPUs, WaitFail(p, c) PROVE DispatchInv'
  BY <1>21 DEF WaitFail, InWait, Exec, Resuming, GoTo
<1>22. ASSUME NEW p \in Slots, NEW c \in CPUs, WaitSleep(p, c) PROVE DispatchInv'
  BY <1>22 DEF WaitSleep, InWait, Exec, Resuming, GoTo
<1>23. ASSUME NEW p \in Slots, NEW c \in CPUs, SleepCheck(p, c) PROVE DispatchInv'
  BY <1>23 DEF SleepCheck, Exec, GoTo
<1>24. ASSUME NEW p \in Slots, NEW c \in CPUs, Sleep(p, c) PROVE DispatchInv'
  BY <1>24 DEF Sleep, Exec
<1>25. ASSUME NEW p \in Slots, NEW c \in CPUs, SleepRelock(p, c) PROVE DispatchInv'
  BY <1>25 DEF SleepRelock, Exec, GoTo
<1>26. ASSUME NEW p \in Slots, NEW c \in CPUs, AllocProc(p, c) PROVE DispatchInv'
  BY <1>26 DEF AllocProc, Syscall, Exec, GoTo, IsFirst, Free
<1>27. ASSUME NEW p \in Slots, NEW c \in CPUs, AllocProcFull(p, c) PROVE DispatchInv'
  BY <1>27 DEF AllocProcFull, Syscall, Exec, GoTo, ForkError
<1>28. ASSUME NEW p \in Slots, NEW c \in CPUs, SysExit(p, c) PROVE DispatchInv'
  BY <1>28 DEF SysExit, Syscall, Exec, GoTo
<1>29. ASSUME NEW p \in Slots, NEW c \in CPUs, SysWait(p, c) PROVE DispatchInv'
  BY <1>29 DEF SysWait, Syscall, Exec, GoTo
<1>30. ASSUME NEW p \in Slots, NEW c \in CPUs, Fault(p, c) PROVE DispatchInv'
  BY <1>30 DEF Fault, Exec, GoTo
<1>31. ASSUME NEW p \in Slots, NEW c \in CPUs, SyscallKilled(p, c) PROVE DispatchInv'
  BY <1>31 DEF SyscallKilled, Exec, GoTo
<1>32. ASSUME NEW p \in Slots, NEW c \in CPUs, NEW n \in KillArgs,
             SysKill(p, c, n)
      PROVE DispatchInv'
  BY <1>32 DEF SysKill, Syscall, Exec, GoTo, IsFirst, Named
<1>33. ASSUME NEW p \in Slots, NEW c \in CPUs, NEW n \in SleepArgs,
             SysSleep(p, c, n)
      PROVE DispatchInv'
  BY <1>33 DEF SysSleep, Syscall, Exec, GoTo
<1>34. CASE UNCHANGED vars
  BY <1>34 DEF vars
<1> QED
  BY <1>1, <1>2, <1>3, <1>4, <1>5, <1>6, <1>7, <1>8, <1>9, <1>10, <1>11,
     <1>12, <1>13, <1>14, <1>15, <1>16, <1>17, <1>18, <1>19, <1>20,
     <1>21, <1>22, <1>23, <1>24, <1>25, <1>26, <1>27, <1>28, <1>29,
     <1>30, <1>31, <1>32, <1>33, <1>34 DEF Next, Halted, SchedulerStep,
     TrapStep, ResumeStep, KernelStep, UserStep
-----------------------------------------------------------------------------
(* Parents and children.                                                    *)

(* init never dies, has no parent, and nobody is its own parent.            *)
InitLives ==
  /\ state[InitProc] \in {"SLEEPING", "RUNNABLE", "RUNNING"}
  /\ parent[InitProc] = None
  /\ \A p \in Slots : parent[p] # p

FamilyInv == InitLives /\ ParentLives /\ ZombieNoticed /\ KillNotMissedInWait


(* Every step keeps parents alive and sleeping parents without zombies.     *)
LEMMA FamilyStep ==
  TypeInv /\ DispatchInv /\ FamilyInv /\ [Next]_vars => FamilyInv'
<1> SUFFICES ASSUME TypeInv, DispatchInv, FamilyInv, [Next]_vars
             PROVE  FamilyInv'
  OBVIOUS
<1> USE Constants
    DEF TypeInv, TypeOK, ChildIsSlot, DispatchInv, Dispatch, ForkOwnsChild,
        Forking, FamilyInv, InitLives, ParentLives, ZombieNoticed, Zombies,
        Children, KillNotMissedInWait, procVars, threadVars, cpuVars, tickVars
<1>1. ASSUME NEW c \in CPUs, SchedLock(c) PROVE FamilyInv'
  BY <1>1 DEF SchedLock
<1>2. ASSUME NEW c \in CPUs, SchedRun(c) PROVE FamilyInv'
  BY <1>2 DEF SchedRun, IsFirst, Runnable
<1>3. ASSUME NEW c \in CPUs, SchedRelease(c) PROVE FamilyInv'
  BY <1>3 DEF SchedRelease
<1>4. ASSUME NEW c \in CPUs, Sched(c) PROVE FamilyInv'
  BY <1>4 DEF Sched
<1>5. ASSUME NEW c \in CPUs, TimerIntr(c) PROVE FamilyInv'
  BY <1>5 DEF TimerIntr
<1>6. ASSUME NEW c \in CPUs, TickCount(c) PROVE FamilyInv'
  BY <1>6 DEF TickCount
<1>7. ASSUME NEW c \in CPUs, TickWakeup(c) PROVE FamilyInv'
  BY <1>7 DEF TickWakeup, Wakeup1
<1>8. ASSUME NEW c \in CPUs, TrapIdle(c) PROVE FamilyInv'
  BY <1>8 DEF TrapIdle
<1>9. ASSUME NEW c \in CPUs, TrapExit(c) PROVE FamilyInv'
  BY <1>9 DEF TrapExit, GoTo
<1>10. ASSUME NEW c \in CPUs, TrapYield(c) PROVE FamilyInv'
  BY <1>10 DEF TrapYield
<1>11. ASSUME NEW p \in Slots, NEW c \in CPUs, ResumeForkret(p, c) PROVE FamilyInv'
  BY <1>11 DEF ResumeForkret, Resuming
<1>12. ASSUME NEW p \in Slots, NEW c \in CPUs, ResumeYield(p, c) PROVE FamilyInv'
  BY <1>12 DEF ResumeYield, Resuming, GoTo
<1>13. ASSUME NEW p \in Slots, NEW c \in CPUs, ResumeSleep(p, c) PROVE FamilyInv'
  BY <1>13 DEF ResumeSleep, Resuming, GoTo
<1>14. ASSUME NEW p \in Slots, NEW c \in CPUs, SyscallReturn(p, c) PROVE FamilyInv'
  BY <1>14 DEF SyscallReturn, Exec, GoTo
<1>15. ASSUME NEW p \in Slots, NEW c \in CPUs, ForkFail(p, c) PROVE FamilyInv'
  BY <1>15 DEF ForkFail, Exec, GoTo, ForkError
<1>16. ASSUME NEW p \in Slots, NEW c \in CPUs, ForkCopy(p, c) PROVE FamilyInv'
  BY <1>16 DEF ForkCopy, Exec
<1>17. ASSUME NEW p \in Slots, NEW c \in CPUs, ForkRun(p, c) PROVE FamilyInv'
  BY <1>17 DEF ForkRun, Exec, GoTo
<1>18. ASSUME NEW p \in Slots, NEW c \in CPUs, Exit(p, c) PROVE FamilyInv'
  BY <1>18 DEF Exit, Exec, ExitWakeups, Wakeup1, Reparented
<1>19. ASSUME NEW p \in Slots, NEW c \in CPUs, ExitPanic(p, c) PROVE FamilyInv'
  BY <1>19 DEF ExitPanic, Exec
<1>20. ASSUME NEW p \in Slots, NEW c \in CPUs, WaitReap(p, c) PROVE FamilyInv'
  BY <1>20 DEF WaitReap, InWait, Exec, Resuming, GoTo, IsFirst, Zombies, Children
<1>21. ASSUME NEW p \in Slots, NEW c \in CPUs, WaitFail(p, c) PROVE FamilyInv'
  BY <1>21 DEF WaitFail, InWait, Exec, Resuming, GoTo
<1>22. ASSUME NEW p \in Slots, NEW c \in CPUs, WaitSleep(p, c) PROVE FamilyInv'
  BY <1>22 DEF WaitSleep, InWait, Exec, Resuming, GoTo
<1>23. ASSUME NEW p \in Slots, NEW c \in CPUs, SleepCheck(p, c) PROVE FamilyInv'
  BY <1>23 DEF SleepCheck, Exec, GoTo
<1>24. ASSUME NEW p \in Slots, NEW c \in CPUs, Sleep(p, c) PROVE FamilyInv'
  BY <1>24 DEF Sleep, Exec
<1>25. ASSUME NEW p \in Slots, NEW c \in CPUs, SleepRelock(p, c) PROVE FamilyInv'
  BY <1>25 DEF SleepRelock, Exec, GoTo
<1>26. ASSUME NEW p \in Slots, NEW c \in CPUs, AllocProc(p, c) PROVE FamilyInv'
  BY <1>26 DEF AllocProc, Syscall, Exec, GoTo, IsFirst, Free
<1>27. ASSUME NEW p \in Slots, NEW c \in CPUs, AllocProcFull(p, c) PROVE FamilyInv'
  BY <1>27 DEF AllocProcFull, Syscall, Exec, GoTo, ForkError
<1>28. ASSUME NEW p \in Slots, NEW c \in CPUs, SysExit(p, c) PROVE FamilyInv'
  BY <1>28 DEF SysExit, Syscall, Exec, GoTo
<1>29. ASSUME NEW p \in Slots, NEW c \in CPUs, SysWait(p, c) PROVE FamilyInv'
  BY <1>29 DEF SysWait, Syscall, Exec, GoTo
<1>30. ASSUME NEW p \in Slots, NEW c \in CPUs, Fault(p, c) PROVE FamilyInv'
  BY <1>30 DEF Fault, Exec, GoTo
<1>31. ASSUME NEW p \in Slots, NEW c \in CPUs, SyscallKilled(p, c) PROVE FamilyInv'
  BY <1>31 DEF SyscallKilled, Exec, GoTo
<1>32. ASSUME NEW p \in Slots, NEW c \in CPUs, NEW n \in KillArgs,
             SysKill(p, c, n)
      PROVE FamilyInv'
  <2>1. CASE Named(n) = {} /\ UNCHANGED <<killed, state>>
    BY <1>32, <2>1 DEF SysKill
  <2>2. ASSUME NEW q \in Slots,
               killed' = [killed EXCEPT ![q] = TRUE],
               state' = [state EXCEPT
                           ![q] = IF @ = "SLEEPING" THEN "RUNNABLE" ELSE @]
        PROVE  FamilyInv'
    BY <1>32, <2>2 DEF SysKill
  <2> QED
    BY <1>32, <2>1, <2>2 DEF SysKill
<1>33. ASSUME NEW p \in Slots, NEW c \in CPUs, NEW n \in SleepArgs,
             SysSleep(p, c, n)
      PROVE FamilyInv'
  BY <1>33 DEF SysSleep, Syscall, Exec, GoTo
<1>34. CASE UNCHANGED vars
  BY <1>34 DEF vars
<1> QED
  BY <1>1, <1>2, <1>3, <1>4, <1>5, <1>6, <1>7, <1>8, <1>9, <1>10, <1>11,
     <1>12, <1>13, <1>14, <1>15, <1>16, <1>17, <1>18, <1>19, <1>20,
     <1>21, <1>22, <1>23, <1>24, <1>25, <1>26, <1>27, <1>28, <1>29,
     <1>30, <1>31, <1>32, <1>33, <1>34 DEF Next, Halted, SchedulerStep,
     TrapStep, ResumeStep, KernelStep, UserStep
-----------------------------------------------------------------------------
(* Pids.                                                                    *)

PidInv == PidsUnique /\ \A p \in Slots : pid[p] < nextpid


(* Every step keeps the pids in use distinct and below nextpid.             *)
LEMMA PidStep == TypeInv /\ DispatchInv /\ PidInv /\ [Next]_vars => PidInv'
<1> SUFFICES ASSUME TypeInv, DispatchInv, PidInv, [Next]_vars PROVE PidInv'
  OBVIOUS
<1> USE Constants
    DEF TypeInv, TypeOK, ChildIsSlot, DispatchInv, Dispatch, ForkOwnsChild,
        Forking, PidInv, PidsUnique, procVars, threadVars, cpuVars, tickVars
<1>1. ASSUME NEW c \in CPUs, SchedLock(c) PROVE PidInv'
  BY <1>1 DEF SchedLock
<1>2. ASSUME NEW c \in CPUs, SchedRun(c) PROVE PidInv'
  BY <1>2 DEF SchedRun, IsFirst, Runnable
<1>3. ASSUME NEW c \in CPUs, SchedRelease(c) PROVE PidInv'
  BY <1>3 DEF SchedRelease
<1>4. ASSUME NEW c \in CPUs, Sched(c) PROVE PidInv'
  BY <1>4 DEF Sched
<1>5. ASSUME NEW c \in CPUs, TimerIntr(c) PROVE PidInv'
  BY <1>5 DEF TimerIntr
<1>6. ASSUME NEW c \in CPUs, TickCount(c) PROVE PidInv'
  BY <1>6 DEF TickCount
<1>7. ASSUME NEW c \in CPUs, TickWakeup(c) PROVE PidInv'
  BY <1>7 DEF TickWakeup, Wakeup1
<1>8. ASSUME NEW c \in CPUs, TrapIdle(c) PROVE PidInv'
  BY <1>8 DEF TrapIdle
<1>9. ASSUME NEW c \in CPUs, TrapExit(c) PROVE PidInv'
  BY <1>9 DEF TrapExit, GoTo
<1>10. ASSUME NEW c \in CPUs, TrapYield(c) PROVE PidInv'
  BY <1>10 DEF TrapYield
<1>11. ASSUME NEW p \in Slots, NEW c \in CPUs, ResumeForkret(p, c) PROVE PidInv'
  BY <1>11 DEF ResumeForkret, Resuming
<1>12. ASSUME NEW p \in Slots, NEW c \in CPUs, ResumeYield(p, c) PROVE PidInv'
  BY <1>12 DEF ResumeYield, Resuming, GoTo
<1>13. ASSUME NEW p \in Slots, NEW c \in CPUs, ResumeSleep(p, c) PROVE PidInv'
  BY <1>13 DEF ResumeSleep, Resuming, GoTo
<1>14. ASSUME NEW p \in Slots, NEW c \in CPUs, SyscallReturn(p, c) PROVE PidInv'
  BY <1>14 DEF SyscallReturn, Exec, GoTo
<1>15. ASSUME NEW p \in Slots, NEW c \in CPUs, ForkFail(p, c) PROVE PidInv'
  BY <1>15 DEF ForkFail, Exec, GoTo, ForkError
<1>16. ASSUME NEW p \in Slots, NEW c \in CPUs, ForkCopy(p, c) PROVE PidInv'
  BY <1>16 DEF ForkCopy, Exec
<1>17. ASSUME NEW p \in Slots, NEW c \in CPUs, ForkRun(p, c) PROVE PidInv'
  BY <1>17 DEF ForkRun, Exec, GoTo
<1>18. ASSUME NEW p \in Slots, NEW c \in CPUs, Exit(p, c) PROVE PidInv'
  BY <1>18 DEF Exit, Exec, ExitWakeups, Wakeup1, Reparented
<1>19. ASSUME NEW p \in Slots, NEW c \in CPUs, ExitPanic(p, c) PROVE PidInv'
  BY <1>19 DEF ExitPanic, Exec
<1>20. ASSUME NEW p \in Slots, NEW c \in CPUs, WaitReap(p, c) PROVE PidInv'
  BY <1>20 DEF WaitReap, InWait, Exec, Resuming, GoTo, IsFirst, Zombies, Children
<1>21. ASSUME NEW p \in Slots, NEW c \in CPUs, WaitFail(p, c) PROVE PidInv'
  BY <1>21 DEF WaitFail, InWait, Exec, Resuming, GoTo
<1>22. ASSUME NEW p \in Slots, NEW c \in CPUs, WaitSleep(p, c) PROVE PidInv'
  BY <1>22 DEF WaitSleep, InWait, Exec, Resuming, GoTo
<1>23. ASSUME NEW p \in Slots, NEW c \in CPUs, SleepCheck(p, c) PROVE PidInv'
  BY <1>23 DEF SleepCheck, Exec, GoTo
<1>24. ASSUME NEW p \in Slots, NEW c \in CPUs, Sleep(p, c) PROVE PidInv'
  BY <1>24 DEF Sleep, Exec
<1>25. ASSUME NEW p \in Slots, NEW c \in CPUs, SleepRelock(p, c) PROVE PidInv'
  BY <1>25 DEF SleepRelock, Exec, GoTo
<1>26. ASSUME NEW p \in Slots, NEW c \in CPUs, AllocProc(p, c) PROVE PidInv'
  BY <1>26 DEF AllocProc, Syscall, Exec, GoTo, IsFirst, Free
<1>27. ASSUME NEW p \in Slots, NEW c \in CPUs, AllocProcFull(p, c) PROVE PidInv'
  BY <1>27 DEF AllocProcFull, Syscall, Exec, GoTo, ForkError
<1>28. ASSUME NEW p \in Slots, NEW c \in CPUs, SysExit(p, c) PROVE PidInv'
  BY <1>28 DEF SysExit, Syscall, Exec, GoTo
<1>29. ASSUME NEW p \in Slots, NEW c \in CPUs, SysWait(p, c) PROVE PidInv'
  BY <1>29 DEF SysWait, Syscall, Exec, GoTo
<1>30. ASSUME NEW p \in Slots, NEW c \in CPUs, Fault(p, c) PROVE PidInv'
  BY <1>30 DEF Fault, Exec, GoTo
<1>31. ASSUME NEW p \in Slots, NEW c \in CPUs, SyscallKilled(p, c) PROVE PidInv'
  BY <1>31 DEF SyscallKilled, Exec, GoTo
<1>32. ASSUME NEW p \in Slots, NEW c \in CPUs, NEW n \in KillArgs,
             SysKill(p, c, n)
      PROVE PidInv'
  BY <1>32 DEF SysKill, Syscall, Exec, GoTo, IsFirst, Named
<1>33. ASSUME NEW p \in Slots, NEW c \in CPUs, NEW n \in SleepArgs,
             SysSleep(p, c, n)
      PROVE PidInv'
  BY <1>33 DEF SysSleep, Syscall, Exec, GoTo
<1>34. CASE UNCHANGED vars
  BY <1>34 DEF vars
<1> QED
  BY <1>1, <1>2, <1>3, <1>4, <1>5, <1>6, <1>7, <1>8, <1>9, <1>10, <1>11,
     <1>12, <1>13, <1>14, <1>15, <1>16, <1>17, <1>18, <1>19, <1>20,
     <1>21, <1>22, <1>23, <1>24, <1>25, <1>26, <1>27, <1>28, <1>29,
     <1>30, <1>31, <1>32, <1>33, <1>34 DEF Next, Halted, SchedulerStep,
     TrapStep, ResumeStep, KernelStep, UserStep
-----------------------------------------------------------------------------
(* Contexts and ticks.                                                      *)

(* p waits for the scheduler, or was dispatched and still holds its lock.   *)
Suspended(p) ==
  \/ state[p] \in {"SLEEPING", "RUNNABLE"}
  \/ state[p] = "RUNNING" /\ \E c \in CPUs : cur[c] = p /\ ptlock = c

(* Where a suspended process resumes agrees with where it stopped.          *)
ContextInv ==
  \A p \in Slots : Suspended(p) =>
    /\ ctx[p] = "forkret" => pc[p] = "user"
    /\ ctx[p] = "yield" => pc[p] \notin {"tickcheck", "sleep"}
    /\ ctx[p] = "wait" => pc[p] = "wait"

(* tickslock is held from sys_sleep()'s test to its sleep(), and by the     *)
(* tick handler from its increment to its wakeup.                           *)
TickLockInv ==
  /\ \A c \in CPUs : trapno[c] \in {"tick", "wakeup"} => c = BootCpu
  /\ \A c \in CPUs : trapno[c] # "none" => ptlock # c
  /\ trapno[BootCpu] = "wakeup" => tickslock = BootCpu
  /\ \A c \in CPUs :
       cur[c] # None /\ ptlock # c =>
         /\ pc[cur[c]] \in {"tickcheck", "sleep"} =>
              tickslock = c /\ trapno[c] = "none"
         /\ pc[cur[c]] = "sleep" => Elapsed(cur[c]) < dur[cur[c]]

TickInv == ContextInv /\ TickLockInv /\ TickNotMissed

(* Every step keeps tickslock, the saved contexts and the tick sleepers in  *)
(* agreement.                                                               *)
LEMMA TickStep == TypeInv /\ DispatchInv /\ TickInv /\ [Next]_vars => TickInv'
<1> SUFFICES ASSUME TypeInv, DispatchInv, TickInv, [Next]_vars PROVE TickInv'
  OBVIOUS
<1> USE Constants
    DEF TypeInv, TypeOK, ChildIsSlot, DispatchInv, Dispatch, ForkOwnsChild,
        Forking, TickInv, ContextInv, Suspended, TickLockInv, TickNotMissed,
        Elapsed, procVars, threadVars, cpuVars, tickVars
<1>1. ASSUME NEW c \in CPUs, SchedLock(c) PROVE TickInv'
  BY <1>1 DEF SchedLock
<1>2. ASSUME NEW c \in CPUs, SchedRun(c) PROVE TickInv'
  BY <1>2 DEF SchedRun, IsFirst, Runnable
<1>3. ASSUME NEW c \in CPUs, SchedRelease(c) PROVE TickInv'
  BY <1>3 DEF SchedRelease
<1>4. ASSUME NEW c \in CPUs, Sched(c) PROVE TickInv'
  BY <1>4 DEF Sched
<1>5. ASSUME NEW c \in CPUs, TimerIntr(c) PROVE TickInv'
  BY <1>5 DEF TimerIntr
<1>6. ASSUME NEW c \in CPUs, TickCount(c) PROVE TickInv'
  BY <1>6 DEF TickCount
<1>7. ASSUME NEW c \in CPUs, TickWakeup(c) PROVE TickInv'
  BY <1>7 DEF TickWakeup, Wakeup1
<1>8. ASSUME NEW c \in CPUs, TrapIdle(c) PROVE TickInv'
  BY <1>8 DEF TrapIdle
<1>9. ASSUME NEW c \in CPUs, TrapExit(c) PROVE TickInv'
  BY <1>9 DEF TrapExit, GoTo
<1>10. ASSUME NEW c \in CPUs, TrapYield(c) PROVE TickInv'
  BY <1>10 DEF TrapYield
<1>11. ASSUME NEW p \in Slots, NEW c \in CPUs, ResumeForkret(p, c) PROVE TickInv'
  BY <1>11 DEF ResumeForkret, Resuming
<1>12. ASSUME NEW p \in Slots, NEW c \in CPUs, ResumeYield(p, c) PROVE TickInv'
  BY <1>12 DEF ResumeYield, Resuming, GoTo
<1>13. ASSUME NEW p \in Slots, NEW c \in CPUs, ResumeSleep(p, c) PROVE TickInv'
  BY <1>13 DEF ResumeSleep, Resuming, GoTo
<1>14. ASSUME NEW p \in Slots, NEW c \in CPUs, SyscallReturn(p, c) PROVE TickInv'
  BY <1>14 DEF SyscallReturn, Exec, GoTo
<1>15. ASSUME NEW p \in Slots, NEW c \in CPUs, ForkFail(p, c) PROVE TickInv'
  BY <1>15 DEF ForkFail, Exec, GoTo, ForkError
<1>16. ASSUME NEW p \in Slots, NEW c \in CPUs, ForkCopy(p, c) PROVE TickInv'
  BY <1>16 DEF ForkCopy, Exec
<1>17. ASSUME NEW p \in Slots, NEW c \in CPUs, ForkRun(p, c) PROVE TickInv'
  BY <1>17 DEF ForkRun, Exec, GoTo
<1>18. ASSUME NEW p \in Slots, NEW c \in CPUs, Exit(p, c) PROVE TickInv'
  BY <1>18 DEF Exit, Exec, ExitWakeups, Wakeup1, Reparented
<1>19. ASSUME NEW p \in Slots, NEW c \in CPUs, ExitPanic(p, c) PROVE TickInv'
  BY <1>19 DEF ExitPanic, Exec
<1>20. ASSUME NEW p \in Slots, NEW c \in CPUs, WaitReap(p, c) PROVE TickInv'
  BY <1>20 DEF WaitReap, InWait, Exec, Resuming, GoTo, IsFirst, Zombies, Children
<1>21. ASSUME NEW p \in Slots, NEW c \in CPUs, WaitFail(p, c) PROVE TickInv'
  BY <1>21 DEF WaitFail, InWait, Exec, Resuming, GoTo
<1>22. ASSUME NEW p \in Slots, NEW c \in CPUs, WaitSleep(p, c) PROVE TickInv'
  BY <1>22 DEF WaitSleep, InWait, Exec, Resuming, GoTo
<1>23. ASSUME NEW p \in Slots, NEW c \in CPUs, SleepCheck(p, c) PROVE TickInv'
  BY <1>23 DEF SleepCheck, Exec, GoTo
<1>24. ASSUME NEW p \in Slots, NEW c \in CPUs, Sleep(p, c) PROVE TickInv'
  BY <1>24 DEF Sleep, Exec
<1>25. ASSUME NEW p \in Slots, NEW c \in CPUs, SleepRelock(p, c) PROVE TickInv'
  BY <1>25 DEF SleepRelock, Exec, GoTo
<1>26. ASSUME NEW p \in Slots, NEW c \in CPUs, AllocProc(p, c) PROVE TickInv'
  BY <1>26 DEF AllocProc, Syscall, Exec, GoTo, IsFirst, Free
<1>27. ASSUME NEW p \in Slots, NEW c \in CPUs, AllocProcFull(p, c) PROVE TickInv'
  BY <1>27 DEF AllocProcFull, Syscall, Exec, GoTo, ForkError
<1>28. ASSUME NEW p \in Slots, NEW c \in CPUs, SysExit(p, c) PROVE TickInv'
  BY <1>28 DEF SysExit, Syscall, Exec, GoTo
<1>29. ASSUME NEW p \in Slots, NEW c \in CPUs, SysWait(p, c) PROVE TickInv'
  BY <1>29 DEF SysWait, Syscall, Exec, GoTo
<1>30. ASSUME NEW p \in Slots, NEW c \in CPUs, Fault(p, c) PROVE TickInv'
  BY <1>30 DEF Fault, Exec, GoTo
<1>31. ASSUME NEW p \in Slots, NEW c \in CPUs, SyscallKilled(p, c) PROVE TickInv'
  BY <1>31 DEF SyscallKilled, Exec, GoTo
<1>32. ASSUME NEW p \in Slots, NEW c \in CPUs, NEW n \in KillArgs,
             SysKill(p, c, n)
      PROVE TickInv'
  BY <1>32 DEF SysKill, Syscall, Exec, GoTo, IsFirst, Named
<1>33. ASSUME NEW p \in Slots, NEW c \in CPUs, NEW n \in SleepArgs,
             SysSleep(p, c, n)
      PROVE TickInv'
  BY <1>33 DEF SysSleep, Syscall, Exec, GoTo
<1>34. CASE UNCHANGED vars
  BY <1>34 DEF vars
<1> QED
  BY <1>1, <1>2, <1>3, <1>4, <1>5, <1>6, <1>7, <1>8, <1>9, <1>10, <1>11,
     <1>12, <1>13, <1>14, <1>15, <1>16, <1>17, <1>18, <1>19, <1>20,
     <1>21, <1>22, <1>23, <1>24, <1>25, <1>26, <1>27, <1>28, <1>29,
     <1>30, <1>31, <1>32, <1>33, <1>34 DEF Next, Halted, SchedulerStep,
     TrapStep, ResumeStep, KernelStep, UserStep
-----------------------------------------------------------------------------
(* The theorems.                                                            *)

Inv == TypeInv /\ DispatchInv /\ FamilyInv /\ PidInv /\ TickInv

(* The state userinit() leaves satisfies the invariant.                     *)
LEMMA InvInit == Init => Inv
<1> SUFFICES ASSUME Init PROVE Inv
  OBVIOUS
<1> USE Constants DEF Init
<1>1. TypeInv
  BY TypeInit
<1>2. DispatchInv
  BY DEF DispatchInv, Dispatch, StackNotFreed, ForkOwnsChild, Forking
<1>3. FamilyInv
  BY DEF FamilyInv, InitLives, ParentLives, ZombieNoticed, KillNotMissedInWait
<1>4. PidInv
  BY DEF PidInv, PidsUnique
<1>5. TickInv
  BY DEF TickInv, ContextInv, Suspended, TickLockInv, TickNotMissed
<1> QED
  BY <1>1, <1>2, <1>3, <1>4, <1>5 DEF Inv

(* The invariant is inductive.                                              *)
LEMMA InvStep == Inv /\ [Next]_vars => Inv'
  BY TypeStep, DispatchStep, FamilyStep, PidStep, TickStep DEF Inv

(* The invariant always holds.                                              *)
LEMMA Invariance == Spec => []Inv
  BY InvInit, InvStep, PTL DEF Spec

(* Every variable keeps its type: every slot index the kernel holds is a    *)
(* slot of ptable, and the tick counter stays within its width.             *)
THEOREM TypeCorrect == Spec => []TypeOK
<1>1. Inv => TypeOK
  BY DEF Inv, TypeInv
<1> QED
  BY <1>1, Invariance, PTL

(* For any number of CPUs: a process runs on at most one of them.           *)
THEOREM DispatchCorrect == Spec => []Dispatch
<1>1. Inv => Dispatch
  BY DEF Inv, DispatchInv
<1> QED
  BY <1>1, Invariance, PTL

(* wait() never frees the kernel stack a CPU still executes on, whatever    *)
(* the interleaving of exit(), swtch() and wait().                          *)
THEOREM StackSafe == Spec => []StackNotFreed
<1>1. Inv => StackNotFreed
  BY DEF Inv, DispatchInv
<1> QED
  BY <1>1, Invariance, PTL

(* Every process but init has, at all times, a live parent that can reap    *)
(* it: exit() leaves no child behind.                                       *)
THEOREM NoOrphans == Spec => []ParentLives
<1>1. Inv => ParentLives
  BY DEF Inv, FamilyInv
<1> QED
  BY <1>1, Invariance, PTL

(* No wakeup of wait() is lost: nobody sleeps there with a zombie to reap,  *)
(* neither one of its own nor one that init inherits.                       *)
THEOREM NoLostExit == Spec => []ZombieNoticed
<1>1. Inv => ZombieNoticed
  BY DEF Inv, FamilyInv
<1> QED
  BY <1>1, Invariance, PTL

(* No kill() is lost on a process that goes to sleep in wait().             *)
THEOREM NoLostKill == Spec => []KillNotMissedInWait
<1>1. Inv => KillNotMissedInWait
  BY DEF Inv, FamilyInv
<1> QED
  BY <1>1, Invariance, PTL

(* Slots in use have distinct pids, although allocproc() drops the lock     *)
(* right after it took the pid, and a failed fork() leaves its pid behind.  *)
THEOREM PidsDistinct == Spec => []PidsUnique
<1>1. Inv => PidsUnique
  BY DEF Inv, PidInv
<1> QED
  BY <1>1, Invariance, PTL

(* No tick is lost between sys_sleep()'s test and its sleep(): tickslock is *)
(* held until ptable.lock is.                                               *)
THEOREM NoLostTick == Spec => []TickNotMissed
<1>1. Inv => TickNotMissed
  BY DEF Inv, TickInv
<1> QED
  BY <1>1, Invariance, PTL

(* Only wait() in the current parent of a zombie takes it out of the table, *)
(* and it clears its pid.                                                   *)
THEOREM ReapOnlyByParent == Spec => ReapedByParent
<1>1. Inv /\ [Next]_vars => [ReapStep]_vars
  <2> SUFFICES ASSUME Inv, [Next]_vars PROVE ReapStep
    OBVIOUS
  <2> USE Constants
      DEF ReapStep, Inv, TypeInv, TypeOK, ChildIsSlot, DispatchInv,
          Dispatch, ForkOwnsChild, Forking, TickInv, ContextInv, Suspended,
          procVars, threadVars, cpuVars, tickVars
  <2>1. ASSUME NEW c \in CPUs, SchedLock(c) PROVE ReapStep
    BY <2>1 DEF SchedLock
  <2>2. ASSUME NEW c \in CPUs, SchedRun(c) PROVE ReapStep
    BY <2>2 DEF SchedRun, IsFirst, Runnable
  <2>3. ASSUME NEW c \in CPUs, SchedRelease(c) PROVE ReapStep
    BY <2>3 DEF SchedRelease
  <2>4. ASSUME NEW c \in CPUs, Sched(c) PROVE ReapStep
    BY <2>4 DEF Sched
  <2>5. ASSUME NEW c \in CPUs, TimerIntr(c) PROVE ReapStep
    BY <2>5 DEF TimerIntr
  <2>6. ASSUME NEW c \in CPUs, TickCount(c) PROVE ReapStep
    BY <2>6 DEF TickCount
  <2>7. ASSUME NEW c \in CPUs, TickWakeup(c) PROVE ReapStep
    BY <2>7 DEF TickWakeup, Wakeup1
  <2>8. ASSUME NEW c \in CPUs, TrapIdle(c) PROVE ReapStep
    BY <2>8 DEF TrapIdle
  <2>9. ASSUME NEW c \in CPUs, TrapExit(c) PROVE ReapStep
    BY <2>9 DEF TrapExit
  <2>10. ASSUME NEW c \in CPUs, TrapYield(c) PROVE ReapStep
    BY <2>10 DEF TrapYield
  <2>11. ASSUME NEW p \in Slots, NEW c \in CPUs, ResumeForkret(p, c) PROVE ReapStep
    BY <2>11 DEF ResumeForkret
  <2>12. ASSUME NEW p \in Slots, NEW c \in CPUs, ResumeYield(p, c) PROVE ReapStep
    BY <2>12 DEF ResumeYield
  <2>13. ASSUME NEW p \in Slots, NEW c \in CPUs, ResumeSleep(p, c) PROVE ReapStep
    BY <2>13 DEF ResumeSleep
  <2>14. ASSUME NEW p \in Slots, NEW c \in CPUs, SyscallReturn(p, c) PROVE ReapStep
    BY <2>14 DEF SyscallReturn
  <2>15. ASSUME NEW p \in Slots, NEW c \in CPUs, ForkFail(p, c) PROVE ReapStep
    BY <2>15 DEF ForkFail, Exec
  <2>16. ASSUME NEW p \in Slots, NEW c \in CPUs, ForkCopy(p, c) PROVE ReapStep
    BY <2>16 DEF ForkCopy
  <2>17. ASSUME NEW p \in Slots, NEW c \in CPUs, ForkRun(p, c) PROVE ReapStep
    BY <2>17 DEF ForkRun, Exec
  <2>18. ASSUME NEW p \in Slots, NEW c \in CPUs, Exit(p, c) PROVE ReapStep
    BY <2>18 DEF Exit, Exec, ExitWakeups, Wakeup1
  <2>19. ASSUME NEW p \in Slots, NEW c \in CPUs, ExitPanic(p, c) PROVE ReapStep
    BY <2>19 DEF ExitPanic
  <2>20. ASSUME NEW p \in Slots, NEW c \in CPUs, WaitReap(p, c) PROVE ReapStep
    BY <2>20 DEF WaitReap, InWait, Exec, Resuming, IsFirst, Zombies, Children
  <2>21. ASSUME NEW p \in Slots, NEW c \in CPUs, WaitFail(p, c) PROVE ReapStep
    BY <2>21 DEF WaitFail, InWait, Exec, Resuming
  <2>22. ASSUME NEW p \in Slots, NEW c \in CPUs, WaitSleep(p, c) PROVE ReapStep
    BY <2>22 DEF WaitSleep, InWait, Exec, Resuming
  <2>23. ASSUME NEW p \in Slots, NEW c \in CPUs, SleepCheck(p, c) PROVE ReapStep
    BY <2>23 DEF SleepCheck
  <2>24. ASSUME NEW p \in Slots, NEW c \in CPUs, Sleep(p, c) PROVE ReapStep
    BY <2>24 DEF Sleep, Exec
  <2>25. ASSUME NEW p \in Slots, NEW c \in CPUs, SleepRelock(p, c) PROVE ReapStep
    BY <2>25 DEF SleepRelock
  <2>26. ASSUME NEW p \in Slots, NEW c \in CPUs, AllocProc(p, c) PROVE ReapStep
    BY <2>26 DEF AllocProc, IsFirst, Free
  <2>27. ASSUME NEW p \in Slots, NEW c \in CPUs, AllocProcFull(p, c) PROVE ReapStep
    BY <2>27 DEF AllocProcFull
  <2>28. ASSUME NEW p \in Slots, NEW c \in CPUs, SysExit(p, c) PROVE ReapStep
    BY <2>28 DEF SysExit
  <2>29. ASSUME NEW p \in Slots, NEW c \in CPUs, SysWait(p, c) PROVE ReapStep
    BY <2>29 DEF SysWait
  <2>30. ASSUME NEW p \in Slots, NEW c \in CPUs, Fault(p, c) PROVE ReapStep
    BY <2>30 DEF Fault
  <2>31. ASSUME NEW p \in Slots, NEW c \in CPUs, SyscallKilled(p, c) PROVE ReapStep
    BY <2>31 DEF SyscallKilled
  <2>32. ASSUME NEW p \in Slots, NEW c \in CPUs, NEW n \in KillArgs,
               SysKill(p, c, n)
        PROVE ReapStep
    BY <2>32 DEF SysKill, IsFirst, Named
  <2>33. ASSUME NEW p \in Slots, NEW c \in CPUs, NEW n \in SleepArgs,
               SysSleep(p, c, n)
        PROVE ReapStep
    BY <2>33 DEF SysSleep
  <2>34. CASE UNCHANGED vars
    BY <2>34 DEF vars
  <2> QED
    BY <2>1, <2>2, <2>3, <2>4, <2>5, <2>6, <2>7, <2>8, <2>9, <2>10, <2>11,
       <2>12, <2>13, <2>14, <2>15, <2>16, <2>17, <2>18, <2>19, <2>20,
       <2>21, <2>22, <2>23, <2>24, <2>25, <2>26, <2>27, <2>28, <2>29,
       <2>30, <2>31, <2>32, <2>33, <2>34 DEF Next, Halted, SchedulerStep,
       TrapStep, ResumeStep, KernelStep, UserStep
<1> QED
  BY <1>1, Invariance, PTL DEF Spec, ReapedByParent
=============================================================================
