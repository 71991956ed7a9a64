-------------------------------- MODULE Log --------------------------------
(***************************************************************************)
(* The write-ahead log (log.c): begin_op / log_write / end_op by several    *)
(* processes, group commit, and recovery after a crash at any disk write.   *)
(*                                                                          *)
(* The disk is three things: the home blocks, the log's data blocks and the *)
(* header block; each bwrite() is one step.  The buffer cache is one        *)
(* function: what bread() returns.  A block that log_write() marked B_DIRTY *)
(* stays cached; any other cached block equals the disk.                    *)
(***************************************************************************)
EXTENDS Naturals, Sequences, FiniteSets

CONSTANTS
  Procs,       \* processes that make file-system calls
  Blocks,      \* home block numbers
  Vals,        \* block contents
  InitVal,     \* contents of a fresh disk
  MAXOPBLOCKS, \* blocks a file-system call may write
  LOGSIZE,     \* capacity of the header's block[] array
  LogBlocks,   \* log.size: disk blocks of the log, header included
  MaxCrashes   \* bound: crashes in a row, before a recovery is done

ASSUME ProcsAssumption == IsFiniteSet(Procs)
ASSUME DataAssumption == InitVal \in Vals
ASSUME SizeAssumption ==
  /\ MAXOPBLOCKS \in Nat \ {0} /\ LOGSIZE \in Nat /\ LogBlocks \in Nat \ {0}
  /\ MaxCrashes \in Nat

Locations == {"idle", "begin", "asleep", "op", "append", "commit"}
Phases == {"none", "log", "install", "erase", "done", "read"}
Modes == {"boot", "run", "panic", "overrun"}

VARIABLES
  home,         \* on disk: the home blocks
  logdata,      \* on disk: the data blocks of the log, as far as ever written
  head,         \* on disk: the header, the sequence of its block numbers
  cache,        \* what bread() returns for a home block
  lh,           \* log.lh: the header in memory
  outstanding,  \* log.outstanding
  committing,   \* log.committing
  phase,        \* how far commit() or recover_from_log() got
  tail,         \* their loop counter, from 1
  pc,           \* per process: where it is
  target,       \* per process: the buffer it holds in log_write()
  wrote,        \* per process: the blocks its call has written
  mode,         \* booting, running, stopped by panic(), or past the log's end
  crashes       \* number of crashes since the last recovery was done

diskVars == <<home, logdata, head>>
logVars == <<lh, outstanding, committing>>
procVars == <<pc, target, wrote>>
vars == <<diskVars, cache, logVars, phase, tail, procVars, mode, crashes>>

Entries(s) == {s[i] : i \in 1 .. Len(s)}

TypeOK ==
  /\ home \in [Blocks -> Vals] /\ cache \in [Blocks -> Vals]
  /\ logdata \in Seq(Vals)
  /\ head \in Seq(Blocks) /\ lh \in Seq(Blocks)
  /\ outstanding \in Nat /\ committing \in BOOLEAN
  /\ phase \in Phases /\ tail \in Nat \ {0}
  /\ pc \in [Procs -> Locations]
  /\ target \in [Procs -> Blocks \cup {0}]
  /\ wrote \in [Procs -> SUBSET Blocks]
  /\ mode \in Modes /\ crashes \in 0 .. MaxCrashes

(* The state mkfs leaves on disk, with the first boot about to recover.     *)
Init ==
  /\ home = [b \in Blocks |-> InitVal] /\ cache = home
  /\ logdata = <<>> /\ head = <<>>
  /\ lh = <<>> /\ outstanding = 0 /\ committing = FALSE
  /\ phase = "read" /\ tail = 1
  /\ pc = [p \in Procs |-> "idle"]
  /\ target = [p \in Procs |-> 0]
  /\ wrote = [p \in Procs |-> {}]
  /\ mode = "boot" /\ crashes = 0

-----------------------------------------------------------------------------
(* begin_op()                                                               *)

(* Mutant of MustWait: the calling operation is not counted.                *)
MustWaitOthersOnly ==
  committing \/ Len(lh) + outstanding * MAXOPBLOCKS > LOGSIZE

(* A commit is running, or this call might exhaust the log space.           *)
MustWait ==
  \/ committing
  \/ Len(lh) + (outstanding + 1) * MAXOPBLOCKS > LOGSIZE

BeginOp(p) ==
  /\ mode = "run"
  /\ pc[p] \in {"idle", "begin"}
  /\ ~MustWait
  /\ outstanding' = outstanding + 1
  /\ pc' = [pc EXCEPT ![p] = "op"]
  /\ UNCHANGED <<diskVars, cache, lh, committing, phase, tail, target, wrote,
                 mode, crashes>>

BeginSleep(p) ==
  /\ mode = "run"
  /\ pc[p] \in {"idle", "begin"}
  /\ MustWait
  /\ pc' = [pc EXCEPT ![p] = "asleep"]
  /\ UNCHANGED <<diskVars, cache, logVars, phase, tail, target, wrote, mode,
                 crashes>>

(* Mutant of Woken: the wakeup is forgotten.                                *)
NotWoken == pc

(* wakeup(&log): every sleeper tests again.                                 *)
Woken == [q \in Procs |-> IF pc[q] = "asleep" THEN "begin" ELSE pc[q]]

-----------------------------------------------------------------------------
(* log_write()                                                              *)

(* The caller holds the buffer of b until log_write() returned.             *)
Locked(b) == \E q \in Procs : pc[q] = "append" /\ target[q] = b

MayWrite(p, b) ==
  /\ mode = "run"
  /\ pc[p] = "op"
  /\ ~Locked(b)
  /\ Cardinality(wrote[p] \cup {b}) <= MAXOPBLOCKS

(* log_write()'s test, made before it takes log.lock.                       *)
TooBig == Len(lh) >= LOGSIZE \/ Len(lh) >= LogBlocks - 1

(* The caller modifies the buffer, then log_write() finds the log not full. *)
LogWrite(p, b, v) ==
  /\ MayWrite(p, b)
  /\ ~TooBig
  /\ cache' = [cache EXCEPT ![b] = v]
  /\ pc' = [pc EXCEPT ![p] = "append"]
  /\ target' = [target EXCEPT ![p] = b]
  /\ wrote' = [wrote EXCEPT ![p] = @ \cup {b}]
  /\ UNCHANGED <<diskVars, logVars, phase, tail, mode, crashes>>

(* panic("too big a transaction")                                           *)
LogTooBig(p, b, v) ==
  /\ MayWrite(p, b)
  /\ TooBig
  /\ cache' = [cache EXCEPT ![b] = v]
  /\ mode' = "panic"
  /\ UNCHANGED <<diskVars, logVars, phase, tail, procVars, crashes>>

(* The header once b is logged: a block is logged once per transaction.     *)
Absorb(b) == IF b \in Entries(lh) THEN lh ELSE Append(lh, b)

LogAppend(p) ==
  /\ mode = "run"
  /\ pc[p] = "append"
  /\ lh' = Absorb(target[p])
  /\ pc' = [pc EXCEPT ![p] = "op"]
  /\ target' = [target EXCEPT ![p] = 0]
  /\ UNCHANGED <<diskVars, cache, outstanding, committing, phase, tail, wrote,
                 mode, crashes>>

-----------------------------------------------------------------------------
(* end_op() and commit()                                                    *)

(* Other calls are still active: the last of them will commit.              *)
EndOp(p) ==
  /\ mode = "run"
  /\ pc[p] = "op"
  /\ outstanding > 1
  /\ outstanding' = outstanding - 1
  /\ pc' = [Woken EXCEPT ![p] = "idle"]
  /\ wrote' = [wrote EXCEPT ![p] = {}]
  /\ UNCHANGED <<diskVars, cache, lh, committing, phase, tail, target, mode,
                 crashes>>

(* Mutant of EndOpLast: any end_op() commits.                               *)
EndOpAny(p) ==
  /\ mode = "run"
  /\ pc[p] = "op"
  /\ outstanding' = outstanding - 1
  /\ committing' = TRUE
  /\ phase' = IF lh = <<>> THEN "done" ELSE "log"
  /\ tail' = 1
  /\ pc' = [pc EXCEPT ![p] = "commit"]
  /\ wrote' = [wrote EXCEPT ![p] = {}]
  /\ UNCHANGED <<diskVars, cache, lh, target, mode, crashes>>

(* The last call goes on to commit(), without the lock.                     *)
EndOpLast(p) ==
  /\ mode = "run"
  /\ pc[p] = "op"
  /\ outstanding = 1
  /\ outstanding' = 0
  /\ committing' = TRUE
  /\ phase' = IF lh = <<>> THEN "done" ELSE "log"
  /\ tail' = 1
  /\ pc' = [pc EXCEPT ![p] = "commit"]
  /\ wrote' = [wrote EXCEPT ![p] = {}]
  /\ UNCHANGED <<diskVars, cache, lh, target, mode, crashes>>

(* One round of write_log(): a modified block goes from the cache to the    *)
(* log.                                                                     *)
WriteLog ==
  /\ mode = "run" /\ phase = "log"
  /\ tail <= Len(lh) /\ tail < LogBlocks
  /\ logdata' = IF tail <= Len(logdata)
                THEN [logdata EXCEPT ![tail] = cache[lh[tail]]]
                ELSE Append(logdata, cache[lh[tail]])
  /\ tail' = tail + 1
  /\ UNCHANGED <<home, head, cache, logVars, phase, procVars, mode, crashes>>

(* write_log() past the last block of the log: it overwrites whatever the   *)
(* disk holds there.  The model ends here.                                  *)
WriteLogPastEnd ==
  /\ mode = "run" /\ phase = "log"
  /\ tail <= Len(lh) /\ tail >= LogBlocks
  /\ mode' = "overrun"
  /\ UNCHANGED <<diskVars, cache, logVars, phase, tail, procVars, crashes>>

(* write_head(), the commit point.                                          *)
WriteHead ==
  /\ mode = "run" /\ phase = "log"
  /\ tail > Len(lh)
  /\ head' = lh
  /\ phase' = "install" /\ tail' = 1
  /\ UNCHANGED <<home, logdata, cache, logVars, procVars, mode, crashes>>

(* Mutant of InstallTrans: the loop does not advance.                       *)
InstallTransNoAdvance ==
  /\ mode \in {"run", "boot"} /\ phase = "install"
  /\ tail <= Len(lh)
  /\ home' = [home EXCEPT ![lh[tail]] = logdata[tail]]
  /\ cache' = [cache EXCEPT ![lh[tail]] = logdata[tail]]
  /\ UNCHANGED <<logdata, head, logVars, phase, tail, procVars, mode, crashes>>

(* One round of install_trans(), in commit() and in recovery.               *)
InstallTrans ==
  /\ mode \in {"run", "boot"} /\ phase = "install"
  /\ tail <= Len(lh)
  /\ home' = [home EXCEPT ![lh[tail]] = logdata[tail]]
  /\ cache' = [cache EXCEPT ![lh[tail]] = logdata[tail]]
  /\ tail' = tail + 1
  /\ UNCHANGED <<logdata, head, logVars, phase, procVars, mode, crashes>>

(* Mutant of InstallDone: the last block of the transaction is skipped.     *)
InstallDoneEarly ==
  /\ mode \in {"run", "boot"} /\ phase = "install"
  /\ tail >= Len(lh)
  /\ lh' = <<>>
  /\ phase' = "erase"
  /\ UNCHANGED <<diskVars, cache, outstanding, committing, tail, procVars, mode,
                 crashes>>

(* The loop is over; the header in memory is emptied.                       *)
InstallDone ==
  /\ mode \in {"run", "boot"} /\ phase = "install"
  /\ tail > Len(lh)
  /\ lh' = <<>>
  /\ phase' = "erase"
  /\ UNCHANGED <<diskVars, cache, outstanding, committing, tail, procVars, mode,
                 crashes>>

(* The second write_head() erases the transaction from the log.             *)
EraseHead ==
  /\ mode \in {"run", "boot"} /\ phase = "erase"
  /\ head' = lh
  /\ phase' = IF mode = "boot" THEN "none" ELSE "done"
  /\ mode' = "run" /\ crashes' = 0
  /\ UNCHANGED <<home, logdata, cache, logVars, tail, procVars>>

(* Mutant of EndCommit: new calls are let in before the log is erased.      *)
EndCommitEarly(p) ==
  /\ mode = "run" /\ phase \in {"erase", "done"}
  /\ pc[p] = "commit"
  /\ committing' = FALSE
  /\ phase' = "none"
  /\ pc' = [Woken EXCEPT ![p] = "idle"]
  /\ UNCHANGED <<diskVars, cache, lh, outstanding, tail, target, wrote, mode,
                 crashes>>

(* The end of end_op() after commit(): let new calls in.                    *)
EndCommit(p) ==
  /\ mode = "run" /\ phase = "done"
  /\ pc[p] = "commit"
  /\ committing' = FALSE
  /\ phase' = "none"
  /\ pc' = [Woken EXCEPT ![p] = "idle"]
  /\ UNCHANGED <<diskVars, cache, lh, outstanding, tail, target, wrote, mode,
                 crashes>>

-----------------------------------------------------------------------------
(* Crash and recovery                                                       *)

(* The machine stops, or was stopped by a panic, and reboots: memory is     *)
(* lost, the disk is not.                                                   *)
Crash ==
  /\ mode # "overrun"
  /\ crashes < MaxCrashes
  /\ crashes' = crashes + 1
  /\ mode' = "boot" /\ phase' = "read" /\ tail' = 1
  /\ cache' = home
  /\ lh' = <<>> /\ outstanding' = 0 /\ committing' = FALSE
  /\ pc' = [p \in Procs |-> "idle"]
  /\ target' = [p \in Procs |-> 0]
  /\ wrote' = [p \in Procs |-> {}]
  /\ UNCHANGED diskVars

(* read_head(), at the start of recover_from_log().                         *)
ReadHead ==
  /\ mode = "boot" /\ phase = "read"
  /\ lh' = head
  /\ phase' = "install"
  /\ UNCHANGED <<diskVars, cache, outstanding, committing, tail, procVars, mode,
                 crashes>>

Halted == mode \in {"panic", "overrun"} /\ UNCHANGED vars

-----------------------------------------------------------------------------
CommitStep ==
  WriteLog \/ WriteLogPastEnd \/ WriteHead \/ InstallTrans \/ InstallDone
    \/ EraseHead

OpStep(p) ==
  \/ LogAppend(p) \/ EndOp(p) \/ EndOpLast(p) \/ EndCommit(p)

Next ==
  \/ \E p \in Procs : BeginOp(p) \/ BeginSleep(p) \/ OpStep(p)
  \/ \E p \in Procs, b \in Blocks, v \in Vals :
       LogWrite(p, b, v) \/ LogTooBig(p, b, v)
  \/ CommitStep \/ ReadHead \/ Crash \/ Halted

Spec == Init /\ [][Next]_vars

(* The disk and the scheduler keep going, and a call that began ends.       *)
Fairness ==
  /\ WF_vars(CommitStep) /\ WF_vars(ReadHead)
  /\ \A p \in Procs :
       /\ WF_vars(LogAppend(p)) /\ WF_vars(EndCommit(p))
       /\ SF_vars(EndOp(p) \/ EndOpLast(p))

FairSpec == Spec /\ Fairness

-----------------------------------------------------------------------------
(* What a reboot would make of the disk: the home blocks, with the blocks   *)
(* of a committed transaction taken from the log.                           *)
Recovered ==
  [b \in Blocks |->
     IF b \in Entries(head)
     THEN logdata[CHOOSE i \in 1 .. Len(head) : head[i] = b]
     ELSE home[b]]

InOp == {p \in Procs : pc[p] \in {"op", "append"}}

Abstract == INSTANCE AtomicDisk WITH
  durable <- Recovered,
  view <- IF mode = "boot" THEN Recovered ELSE cache,
  active <- InOp

(* File-system calls are atomic across crashes: every behaviour of the log  *)
(* is one of AtomicDisk, where all writes of all finished calls become      *)
(* durable in one step and a crash loses only writes not yet durable.       *)
Atomic == Abstract!Spec

(* A commit never contains half a call: no call is active while one runs,   *)
(* outstanding counts the active calls, and end_op() never meets            *)
(* log.committing.                                                          *)
CommitAlone ==
  /\ outstanding = Cardinality(InOp)
  /\ committing => InOp = {}
  /\ phase \in {"log", "done"} => committing

(* Once no call is active and no commit runs, everything written is on its  *)
(* home block and the header is empty.                                      *)
QuietMeansDurable ==
  mode = "run" /\ outstanding = 0 /\ ~committing =>
    home = cache /\ head = <<>> /\ lh = <<>>

(* Nobody sleeps in begin_op() once there is room and no commit is running: *)
(* each change that could let a sleeper in is followed by wakeup(&log).     *)
SleepersMustWait == \A p \in Procs : pc[p] = "asleep" => MustWait

(* The blocks that the active calls may still add to the header.            *)
Pending ==
  {pk \in InOp \X (1 .. MAXOPBLOCKS) :
     pk[2] > Cardinality(wrote[pk[1]] \cap Entries(lh))}

(* begin_op()'s reservation holds until the call ends: the header's block[] *)
(* array has room for everything that the active calls may still write, so  *)
(* that it is not overrun although log_write() tests its size without the   *)
(* lock, and although calls begin and end while others are half done.       *)
RoomReserved == Len(lh) + Cardinality(Pending) <= LOGSIZE

(* Whoever sleeps in begin_op() is woken.                                   *)
SleeperWoken ==
  \A p \in Procs :
    pc[p] = "asleep" ~> (pc[p] # "asleep" \/ mode \in {"panic", "overrun"})

(* Recovery ends, however often it is interrupted itself.                   *)
RecoveryEnds == mode = "boot" ~> mode # "boot"

(* The log never stops for good: begin_op() returns to whoever sleeps in    *)
(* it, and the machine comes up after a crash.                              *)
LogGoesOn == SleeperWoken /\ RecoveryEnds
=============================================================================
