------------------------------- MODULE Bcache -------------------------------
(***************************************************************************)
(* The buffer cache (bio.c) on the sleep locks of its buffers              *)
(* (sleeplock.c) and on the queue of the disk driver (ide.c).  A step is a *)
(* critical section of bcache.lock, of a sleep lock's spin lock, or of     *)
(* idelock; between them other processes and the disk's interrupt run.     *)
(* A block's contents are one value.  The disk never reports an error.     *)
(***************************************************************************)
EXTENDS Integers, Sequences, FiniteSets

CONSTANTS
  BProcs,      \* processes
  Blocknos,    \* blocks of the disk
  Contents,    \* what a block may contain
  Blank,       \* what the blocks contain at first
  NBUF,        \* buffers
  MaxMarked    \* bound: buffers that log_write() keeps dirty (LOGSIZE)

None == 0

ASSUME BcacheAssumption ==
  /\ IsFiniteSet(BProcs) /\ None \notin BProcs
  /\ None \notin Blocknos /\ Blank \in Contents
  /\ NBUF \in Nat /\ MaxMarked \in Nat

Bufs == 1 .. NBUF

VARIABLES
  blockno, bdata,      \* per buffer: which block it is for, and the contents
  valid, dirty,        \* the buffers with B_VALID and with B_DIRTY
  refcnt, owner,       \* per buffer: references, and who has the sleep lock
  lru,                 \* the list of buffers, most recently used first
  queue,               \* idequeue: the disk works on its first buffer
  disk,                \* the blocks on disk
  last,                \* what a process last put in each block
  loc, mine,           \* per process: where it is, and with which buffer
  full                 \* bget() has panicked

bufVars == <<blockno, bdata, valid, dirty, refcnt, owner>>
diskVars == <<queue, disk, last>>
threadVars == <<loc, mine>>
bvars == <<bufVars, lru, diskVars, threadVars, full>>

Go(p, l) == loc' = [loc EXCEPT ![p] = l]
At(p, l) == ~full /\ loc[p] = l

BInit ==
  /\ blockno = [b \in Bufs |-> None] /\ bdata = [b \in Bufs |-> Blank]
  /\ valid = {} /\ dirty = {}
  /\ refcnt = [b \in Bufs |-> 0] /\ owner = [b \in Bufs |-> None]
  /\ lru = [k \in Bufs |-> NBUF + 1 - k]
  /\ queue = <<>>
  /\ disk = [n \in Blocknos |-> Blank] /\ last = disk
  /\ loc = [p \in BProcs |-> "idle"] /\ mine = [p \in BProcs |-> None]
  /\ full = FALSE

-----------------------------------------------------------------------------
(* bio.c.                                                                   *)

(* Mutant of Cached: only a buffer that is in use counts.                   *)
CachedInUse(n) == {b \in Bufs : blockno[b] = n /\ refcnt[b] > 0}

(* The buffer that holds block n.                                           *)
Cached(n) == {b \in Bufs : blockno[b] = n}

(* Mutant of Recyclable: a buffer that log_write() marked is given away.    *)
RecyclableDirty(b) == refcnt[b] = 0

(* Nobody refers to the buffer, and the log does not need it.               *)
Recyclable(b) == refcnt[b] = 0 /\ b \notin dirty

(* bget() of a block that is cached, up to the sleep lock.                  *)
bgetCached(p) ==
  /\ At(p, "idle")
  /\ \E n \in Blocknos : \E b \in Cached(n) :
       /\ refcnt' = [refcnt EXCEPT ![b] = @ + 1]
       /\ mine' = [mine EXCEPT ![p] = b]
  /\ Go(p, "lock")
  /\ UNCHANGED <<blockno, bdata, valid, dirty, owner, lru, diskVars, full>>

(* bget() of another block: the least recently used buffer that can be      *)
(* recycled.                                                                *)
bgetRecycle(p) ==
  /\ At(p, "idle")
  /\ \E n \in Blocknos, k \in Bufs :
       /\ Cached(n) = {}
       /\ Recyclable(lru[k]) /\ \A j \in Bufs : j > k => ~Recyclable(lru[j])
       /\ blockno' = [blockno EXCEPT ![lru[k]] = n]
       /\ valid' = valid \ {lru[k]} /\ dirty' = dirty \ {lru[k]}
       /\ refcnt' = [refcnt EXCEPT ![lru[k]] = 1]
       /\ mine' = [mine EXCEPT ![p] = lru[k]]
  /\ Go(p, "lock")
  /\ UNCHANGED <<bdata, owner, lru, diskVars, full>>

(* bget() finds no buffer: panic("bget: no buffers").                       *)
bgetPanic(p) ==
  /\ At(p, "idle")
  /\ \E n \in Blocknos : Cached(n) = {}
  /\ \A b \in Bufs : ~Recyclable(b)
  /\ full' = TRUE
  /\ UNCHANGED <<bufVars, lru, diskVars, threadVars>>

(* bread() with the lock held: the contents are there, or are asked for.    *)
bread(p) ==
  /\ At(p, "locked")
  /\ \/ mine[p] \in valid /\ Go(p, "have") /\ UNCHANGED queue
     \/ mine[p] \notin valid /\ queue' = Append(queue, mine[p]) /\ Go(p, "iowait")
  /\ UNCHANGED <<bufVars, lru, disk, last, mine, full>>

(* The holder changes the contents of its buffer.                           *)
Changes(p) ==
  /\ \E v \in Contents : /\ bdata' = [bdata EXCEPT ![mine[p]] = v]
                         /\ last' = [last EXCEPT ![blockno[mine[p]]] = v]
  /\ dirty' = dirty \cup {mine[p]}

(* bwrite() hands them to the disk.                                         *)
bwrite(p) ==
  /\ At(p, "have")
  /\ Changes(p)
  /\ queue' = Append(queue, mine[p])
  /\ Go(p, "iowait")
  /\ UNCHANGED <<blockno, valid, refcnt, owner, lru, disk, mine, full>>

(* log_write() only marks the buffer dirty, so that it stays in the cache   *)
(* until the commit writes it.                                              *)
log_write(p) ==
  /\ At(p, "have")
  /\ mine[p] \in dirty \/ Cardinality(dirty) < MaxMarked
  /\ Changes(p)
  /\ UNCHANGED <<blockno, valid, refcnt, owner, lru, queue, disk, threadVars, full>>

(* wakeup(lk) of the sleep lock of b.                                       *)
LockWoken(b) == [p \in BProcs |-> IF loc[p] = "lockwait" /\ mine[p] = b
                                  THEN "lock" ELSE loc[p]]

(* The list with b moved to its front.                                      *)
Front(b) == [k \in Bufs |-> IF k = 1 THEN b
                            ELSE IF \E j \in 1 .. k - 1 : lru[j] = b
                            THEN lru[k] ELSE lru[k - 1]]

(* brelse(), first releasesleep() and then, under bcache.lock, the count    *)
(* and the move to the front of the list.                                   *)
releasesleep(p) ==
  /\ At(p, "have")
  /\ owner' = [owner EXCEPT ![mine[p]] = None]
  /\ loc' = [LockWoken(mine[p]) EXCEPT ![p] = "release"]
  /\ UNCHANGED <<blockno, bdata, valid, dirty, refcnt, lru, diskVars, mine, full>>

brelse(p) ==
  /\ At(p, "release")
  /\ refcnt' = [refcnt EXCEPT ![mine[p]] = @ - 1]
  /\ lru' = IF refcnt[mine[p]] = 1 THEN Front(mine[p]) ELSE lru
  /\ Go(p, "idle") /\ mine' = [mine EXCEPT ![p] = None]
  /\ UNCHANGED <<blockno, bdata, valid, dirty, owner, diskVars, full>>

-----------------------------------------------------------------------------
(* sleeplock.c: acquiresleep() takes the lock, or sleeps.                   *)
acquiresleep(p) ==
  /\ At(p, "lock")
  /\ \/ /\ owner[mine[p]] = None
        /\ owner' = [owner EXCEPT ![mine[p]] = p] /\ Go(p, "locked")
     \/ /\ owner[mine[p]] # None
        /\ Go(p, "lockwait") /\ UNCHANGED owner
  /\ UNCHANGED <<blockno, bdata, valid, dirty, refcnt, lru, diskVars, mine, full>>

-----------------------------------------------------------------------------
(* ide.c.                                                                   *)

(* Mutant of IoWoken: only a process that reads is woken.                   *)
IoWokenReader(b) == [p \in BProcs |->
  IF loc[p] = "iowait" /\ mine[p] = b /\ b \notin dirty THEN "iocheck" ELSE loc[p]]

(* wakeup(b).                                                               *)
IoWoken(b) == [p \in BProcs |-> IF loc[p] = "iowait" /\ mine[p] = b
                                THEN "iocheck" ELSE loc[p]]

(* ideintr(): the disk has done the first request.                          *)
ideintr ==
  /\ ~full /\ queue # <<>>
  /\ LET b == Head(queue)
     IN /\ \/ /\ b \in dirty
              /\ disk' = [disk EXCEPT ![blockno[b]] = bdata[b]]
              /\ dirty' = dirty \ {b} /\ UNCHANGED bdata
           \/ /\ b \notin dirty
              /\ bdata' = [bdata EXCEPT ![b] = disk[blockno[b]]]
              /\ UNCHANGED <<disk, dirty>>
        /\ valid' = valid \cup {b}
        /\ loc' = IoWoken(b)
  /\ queue' = Tail(queue)
  /\ UNCHANGED <<blockno, refcnt, owner, lru, last, mine, full>>

(* The loop of iderw() after a wakeup.                                      *)
iderw(p) ==
  /\ At(p, "iocheck")
  /\ Go(p, IF mine[p] \in valid \ dirty THEN "have" ELSE "iowait")
  /\ UNCHANGED <<bufVars, lru, diskVars, mine, full>>

(* kill() makes a sleeper runnable, also one that sleeps for the disk or    *)
(* for a lock; the loop around sleep() has to send it back.                 *)
BKill(p) ==
  /\ \/ At(p, "lockwait") /\ Go(p, "lock")
     \/ At(p, "iowait") /\ Go(p, "iocheck")
  /\ UNCHANGED <<bufVars, lru, diskVars, mine, full>>

(* bget() has panicked: the machine stands still.                           *)
Panicked == full /\ UNCHANGED bvars

BProc(p) == bread(p) \/ releasesleep(p) \/ brelse(p) \/ acquiresleep(p) \/ iderw(p)
bget(p) == bgetCached(p) \/ bgetRecycle(p) \/ bgetPanic(p)

BNext == \/ \E p \in BProcs : BProc(p) \/ bget(p) \/ bwrite(p) \/ log_write(p) \/ BKill(p)
         \/ ideintr \/ Panicked

-----------------------------------------------------------------------------
(* At most one buffer holds a block: two processes that miss in the cache   *)
(* at the same time do not both recycle one.                                *)
OneCopy == \A a, b \in Bufs :
             blockno[a] = blockno[b] /\ blockno[a] # None => a = b

(* Whoever has a buffer sees what was last put in the block, also when that *)
(* was never written to disk: a buffer that the log has marked is not given *)
(* to another block, and a request is not taken for done too early.         *)
HolderSeesLast ==
  \A p \in BProcs : loc[p] = "have" => /\ mine[p] \in valid
                                       /\ bdata[mine[p]] = last[blockno[mine[p]]]

(* Nobody sleeps for nothing: a process that waits for the disk holds the   *)
(* lock of a buffer that is in the queue, once, and a process that waits    *)
(* for a lock waits for one that is held.  A reference counts every process *)
(* that is using or waiting for the buffer.                                 *)
WaitsSound ==
  /\ \A p \in BProcs :
       /\ loc[p] \in {"iowait", "iocheck"} => owner[mine[p]] = p
       /\ loc[p] = "iowait" =>
            Cardinality({k \in DOMAIN queue : queue[k] = mine[p]}) = 1
       /\ loc[p] = "lockwait" => owner[mine[p]] # None
  /\ \A b \in Bufs :
       refcnt[b] = Cardinality({p \in BProcs : mine[p] = b})

(* Every request is answered and its process goes on.                       *)
IoEnds == \A p \in BProcs : loc[p] = "iowait" ~> (loc[p] = "have" \/ full)
=============================================================================
