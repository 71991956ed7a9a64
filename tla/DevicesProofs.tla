--------------------------- MODULE DevicesProofs ----------------------------
(***************************************************************************)
(* Proofs about the buffer cache, the pipe and the console, and what they  *)
(* say of the behaviours of Devices.                                       *)
(***************************************************************************)
EXTENDS Devices, FiniteSetTheorems, SequenceTheorems, TLAPS

-----------------------------------------------------------------------------
(* The buffer cache: for any number of processes, blocks and buffers, a     *)
(* block has one buffer, whoever holds it sees what was last put in the     *)
(* block, and nobody sleeps for nothing.                                    *)

Locations == {"idle", "lock", "lockwait", "locked", "iowait", "iocheck", "have",
              "release"}

(* A process at one of these has the sleep lock of its buffer.              *)
Holding == {"locked", "iowait", "iocheck", "have"}

BTypeOK ==
  /\ blockno \in [Bufs -> Blocknos \cup {None}]
  /\ bdata \in [Bufs -> Contents]
  /\ valid \in SUBSET Bufs /\ dirty \in SUBSET Bufs
  /\ refcnt \in [Bufs -> Int] /\ owner \in [Bufs -> BProcs \cup {None}]
  /\ lru \in [Bufs -> Bufs]
  /\ queue \in Seq(Bufs)
  /\ disk \in [Blocknos -> Contents] /\ last \in [Blocknos -> Contents]
  /\ loc \in [BProcs -> Locations] /\ mine \in [BProcs -> Bufs \cup {None}]
  /\ full \in BOOLEAN

(* Who refers to a buffer, and who holds its lock.                          *)
HoldInv ==
  /\ \A p \in BProcs : loc[p] = "idle" <=> mine[p] = None
  /\ \A p \in BProcs : loc[p] \in Holding => owner[mine[p]] = p
  /\ \A b \in Bufs : owner[b] # None =>
       mine[owner[b]] = b /\ loc[owner[b]] \in Holding
  /\ \A p \in BProcs : loc[p] = "lockwait" => owner[mine[p]] # None

Users(b) == {p \in BProcs : mine[p] = b}
RefInv == \A b \in Bufs : refcnt[b] = Cardinality(Users(b))

Queued(b) == \E k \in 1 .. Len(queue) : queue[k] = b

(* The queue has each buffer once, for a process that holds it and waits.   *)
QueueInv ==
  /\ \A j, k \in 1 .. Len(queue) : queue[j] = queue[k] => j = k
  /\ \A k \in 1 .. Len(queue) :
       /\ owner[queue[k]] # None
       /\ loc[owner[queue[k]]] \in {"iowait", "iocheck"}
       /\ queue[k] \notin valid \ dirty
  /\ \A p \in BProcs :
       \/ loc[p] = "iowait"
       \/ loc[p] = "iocheck" /\ mine[p] \notin valid \ dirty
       => Queued(mine[p])

(* Where the last contents of each block are.                               *)
DataInv ==
  /\ dirty \subseteq valid
  /\ \A b \in valid : blockno[b] # None /\ bdata[b] = last[blockno[b]]
  /\ \A n \in Blocknos : disk[n] # last[n] => \E b \in dirty : blockno[b] = n
  /\ \A p \in BProcs : mine[p] # None => blockno[mine[p]] # None
  /\ \A p \in BProcs : loc[p] = "have" => mine[p] \in valid

BInv == BTypeOK /\ HoldInv /\ RefInv /\ QueueInv /\ OneCopy /\ DataInv

-----------------------------------------------------------------------------
(* Every step keeps the types.                                              *)
LEMMA BTypeStep == BTypeOK /\ HoldInv /\ QueueInv /\ DataInv /\ [BNext]_bvars => BTypeOK'
<1> SUFFICES ASSUME BTypeOK, HoldInv, QueueInv, DataInv, [BNext]_bvars PROVE BTypeOK'
  OBVIOUS
<1> USE BcacheAssumption DEF BTypeOK, Locations, Go, At, None,
        bufVars, diskVars, threadVars
<1>1. ASSUME NEW p \in BProcs, bread(p) PROVE BTypeOK'
  <2>1. mine[p] \in Bufs
    BY <1>1 DEF bread, HoldInv
  <2>2. Append(queue, mine[p]) \in Seq(Bufs)
    BY <2>1
  <2>3. queue' \in Seq(Bufs) /\ loc' \in [BProcs -> Locations]
    BY <1>1, <2>2 DEF bread
  <2> QED
    BY <1>1, <2>3 DEF bread
<1>2. ASSUME NEW p \in BProcs, releasesleep(p) PROVE BTypeOK'
  BY <1>2 DEF releasesleep, LockWoken
<1>3. ASSUME NEW p \in BProcs, brelse(p) PROVE BTypeOK'
  <2>1. mine[p] \in Bufs
    BY <1>3 DEF brelse, HoldInv
  <2>2. Front(mine[p]) \in [Bufs -> Bufs]
    <3>1. ASSUME NEW k \in Bufs, k # 1 PROVE k - 1 \in Bufs
      BY <3>1 DEF Bufs
    <3> QED
      BY <2>1, <3>1 DEF Front
  <2>3. /\ lru' \in [Bufs -> Bufs]
        /\ refcnt' \in [Bufs -> Int]
        /\ loc' \in [BProcs -> Locations]
        /\ mine' \in [BProcs -> Bufs \cup {None}]
    BY <1>3, <2>1, <2>2 DEF brelse
  <2> QED
    BY <1>3, <2>3 DEF brelse
<1>4. ASSUME NEW p \in BProcs, acquiresleep(p) PROVE BTypeOK'
  <2>1. owner' \in [Bufs -> BProcs \cup {None}] /\ loc' \in [BProcs -> Locations]
    <3>1. CASE owner[mine[p]] = None
      <4>1. owner' = [owner EXCEPT ![mine[p]] = p] /\ loc' = [loc EXCEPT ![p] = "locked"]
        BY <1>4, <3>1 DEF acquiresleep
      <4> QED
        BY <4>1
    <3>2. CASE owner[mine[p]] # None
      BY <1>4, <3>2 DEF acquiresleep
    <3> QED
      BY <3>1, <3>2
  <2> QED
    BY <1>4, <2>1 DEF acquiresleep
<1>5. ASSUME NEW p \in BProcs, iderw(p) PROVE BTypeOK'
  BY <1>5 DEF iderw
<1>6. ASSUME NEW p \in BProcs, bgetCached(p) PROVE BTypeOK'
  BY <1>6 DEF bgetCached, Cached
<1>7. ASSUME NEW p \in BProcs, bgetRecycle(p) PROVE BTypeOK'
  BY <1>7 DEF bgetRecycle
<1>8. ASSUME NEW p \in BProcs, bgetPanic(p) PROVE BTypeOK'
  BY <1>8 DEF bgetPanic
<1>9. ASSUME NEW p \in BProcs, bwrite(p) PROVE BTypeOK'
  <2>1. mine[p] \in Bufs
    BY <1>9 DEF bwrite, HoldInv
  <2>2. Append(queue, mine[p]) \in Seq(Bufs)
    BY <2>1
  <2>3. blockno[mine[p]] \in Blocknos
    BY <1>9, <2>1 DEF bwrite, DataInv
  <2>4. /\ bdata' \in [Bufs -> Contents] /\ last' \in [Blocknos -> Contents]
        /\ dirty' \in SUBSET Bufs /\ queue' \in Seq(Bufs)
        /\ loc' \in [BProcs -> Locations]
    BY <1>9, <2>1, <2>2, <2>3 DEF bwrite, Changes
  <2> QED
    BY <1>9, <2>4 DEF bwrite
<1>10. ASSUME NEW p \in BProcs, log_write(p) PROVE BTypeOK'
  <2>1. mine[p] \in Bufs
    BY <1>10 DEF log_write, HoldInv
  <2>2. /\ bdata' \in [Bufs -> Contents] /\ last' \in [Blocknos -> Contents]
        /\ dirty' \in SUBSET Bufs
    <3>1. blockno[mine[p]] \in Blocknos
      BY <1>10, <2>1 DEF log_write, DataInv
    <3> QED
      BY <1>10, <2>1, <3>1 DEF log_write, Changes
  <2> QED
    BY <1>10, <2>2 DEF log_write
<1>11. ASSUME NEW p \in BProcs, BKill(p) PROVE BTypeOK'
  BY <1>11 DEF BKill
<1>12. CASE ideintr
  <2> DEFINE b == Head(queue)
  <2>1. b \in Bufs /\ queue' \in Seq(Bufs)
    BY <1>12 DEF ideintr
  <2>2. loc' \in [BProcs -> Locations]
    BY <1>12 DEF ideintr, IoWoken
  <2>3. owner[b] # None
    BY <1>12, <2>1 DEF ideintr, QueueInv
  <2>4. blockno[b] \in Blocknos
    <3>1. owner[b] \in BProcs /\ mine[owner[b]] = b
      BY <2>1, <2>3 DEF HoldInv
    <3>2. b # None
      BY <2>1 DEF Bufs
    <3> HIDE DEF b
    <3>3. blockno[b] # None
      BY <3>1, <3>2 DEF DataInv
    <3> QED
      BY <2>1, <3>3
  <2>5. /\ bdata' \in [Bufs -> Contents] /\ disk' \in [Blocknos -> Contents]
        /\ dirty' \in SUBSET Bufs /\ valid' \in SUBSET Bufs
    BY <1>12, <2>1, <2>4 DEF ideintr
  <2> QED
    BY <1>12, <2>1, <2>2, <2>5 DEF ideintr
<1>13. CASE UNCHANGED bvars
  BY <1>13 DEF bvars
<1> QED
  BY <1>1, <1>2, <1>3, <1>4, <1>5, <1>6, <1>7, <1>8, <1>9, <1>10, <1>11, <1>12,
     <1>13 DEF BNext, BProc, bget, Panicked

(* A process that is not idle has a buffer.                                 *)
LEMMA HasBuffer ==
  ASSUME BTypeOK, HoldInv, NEW p \in BProcs, loc[p] # "idle"
  PROVE  mine[p] \in Bufs
  BY DEF BTypeOK, HoldInv

(* A buffer that nobody refers to has no user.                              *)
LEMMA NoUser ==
  ASSUME BTypeOK, RefInv, NEW b \in Bufs, refcnt[b] = 0
  PROVE  \A p \in BProcs : mine[p] # b
<1>1. IsFiniteSet(Users(b))
  BY BcacheAssumption, FS_Subset DEF Users
<1>2. Users(b) = {}
  BY <1>1, FS_EmptySet DEF RefInv
<1> QED
  BY <1>2 DEF Users

(* Who holds and who refers is the same after a step that only moves        *)
(* processes among the places where they hold, or out of the wait.          *)
LEMMA HoldMove ==
  ASSUME BTypeOK, HoldInv, owner' = owner, mine' = mine,
         \A q \in BProcs : /\ loc'[q] = "idle" <=> loc[q] = "idle"
                           /\ loc'[q] \in Holding <=> loc[q] \in Holding
                           /\ loc'[q] = "lockwait" => loc[q] = "lockwait"
  PROVE  HoldInv'
  BY DEF BTypeOK, HoldInv

(* So is it when an idle process takes a reference.                         *)
LEMMA HoldTake ==
  ASSUME BTypeOK, HoldInv, NEW p \in BProcs, loc[p] = "idle",
         mine' \in [BProcs -> Bufs \cup {None}], mine'[p] \in Bufs,
         \A q \in BProcs : q # p => mine'[q] = mine[q],
         owner' = owner, loc' = [loc EXCEPT ![p] = "lock"]
  PROVE  HoldInv'
<1>1. \A b \in Bufs : owner[b] # p
  BY BcacheAssumption DEF HoldInv, Holding
<1>2. None \notin Bufs
  BY DEF None, Bufs
<1> QED
  BY <1>1, <1>2 DEF HoldInv, BTypeOK, Holding

(* Every step keeps what the locks and the processes say of each other.     *)
LEMMA HoldStep == BTypeOK /\ HoldInv /\ RefInv /\ [BNext]_bvars => HoldInv'
<1> SUFFICES ASSUME BTypeOK, HoldInv, RefInv, [BNext]_bvars PROVE HoldInv'
  OBVIOUS
<1> USE BcacheAssumption DEF Go, At
<1>1. ASSUME NEW p \in BProcs, bread(p) PROVE HoldInv'
  BY <1>1, HoldMove DEF bread, Holding, BTypeOK, bufVars
<1>2. ASSUME NEW p \in BProcs, releasesleep(p) PROVE HoldInv'
  <2>1. mine[p] \in Bufs /\ owner[mine[p]] = p
    BY <1>2, HasBuffer DEF releasesleep, HoldInv, Holding
  <2>2. owner' = [owner EXCEPT ![mine[p]] = None] /\ mine' = mine
    BY <1>2 DEF releasesleep
  <2>3. \A q \in BProcs :
          loc'[q] = IF q = p THEN "release"
                    ELSE IF loc[q] = "lockwait" /\ mine[q] = mine[p] THEN "lock"
                    ELSE loc[q]
    BY <1>2 DEF releasesleep, LockWoken
  <2>4. \A q \in BProcs : q # p /\ loc[q] \in Holding => mine[q] # mine[p]
    BY <2>1 DEF HoldInv
  <2>5. \A q \in BProcs : loc'[q] = "idle" <=> mine'[q] = None
    BY <1>2, <2>2, <2>3 DEF HoldInv, releasesleep
  <2>6. \A q \in BProcs : loc'[q] \in Holding => owner'[mine'[q]] = q
    <3> SUFFICES ASSUME NEW q \in BProcs, loc'[q] \in Holding
                 PROVE  owner'[mine'[q]] = q
      OBVIOUS
    <3>1. q # p /\ loc[q] \in Holding
      BY <2>3 DEF Holding
    <3>2. mine[q] \in Bufs /\ owner[mine[q]] = q
      BY <3>1, HasBuffer DEF Holding, HoldInv
    <3> QED
      BY <2>2, <2>4, <3>1, <3>2 DEF BTypeOK
  <2>7. \A b \in Bufs : owner'[b] # None =>
          mine'[owner'[b]] = b /\ loc'[owner'[b]] \in Holding
    <3> SUFFICES ASSUME NEW b \in Bufs, owner'[b] # None
                 PROVE  mine'[owner'[b]] = b /\ loc'[owner'[b]] \in Holding
      OBVIOUS
    <3>1. b # mine[p] /\ owner'[b] = owner[b]
      BY <2>1, <2>2 DEF BTypeOK
    <3>2. owner[b] \in BProcs /\ mine[owner[b]] = b /\ loc[owner[b]] \in Holding
      BY <3>1 DEF HoldInv, BTypeOK
    <3> QED
      BY <2>2, <2>3, <3>1, <3>2 DEF Holding
  <2>8. \A q \in BProcs : loc'[q] = "lockwait" => owner'[mine'[q]] # None
    <3> SUFFICES ASSUME NEW q \in BProcs, loc'[q] = "lockwait"
                 PROVE  owner'[mine'[q]] # None
      OBVIOUS
    <3>1. loc[q] = "lockwait" /\ mine[q] # mine[p]
      BY <2>3
    <3>2. mine[q] \in Bufs /\ owner[mine[q]] # None
      BY <3>1, HasBuffer DEF HoldInv
    <3> QED
      BY <2>2, <3>1, <3>2 DEF BTypeOK
  <2> QED
    BY <2>5, <2>6, <2>7, <2>8 DEF HoldInv
<1>3. ASSUME NEW p \in BProcs, brelse(p) PROVE HoldInv'
  <2>1. owner' = owner /\ mine' = [mine EXCEPT ![p] = None]
        /\ loc' = [loc EXCEPT ![p] = "idle"] /\ loc[p] = "release"
    BY <1>3 DEF brelse
  <2>2. \A b \in Bufs : owner[b] # p
    BY <2>1 DEF HoldInv, Holding, None
  <2> QED
    BY <2>1, <2>2 DEF HoldInv, BTypeOK, Holding
<1>4. ASSUME NEW p \in BProcs, acquiresleep(p) PROVE HoldInv'
  <2>1. mine[p] \in Bufs /\ loc[p] = "lock" /\ mine' = mine
    BY <1>4, HasBuffer DEF acquiresleep
  <2>2. CASE owner[mine[p]] = None
    <3>1. owner' = [owner EXCEPT ![mine[p]] = p] /\ loc' = [loc EXCEPT ![p] = "locked"]
      BY <1>4, <2>2 DEF acquiresleep
    <3>2. \A q \in BProcs : loc[q] \in Holding => mine[q] # mine[p]
      BY <2>2 DEF HoldInv, None
    <3>3. p # None
      BY DEF None
    <3> QED
      BY <2>1, <3>1, <3>2, <3>3 DEF HoldInv, BTypeOK, Holding
  <2>3. CASE owner[mine[p]] # None
    <3>1. owner' = owner /\ loc' = [loc EXCEPT ![p] = "lockwait"]
      BY <1>4, <2>3 DEF acquiresleep
    <3>2. \A b \in Bufs : owner[b] # p
      BY <2>1 DEF HoldInv, Holding, None
    <3> QED
      BY <2>1, <2>3, <3>1, <3>2 DEF HoldInv, BTypeOK, Holding
  <2> QED
    BY <2>2, <2>3
<1>5. ASSUME NEW p \in BProcs, iderw(p) PROVE HoldInv'
  BY <1>5, HoldMove DEF iderw, Holding, BTypeOK, bufVars
<1>6. ASSUME NEW p \in BProcs, bgetCached(p) PROVE HoldInv'
  <2>1. /\ mine' \in [BProcs -> Bufs \cup {None}] /\ mine'[p] \in Bufs
        /\ \A q \in BProcs : q # p => mine'[q] = mine[q]
        /\ owner' = owner /\ loc' = [loc EXCEPT ![p] = "lock"] /\ loc[p] = "idle"
    BY <1>6 DEF bgetCached, Cached, BTypeOK
  <2> QED
    BY <2>1, HoldTake
<1>7. ASSUME NEW p \in BProcs, bgetRecycle(p) PROVE HoldInv'
  <2>1. /\ mine' \in [BProcs -> Bufs \cup {None}] /\ mine'[p] \in Bufs
        /\ \A q \in BProcs : q # p => mine'[q] = mine[q]
        /\ owner' = owner /\ loc' = [loc EXCEPT ![p] = "lock"] /\ loc[p] = "idle"
    BY <1>7 DEF bgetRecycle, BTypeOK
  <2> QED
    BY <2>1, HoldTake
<1>8. ASSUME NEW p \in BProcs, bgetPanic(p) PROVE HoldInv'
  BY <1>8 DEF bgetPanic, HoldInv, bufVars, threadVars
<1>9. ASSUME NEW p \in BProcs, bwrite(p) PROVE HoldInv'
  BY <1>9, HoldMove DEF bwrite, Holding, BTypeOK
<1>10. ASSUME NEW p \in BProcs, log_write(p) PROVE HoldInv'
  BY <1>10 DEF log_write, HoldInv, threadVars
<1>11. ASSUME NEW p \in BProcs, BKill(p) PROVE HoldInv'
  BY <1>11, HoldMove DEF BKill, Holding, BTypeOK, bufVars
<1>12. CASE ideintr
  <2>1. owner' = owner /\ mine' = mine
    BY <1>12 DEF ideintr
  <2>2. \A q \in BProcs : \/ loc'[q] = loc[q]
                          \/ loc[q] = "iowait" /\ loc'[q] = "iocheck"
    BY <1>12 DEF ideintr, IoWoken
  <2> QED
    BY <2>1, <2>2, HoldMove DEF Holding
<1>13. CASE UNCHANGED bvars
  BY <1>13 DEF bvars, HoldInv, bufVars, threadVars
<1> QED
  BY <1>1, <1>2, <1>3, <1>4, <1>5, <1>6, <1>7, <1>8, <1>9, <1>10, <1>11, <1>12,
     <1>13 DEF BNext, BProc, bget, Panicked

(* Every step keeps the counts of references.                               *)
LEMMA RefStep == BTypeOK /\ HoldInv /\ RefInv /\ [BNext]_bvars => RefInv'
<1> SUFFICES ASSUME BTypeOK, HoldInv, RefInv, [BNext]_bvars PROVE RefInv'
  OBVIOUS
<1> USE BcacheAssumption DEF Go, At
<1>0. ASSUME NEW b \in Bufs PROVE IsFiniteSet(Users(b))
  BY FS_Subset DEF Users
<1>00. None \notin Bufs
  BY DEF None, Bufs
<1>1. ASSUME UNCHANGED <<refcnt, mine>> PROVE RefInv'
  BY <1>1 DEF RefInv, Users
<1>2. ASSUME NEW p \in BProcs, brelse(p) PROVE RefInv'
  <2>1. PICK a \in Bufs : /\ a = mine[p] /\ mine' = [mine EXCEPT ![p] = None]
                          /\ refcnt' = [refcnt EXCEPT ![a] = @ - 1]
    BY <1>2, HasBuffer DEF brelse
  <2>2. Users(a)' = Users(a) \ {p} /\ p \in Users(a)
    BY <2>1, <1>00 DEF Users, BTypeOK
  <2>3. Cardinality(Users(a) \ {p}) = Cardinality(Users(a)) - 1
    BY <1>0, <2>1, <2>2, FS_RemoveElement
  <2>4. ASSUME NEW b \in Bufs, b # a
        PROVE  Users(b)' = Users(b) /\ refcnt'[b] = refcnt[b]
    BY <2>1, <2>4, <1>00 DEF Users, BTypeOK
  <2>5. refcnt'[a] = refcnt[a] - 1
    BY <2>1 DEF BTypeOK
  <2>6. ASSUME NEW b \in Bufs PROVE refcnt'[b] = Cardinality(Users(b)')
    BY <2>1, <2>2, <2>3, <2>4, <2>5 DEF RefInv
  <2> QED
    BY <2>6 DEF RefInv
<1>3. ASSUME NEW p \in BProcs, bgetCached(p) PROVE RefInv'
  <2>1. PICK a \in Bufs : /\ refcnt' = [refcnt EXCEPT ![a] = @ + 1]
                          /\ mine' = [mine EXCEPT ![p] = a]
    BY <1>3 DEF bgetCached, Cached
  <2>2. mine[p] = None /\ mine[p] # a
    BY <1>00, <1>3 DEF bgetCached, HoldInv
  <2>3. Users(a)' = Users(a) \cup {p} /\ p \notin Users(a)
    BY <2>1, <2>2 DEF Users, BTypeOK
  <2>4. Cardinality(Users(a) \cup {p}) = Cardinality(Users(a)) + 1
    BY <1>0, <2>1, <2>3, FS_AddElement
  <2>5. ASSUME NEW b \in Bufs, b # a
        PROVE  Users(b)' = Users(b) /\ refcnt'[b] = refcnt[b]
    <3>1. mine[p] # b
      BY <2>2, <1>00
    <3> QED
      BY <2>1, <2>5, <3>1 DEF Users, BTypeOK
  <2>6. refcnt'[a] = refcnt[a] + 1
    BY <2>1 DEF BTypeOK
  <2>7. ASSUME NEW b \in Bufs PROVE refcnt'[b] = Cardinality(Users(b)')
    BY <2>1, <2>3, <2>4, <2>5, <2>6 DEF RefInv
  <2> QED
    BY <2>7 DEF RefInv
<1>4. ASSUME NEW p \in BProcs, bgetRecycle(p) PROVE RefInv'
  <2>1. PICK a \in Bufs : /\ refcnt[a] = 0
                          /\ refcnt' = [refcnt EXCEPT ![a] = 1]
                          /\ mine' = [mine EXCEPT ![p] = a]
    BY <1>4 DEF bgetRecycle, Recyclable, BTypeOK
  <2>2. mine[p] = None
    BY <1>4 DEF bgetRecycle, HoldInv
  <2>3. Users(a) = {}
    BY <2>1, NoUser DEF Users
  <2>4. Users(a)' = {p}
    BY <2>1, <2>3 DEF Users, BTypeOK
  <2>5. Cardinality({p}) = 1
    BY FS_Singleton
  <2>6. \A b \in Bufs : b # a => Users(b)' = Users(b) /\ refcnt'[b] = refcnt[b]
    BY <2>1, <2>2, <1>00 DEF Users, BTypeOK
  <2>7. refcnt'[a] = 1
    BY <2>1 DEF BTypeOK
  <2>8. ASSUME NEW b \in Bufs PROVE refcnt'[b] = Cardinality(Users(b)')
    BY <2>1, <2>4, <2>5, <2>6, <2>7 DEF RefInv
  <2> QED
    BY <2>8 DEF RefInv
<1> QED
  BY <1>1, <1>2, <1>3, <1>4
     DEF BNext, BProc, bget, Panicked, bvars, bufVars, threadVars, bread, releasesleep,
         acquiresleep, iderw, bgetPanic, bwrite, log_write, BKill, ideintr

-----------------------------------------------------------------------------
(* The queue is sound after a step that leaves it, the requests in it and   *)
(* who waits alone.                                                         *)
LEMMA QueueSame ==
  ASSUME BTypeOK, QueueInv, queue' = queue,
         \A k \in 1 .. Len(queue) :
            /\ owner'[queue[k]] = owner[queue[k]]
            /\ loc'[owner[queue[k]]] \in {"iowait", "iocheck"}
            /\ queue[k] \notin valid' \ dirty',
         \A p \in BProcs :
            \/ loc'[p] = "iowait"
            \/ loc'[p] = "iocheck" /\ mine'[p] \notin valid' \ dirty'
            => /\ mine'[p] = mine[p]
               /\ \/ loc[p] = "iowait"
                  \/ loc[p] = "iocheck" /\ mine[p] \notin valid \ dirty
  PROVE  QueueInv'
  BY DEF QueueInv, Queued

(* And after a holder puts its buffer in it.                                *)
LEMMA QueueAppend ==
  ASSUME BTypeOK, HoldInv, QueueInv, NEW p \in BProcs, loc[p] \in {"locked", "have"},
         owner' = owner, mine' = mine, loc' = [loc EXCEPT ![p] = "iowait"],
         queue' = Append(queue, mine[p]), mine[p] \notin valid' \ dirty',
         \A b \in Bufs \ {mine[p]} : b \in valid' \ dirty' <=> b \in valid \ dirty
  PROVE  QueueInv'
<1> DEFINE b == mine[p]
<1> DEFINE n == Len(queue)
<1>1. b \in Bufs /\ owner[b] = p /\ p # None
  BY HasBuffer, BcacheAssumption DEF HoldInv, Holding
<1>2. n \in Nat /\ Len(queue') = n + 1 /\ queue'[n + 1] = b
      /\ \A k \in 1 .. n : queue'[k] = queue[k] /\ queue[k] \in Bufs
  BY <1>1 DEF BTypeOK
<1>3. \A k \in 1 .. n : queue[k] # b /\ owner[queue[k]] # p
  BY <1>1, <1>2 DEF QueueInv, HoldInv
<1>4. \A k \in 1 .. n + 1 : k \in 1 .. n \/ k = n + 1
  BY <1>2
<1> HIDE DEF b, n
<1>5. \A j, k \in 1 .. n + 1 : queue'[j] = queue'[k] => j = k
  BY <1>2, <1>3, <1>4 DEF QueueInv, n
<1>6. \A k \in 1 .. n + 1 :
        /\ owner'[queue'[k]] # None
        /\ loc'[owner'[queue'[k]]] \in {"iowait", "iocheck"}
        /\ queue'[k] \notin valid' \ dirty'
  <2>1. ASSUME NEW k \in 1 .. n
        PROVE  /\ owner[queue[k]] # None
               /\ loc'[owner[queue[k]]] \in {"iowait", "iocheck"}
               /\ queue[k] \notin valid' \ dirty'
    BY <1>2, <1>3, <2>1 DEF QueueInv, BTypeOK, n, b
  <2>2. loc'[owner[b]] = "iowait"
    BY <1>1 DEF BTypeOK
  <2> QED
    BY <1>1, <1>2, <1>4, <2>1, <2>2 DEF b
<1>7. ASSUME NEW q \in BProcs,
             \/ loc'[q] = "iowait"
             \/ loc'[q] = "iocheck" /\ mine'[q] \notin valid' \ dirty'
      PROVE  \E k \in 1 .. n + 1 : queue'[k] = mine'[q]
  <2>1. CASE q = p
    BY <1>2, <2>1 DEF b
  <2>2. CASE q # p
    <3>1. loc'[q] = loc[q] /\ mine'[q] = mine[q]
      BY <2>2 DEF BTypeOK
    <3>2. loc[q] \in Holding /\ mine[q] \in Bufs
      BY <1>7, <3>1, HasBuffer DEF Holding
    <3>3. mine[q] # b
      BY <1>1, <2>2, <3>2 DEF HoldInv
    <3>4. Queued(mine[q])
      BY <1>7, <3>1, <3>2, <3>3 DEF QueueInv, b
    <3> QED
      BY <1>2, <3>1, <3>4 DEF Queued, n
  <2> QED
    BY <2>1, <2>2
<1> QED
  BY <1>2, <1>5, <1>6, <1>7 DEF QueueInv, Queued

(* Every step keeps the queue sound: a request is put in once, the disk     *)
(* answers it once, and whoever is woken too early waits again.             *)
LEMMA QueueStep ==
  BTypeOK /\ HoldInv /\ RefInv /\ QueueInv /\ DataInv /\ [BNext]_bvars => QueueInv'
<1> SUFFICES ASSUME BTypeOK, HoldInv, RefInv, QueueInv, DataInv, [BNext]_bvars
             PROVE  QueueInv'
  OBVIOUS
<1> USE BcacheAssumption DEF Go, At, bufVars, diskVars, threadVars
<1>0. \A k \in 1 .. Len(queue) :
        /\ queue[k] \in Bufs /\ owner[queue[k]] \in BProcs
        /\ mine[owner[queue[k]]] = queue[k]
        /\ loc[owner[queue[k]]] \in {"iowait", "iocheck"}
        /\ queue[k] \notin valid \ dirty
  BY DEF QueueInv, HoldInv, BTypeOK
<1>1. ASSUME NEW p \in BProcs, bread(p) PROVE QueueInv'
  <2>1. CASE mine[p] \in valid
    BY <1>0, <1>1, <2>1, QueueSame DEF bread, BTypeOK
  <2>2. CASE mine[p] \notin valid
    BY <1>1, <2>2, QueueAppend DEF bread
  <2> QED
    BY <2>1, <2>2
<1>2. ASSUME NEW p \in BProcs, releasesleep(p) PROVE QueueInv'
  <2>1. \A q \in BProcs : loc[q] \in {"iowait", "iocheck"} => loc'[q] = loc[q]
    BY <1>2 DEF releasesleep, LockWoken
  <2>2. \A q \in BProcs : loc'[q] \in {"iowait", "iocheck"} => loc'[q] = loc[q]
    BY <1>2 DEF releasesleep, LockWoken
  <2>3. \A k \in 1 .. Len(queue) : owner[queue[k]] # p
    BY <1>0, <1>2 DEF releasesleep
  <2>4. owner[mine[p]] = p /\ mine[p] \in Bufs
    BY <1>2, HasBuffer DEF releasesleep, HoldInv, Holding
  <2>5. \A k \in 1 .. Len(queue) : owner'[queue[k]] = owner[queue[k]]
    BY <1>0, <1>2, <2>3, <2>4 DEF releasesleep, BTypeOK
  <2>6. queue' = queue /\ mine' = mine /\ valid' = valid /\ dirty' = dirty
    BY <1>2 DEF releasesleep
  <2> QED
    BY <1>0, <2>1, <2>2, <2>5, <2>6, QueueSame
<1>3. ASSUME NEW p \in BProcs, brelse(p) PROVE QueueInv'
  BY <1>0, <1>3, QueueSame DEF brelse, BTypeOK
<1>4. ASSUME NEW p \in BProcs, acquiresleep(p) PROVE QueueInv'
  <2>1. \A k \in 1 .. Len(queue) : owner'[queue[k]] = owner[queue[k]]
    BY <1>0, <1>4 DEF acquiresleep, BTypeOK
  <2>2. /\ \A q \in BProcs : q # p => loc'[q] = loc[q]
        /\ loc'[p] \in {"locked", "lockwait"} /\ loc[p] = "lock"
    BY <1>4 DEF acquiresleep, BTypeOK
  <2>3. queue' = queue /\ mine' = mine /\ valid' = valid /\ dirty' = dirty
    BY <1>4 DEF acquiresleep
  <2> QED
    BY <1>0, <2>1, <2>2, <2>3, QueueSame
<1>5. ASSUME NEW p \in BProcs, iderw(p) PROVE QueueInv'
  <2>1. /\ \A q \in BProcs : q # p => loc'[q] = loc[q]
        /\ loc[p] = "iocheck"
        /\ loc'[p] = IF mine[p] \in valid \ dirty THEN "have" ELSE "iowait"
        /\ UNCHANGED <<queue, mine, valid, dirty, owner>>
    BY <1>5 DEF iderw, BTypeOK
  <2>2. \A k \in 1 .. Len(queue) : loc'[owner[queue[k]]] \in {"iowait", "iocheck"}
    BY <1>0, <2>1
  <2> QED
    BY <1>0, <2>1, <2>2, QueueSame
<1>6. ASSUME NEW p \in BProcs, bgetCached(p) PROVE QueueInv'
  <2>1. /\ \A q \in BProcs : q # p => loc'[q] = loc[q] /\ mine'[q] = mine[q]
        /\ loc[p] = "idle" /\ loc'[p] = "lock"
        /\ UNCHANGED <<queue, valid, dirty, owner>>
    BY <1>6 DEF bgetCached, BTypeOK
  <2> QED
    BY <1>0, <2>1, QueueSame
<1>7. ASSUME NEW p \in BProcs, bgetRecycle(p) PROVE QueueInv'
  <2>1. /\ \A q \in BProcs : q # p => loc'[q] = loc[q] /\ mine'[q] = mine[q]
        /\ loc[p] = "idle" /\ loc'[p] = "lock"
        /\ UNCHANGED <<queue, owner>>
    BY <1>7 DEF bgetRecycle, BTypeOK
  <2>2. PICK a \in Bufs : refcnt[a] = 0 /\ valid' = valid \ {a} /\ dirty' = dirty \ {a}
    BY <1>7 DEF bgetRecycle, Recyclable, BTypeOK
  <2>3. \A q \in BProcs : mine[q] # a
    BY <2>2, NoUser
  <2> QED
    BY <1>0, <2>1, <2>2, <2>3, QueueSame
<1>8. ASSUME NEW p \in BProcs, bgetPanic(p) PROVE QueueInv'
  BY <1>8 DEF bgetPanic, QueueInv, Queued
<1>9. ASSUME NEW p \in BProcs, bwrite(p) PROVE QueueInv'
  BY <1>9, QueueAppend DEF bwrite, Changes
<1>10. ASSUME NEW p \in BProcs, log_write(p) PROVE QueueInv'
  <2>1. \A q \in BProcs : loc[q] \in {"iowait", "iocheck"} => mine[q] # mine[p]
    BY <1>10 DEF log_write, HoldInv, Holding
  <2>2. dirty' = dirty \cup {mine[p]}
        /\ UNCHANGED <<queue, valid, owner, loc, mine>>
    BY <1>10 DEF log_write, Changes
  <2> QED
    BY <1>0, <2>1, <2>2, QueueSame
<1>11. ASSUME NEW p \in BProcs, BKill(p) PROVE QueueInv'
  <2>1. /\ \A q \in BProcs : q # p => loc'[q] = loc[q]
        /\ \/ loc[p] = "iowait" /\ loc'[p] = "iocheck"
           \/ loc[p] = "lockwait" /\ loc'[p] = "lock"
        /\ UNCHANGED <<queue, mine, valid, dirty, owner>>
    BY <1>11 DEF BKill, BTypeOK
  <2> QED
    BY <1>0, <2>1, QueueSame
<1>12. CASE ideintr
  <2> DEFINE b == Head(queue)
  <2> DEFINE n == Len(queue) - 1
  <2>1. n \in Nat /\ Len(queue) = n + 1 /\ b = queue[1] /\ b \in Bufs
    BY <1>12 DEF ideintr, BTypeOK
  <2>2. Len(queue') = n /\ \A k \in 1 .. n : queue'[k] = queue[k + 1]
    BY <1>12, <2>1 DEF ideintr, BTypeOK
  <2>3. /\ UNCHANGED <<owner, mine>>
        /\ b \in valid' \ dirty'
        /\ \A a \in Bufs : a # b => (a \in valid' \ dirty' <=> a \in valid \ dirty)
    BY <1>12 DEF ideintr
  <2>4. \A q \in BProcs : loc'[q] = IF loc[q] = "iowait" /\ mine[q] = b
                                    THEN "iocheck" ELSE loc[q]
    BY <1>12 DEF ideintr, IoWoken
  <2>5. \A k \in 1 .. n : k + 1 \in 1 .. Len(queue) /\ queue[k + 1] # b
    BY <2>1 DEF QueueInv
  <2> HIDE DEF b, n
  <2>6. \A j, k \in 1 .. n : queue'[j] = queue'[k] => j = k
    BY <2>1, <2>2, <2>5 DEF QueueInv
  <2>7. \A k \in 1 .. n :
          /\ owner'[queue'[k]] # None
          /\ loc'[owner'[queue'[k]]] \in {"iowait", "iocheck"}
          /\ queue'[k] \notin valid' \ dirty'
    <3> SUFFICES ASSUME NEW k \in 1 .. n
                 PROVE  /\ owner'[queue'[k]] # None
                        /\ loc'[owner'[queue'[k]]] \in {"iowait", "iocheck"}
                        /\ queue'[k] \notin valid' \ dirty'
      OBVIOUS
    <3> DEFINE a == queue[k + 1]
    <3>1. queue'[k] = a /\ a # b /\ k + 1 \in 1 .. Len(queue)
      BY <2>2, <2>5
    <3>2. /\ a \in Bufs /\ owner[a] \in BProcs /\ owner[a] # None
          /\ loc[owner[a]] \in {"iowait", "iocheck"} /\ a \notin valid \ dirty
      BY <1>0, <3>1 DEF None
    <3> HIDE DEF a
    <3> QED
      BY <2>3, <2>4, <3>1, <3>2
  <2>8. ASSUME NEW q \in BProcs,
               \/ loc'[q] = "iowait"
               \/ loc'[q] = "iocheck" /\ mine'[q] \notin valid' \ dirty'
        PROVE  \E k \in 1 .. n : queue'[k] = mine'[q]
    <3>1. mine[q] # b /\ loc'[q] = loc[q]
      BY <2>3, <2>4, <2>8
    <3>2. mine[q] \in Bufs
      BY <2>8, <3>1, HasBuffer
    <3>3. Queued(mine[q])
      BY <2>3, <2>8, <3>1, <3>2 DEF QueueInv
    <3>4. PICK k \in 1 .. Len(queue) : queue[k] = mine[q]
      BY <3>3 DEF Queued
    <3>5. k # 1 /\ k - 1 \in 1 .. n
      BY <2>1, <3>1, <3>4
    <3>6. queue'[k - 1] = mine'[q]
      BY <2>2, <2>3, <3>4, <3>5
    <3> QED
      BY <3>5, <3>6
  <2> QED
    BY <2>2, <2>6, <2>7, <2>8 DEF QueueInv, Queued
<1>13. CASE UNCHANGED bvars
  BY <1>13 DEF bvars, QueueInv, Queued
<1> QED
  BY <1>1, <1>2, <1>3, <1>4, <1>5, <1>6, <1>7, <1>8, <1>9, <1>10, <1>11, <1>12,
     <1>13 DEF BNext, BProc, bget, Panicked

-----------------------------------------------------------------------------
(* Every step keeps one buffer to a block: bget() looks again under the     *)
(* lock under which it recycles.                                            *)
LEMMA CopyStep == BTypeOK /\ OneCopy /\ [BNext]_bvars => OneCopy'
<1> SUFFICES ASSUME BTypeOK, OneCopy, [BNext]_bvars PROVE OneCopy'
  OBVIOUS
<1>1. ASSUME UNCHANGED blockno PROVE OneCopy'
  BY <1>1 DEF OneCopy
<1>2. ASSUME NEW p \in BProcs, bgetRecycle(p) PROVE OneCopy'
  <2>1. PICK n \in Blocknos, a \in Bufs :
          Cached(n) = {} /\ blockno' = [blockno EXCEPT ![a] = n]
    BY <1>2 DEF bgetRecycle, BTypeOK
  <2> QED
    BY <2>1 DEF OneCopy, Cached, BTypeOK
<1> QED
  BY <1>1, <1>2
     DEF BNext, BProc, bget, Panicked, bvars, bufVars, bread, releasesleep, brelse,
         acquiresleep, iderw, bgetCached, bgetPanic, bwrite, log_write, BKill, ideintr

(* The last contents are where they were after a step that leaves the       *)
(* buffers and the disk alone.                                              *)
LEMMA DataSame ==
  ASSUME BTypeOK, DataInv,
         UNCHANGED <<blockno, bdata, valid, dirty, disk, last>>,
         \A p \in BProcs : mine'[p] # None => mine'[p] = mine[p],
         \A p \in BProcs : loc'[p] = "have" => mine'[p] \in valid
  PROVE  DataInv'
  BY DEF DataInv

(* The holder's change is the last one of the block, and stays dirty.       *)
LEMMA DataChange ==
  ASSUME BTypeOK, HoldInv, OneCopy, DataInv, NEW p \in BProcs, loc[p] = "have",
         Changes(p), UNCHANGED <<blockno, valid, disk, mine>>,
         \A q \in BProcs : loc'[q] = "have" => loc[q] = "have"
  PROVE  DataInv'
<1> DEFINE b == mine[p]
<1>1. b \in Bufs /\ b \in valid /\ blockno[b] \in Blocknos
  BY HasBuffer DEF DataInv, BTypeOK
<1> PICK v \in Contents : /\ bdata' = [bdata EXCEPT ![b] = v]
                          /\ last' = [last EXCEPT ![blockno[b]] = v]
  BY DEF Changes
<1>2. dirty' = dirty \cup {b}
  BY DEF Changes
<1> HIDE DEF b
<1>3. dirty' \subseteq valid'
  BY <1>1, <1>2 DEF DataInv
<1>4. ASSUME NEW a \in valid'
      PROVE  blockno'[a] # None /\ bdata'[a] = last'[blockno'[a]]
  <2>1. a \in valid /\ a \in Bufs /\ blockno[a] \in Blocknos
        /\ bdata[a] = last[blockno[a]]
    BY <1>4 DEF DataInv, BTypeOK
  <2>2. CASE a = b
    BY <1>1, <2>1, <2>2, BcacheAssumption DEF BTypeOK
  <2>3. CASE a # b
    <3>1. blockno[a] # blockno[b]
      BY <1>1, <2>1, <2>3, BcacheAssumption DEF OneCopy
    <3> QED
      BY <1>1, <2>1, <2>3, <3>1, BcacheAssumption DEF BTypeOK
  <2> QED
    BY <2>2, <2>3
<1>5. ASSUME NEW n \in Blocknos, disk'[n] # last'[n]
      PROVE  \E a \in dirty' : blockno'[a] = n
  <2>1. CASE n = blockno[b]
    BY <1>2, <2>1
  <2>2. CASE n # blockno[b]
    <3>1. disk[n] # last[n]
      BY <1>1, <1>5, <2>2 DEF BTypeOK
    <3> QED
      BY <1>2, <3>1 DEF DataInv
  <2> QED
    BY <2>1, <2>2
<1>6. /\ \A q \in BProcs : mine'[q] # None => blockno'[mine'[q]] # None
      /\ \A q \in BProcs : loc'[q] = "have" => mine'[q] \in valid'
  BY DEF DataInv
<1> QED
  BY <1>3, <1>4, <1>5, <1>6 DEF DataInv

(* Every step keeps the last contents of each block in its buffer, or on    *)
(* disk when no buffer is dirty.                                            *)
LEMMA DataStep == BInv /\ [BNext]_bvars => DataInv'
<1> SUFFICES ASSUME BTypeOK, HoldInv, RefInv, QueueInv, OneCopy, DataInv,
                    [BNext]_bvars
             PROVE  DataInv'
  BY DEF BInv
<1> USE BcacheAssumption DEF Go, At, bufVars, diskVars, threadVars
<1>1. ASSUME NEW p \in BProcs, bread(p) PROVE DataInv'
  <2>1. \A q \in BProcs : loc'[q] = "have" => mine[q] \in valid
    BY <1>1 DEF bread, DataInv, BTypeOK
  <2> QED
    BY <1>1, <2>1, DataSame DEF bread
<1>2. ASSUME NEW p \in BProcs, releasesleep(p) PROVE DataInv'
  <2>1. \A q \in BProcs : loc'[q] = "have" => loc[q] = "have"
    BY <1>2 DEF releasesleep, LockWoken
  <2> QED
    BY <1>2, <2>1, DataSame DEF releasesleep, DataInv
<1>3. ASSUME NEW p \in BProcs, brelse(p) PROVE DataInv'
  BY <1>3, DataSame DEF brelse, DataInv, BTypeOK
<1>4. ASSUME NEW p \in BProcs, acquiresleep(p) PROVE DataInv'
  <2>1. \A q \in BProcs : loc'[q] = "have" => loc[q] = "have"
    BY <1>4 DEF acquiresleep, BTypeOK
  <2> QED
    BY <1>4, <2>1, DataSame DEF acquiresleep, DataInv
<1>5. ASSUME NEW p \in BProcs, iderw(p) PROVE DataInv'
  <2>1. \A q \in BProcs : loc'[q] = "have" => mine[q] \in valid
    BY <1>5 DEF iderw, DataInv, BTypeOK
  <2> QED
    BY <1>5, <2>1, DataSame DEF iderw
<1>6. ASSUME NEW p \in BProcs, bgetCached(p) PROVE DataInv'
  <2>1. PICK n \in Blocknos, a \in Bufs :
          blockno[a] = n /\ mine' = [mine EXCEPT ![p] = a]
    BY <1>6 DEF bgetCached, Cached
  <2>2. \A q \in BProcs : mine'[q] # None => blockno[mine'[q]] # None
    BY <2>1 DEF DataInv, BTypeOK
  <2>3. \A q \in BProcs : loc'[q] = "have" => mine'[q] \in valid
    BY <1>6, <2>1 DEF bgetCached, DataInv, BTypeOK
  <2> QED
    BY <1>6, <2>2, <2>3 DEF bgetCached, DataInv
<1>7. ASSUME NEW p \in BProcs, bgetRecycle(p) PROVE DataInv'
  <2>1. PICK n \in Blocknos, a \in Bufs :
          /\ refcnt[a] = 0 /\ a \notin dirty
          /\ blockno' = [blockno EXCEPT ![a] = n]
          /\ valid' = valid \ {a} /\ dirty' = dirty \ {a}
          /\ mine' = [mine EXCEPT ![p] = a]
    BY <1>7 DEF bgetRecycle, Recyclable, BTypeOK
  <2>2. \A q \in BProcs : mine[q] # a
    BY <2>1, NoUser
  <2>3. /\ loc' = [loc EXCEPT ![p] = "lock"]
        /\ UNCHANGED <<bdata, disk, last>>
    BY <1>7 DEF bgetRecycle
  <2>4. \A q \in BProcs : mine'[q] # None => blockno'[mine'[q]] # None
    <3> SUFFICES ASSUME NEW q \in BProcs, mine'[q] # None
                 PROVE  blockno'[mine'[q]] # None
      OBVIOUS
    <3>1. CASE q = p
      BY <2>1, <3>1 DEF BTypeOK
    <3>2. CASE q # p
      BY <2>1, <2>2, <3>2 DEF BTypeOK, DataInv
    <3> QED
      BY <3>1, <3>2
  <2>5. \A q \in BProcs : loc'[q] = "have" => mine'[q] \in valid'
    BY <2>1, <2>2, <2>3 DEF BTypeOK, DataInv
  <2>6. dirty' \subseteq valid' /\ \A b \in valid' :
          blockno'[b] # None /\ bdata'[b] = last'[blockno'[b]]
    BY <2>1, <2>3 DEF BTypeOK, DataInv
  <2>7. \A m \in Blocknos : disk'[m] # last'[m] => \E b \in dirty' : blockno'[b] = m
    BY <2>1, <2>3 DEF BTypeOK, DataInv
  <2> QED
    BY <2>4, <2>5, <2>6, <2>7 DEF DataInv
<1>8. ASSUME NEW p \in BProcs, bgetPanic(p) PROVE DataInv'
  BY <1>8 DEF bgetPanic, DataInv
<1>9. ASSUME NEW p \in BProcs, bwrite(p) PROVE DataInv'
  BY <1>9, DataChange DEF bwrite, BTypeOK
<1>10. ASSUME NEW p \in BProcs, log_write(p) PROVE DataInv'
  BY <1>10, DataChange DEF log_write
<1>11. ASSUME NEW p \in BProcs, BKill(p) PROVE DataInv'
  <2>1. \A q \in BProcs : loc'[q] = "have" => loc[q] = "have"
    BY <1>11 DEF BKill, BTypeOK
  <2> QED
    BY <1>11, <2>1, DataSame DEF BKill, DataInv
<1>12. CASE ideintr
  <2> DEFINE b == Head(queue)
  <2>1. b \in Bufs /\ b = queue[1] /\ 1 \in 1 .. Len(queue)
    BY <1>12 DEF ideintr, BTypeOK
  <2>2. b \notin valid \ dirty /\ owner[b] # None
    BY <2>1 DEF QueueInv
  <2>3. owner[b] \in BProcs /\ mine[owner[b]] = b /\ b # None
    <3>1. b # None
      BY <2>1 DEF None, Bufs
    <3> HIDE DEF b
    <3> QED
      BY <2>1, <2>2, <3>1 DEF HoldInv, BTypeOK
  <2>4. blockno[b] \in Blocknos /\ blockno[b] # None
    <3> HIDE DEF b
    <3> QED
      BY <2>1, <2>3 DEF DataInv, BTypeOK
  <2>5. valid' = valid \cup {b} /\ UNCHANGED <<blockno, last, mine>>
    BY <1>12 DEF ideintr
  <2>6. \A q \in BProcs : loc'[q] = "have" => loc[q] = "have"
    BY <1>12 DEF ideintr, IoWoken
  <2>7. CASE b \in dirty
    <3>1. /\ disk' = [disk EXCEPT ![blockno[b]] = bdata[b]]
          /\ dirty' = dirty \ {b} /\ bdata' = bdata
      BY <1>12, <2>7 DEF ideintr
    <3> HIDE DEF b
    <3>2. bdata[b] = last[blockno[b]]
      BY <2>7 DEF DataInv
    <3>3. \A n \in Blocknos : disk'[n] # last'[n] => \E a \in dirty' : blockno'[a] = n
      BY <2>4, <2>5, <3>1, <3>2 DEF DataInv, BTypeOK
    <3> QED
      BY <2>5, <2>6, <2>7, <3>1, <3>3 DEF DataInv
  <2>8. CASE b \notin dirty
    <3>1. bdata' = [bdata EXCEPT ![b] = disk[blockno[b]]]
          /\ UNCHANGED <<disk, dirty>>
      BY <1>12, <2>8 DEF ideintr
    <3> HIDE DEF b
    <3>2. disk[blockno[b]] = last[blockno[b]]
      <4>1. ASSUME NEW a \in dirty, blockno[a] = blockno[b] PROVE FALSE
        <5>1. a = b
          BY <2>1, <2>4, <4>1 DEF OneCopy, BTypeOK
        <5> QED
          BY <2>8, <4>1, <5>1
      <4> QED
        BY <2>4, <4>1 DEF DataInv
    <3>3. ASSUME NEW a \in valid'
          PROVE  blockno'[a] # None /\ bdata'[a] = last'[blockno'[a]]
      BY <2>1, <2>4, <2>5, <3>1, <3>2 DEF DataInv, BTypeOK
    <3> QED
      BY <2>5, <2>6, <3>1, <3>3 DEF DataInv
  <2> QED
    BY <2>7, <2>8
<1>13. CASE UNCHANGED bvars
  BY <1>13 DEF bvars, DataInv
<1> QED
  BY <1>1, <1>2, <1>3, <1>4, <1>5, <1>6, <1>7, <1>8, <1>9, <1>10, <1>11, <1>12,
     <1>13 DEF BNext, BProc, bget, Panicked

-----------------------------------------------------------------------------
(* The invariant of the buffer cache holds at first and in every step.      *)
LEMMA BInitInv == BInit => BInv
<1> SUFFICES ASSUME BInit PROVE BInv
  OBVIOUS
<1> USE BcacheAssumption DEF BInit
<1>1. BTypeOK
  <2>1. \A k \in Bufs : NBUF + 1 - k \in Bufs
    BY DEF Bufs
  <2>2. queue \in Seq(Bufs) /\ loc \in [BProcs -> Locations]
    BY DEF Locations
  <2>3. full \in BOOLEAN
    OBVIOUS
  <2> QED
    BY <2>1, <2>2, <2>3 DEF BTypeOK
<1>2. HoldInv
  BY DEF HoldInv, Holding
<1>3. RefInv
  <2>1. \A b \in Bufs : Users(b) = {}
    BY DEF Users, None, Bufs
  <2> QED
    BY <2>1, FS_EmptySet DEF RefInv
<1>4. QueueInv
  BY DEF QueueInv
<1>5. OneCopy /\ DataInv
  BY DEF OneCopy, DataInv
<1> QED
  BY <1>1, <1>2, <1>3, <1>4, <1>5 DEF BInv

LEMMA BStepInv == BInv /\ [BNext]_bvars => BInv'
  BY BTypeStep, HoldStep, RefStep, QueueStep, CopyStep, DataStep DEF BInv

(* What the invariant says to the users of the cache.                       *)
LEMMA BInvSees == BInv => HolderSeesLast
  BY HasBuffer DEF BInv, HolderSeesLast, DataInv

LEMMA BInvWaits == BInv => WaitsSound
<1> SUFFICES ASSUME BTypeOK, HoldInv, RefInv, QueueInv PROVE WaitsSound
  BY DEF BInv
<1>1. ASSUME NEW p \in BProcs, loc[p] = "iowait"
      PROVE  Cardinality({k \in DOMAIN queue : queue[k] = mine[p]}) = 1
  <2>1. DOMAIN queue = 1 .. Len(queue)
    BY DEF BTypeOK
  <2>2. PICK k \in 1 .. Len(queue) : queue[k] = mine[p]
    BY <1>1 DEF QueueInv, Queued
  <2>3. {j \in DOMAIN queue : queue[j] = mine[p]} = {k}
    BY <2>1, <2>2 DEF QueueInv
  <2> QED
    BY <2>3, FS_Singleton
<1> QED
  BY <1>1 DEF WaitsSound, HoldInv, Holding, RefInv, Users

-----------------------------------------------------------------------------
(* The pipe: for any number of writers and readers, any size of the ring    *)
(* and any range of the counters that the size divides, the bytes arrive in *)
(* order, and nobody sleeps for nothing.                                    *)

(* Arithmetic modulo n.                                                     *)
LEMMA ModRange ==
  ASSUME NEW a \in Int, NEW n \in Nat \ {0}
  PROVE  (a % n) \in 0 .. (n - 1)
  OBVIOUS

LEMMA ModQuotient ==
  ASSUME NEW a \in Int, NEW n \in Nat \ {0}
  PROVE  \E q \in Int : a = (n * q) + (a % n)
<1>1. a \div n \in Int
  OBVIOUS
<1>2. a = (n * (a \div n)) + (a % n)
  OBVIOUS
<1> QED
  BY <1>1, <1>2

LEMMA ModUnique ==
  ASSUME NEW n \in Nat \ {0}, NEW q \in Int, NEW r \in 0 .. (n - 1)
  PROVE  ((n * q) + r) % n = r
  OBVIOUS

LEMMA ModSmall ==
  ASSUME NEW n \in Nat \ {0}, NEW r \in Nat, r < n
  PROVE  r % n = r
  OBVIOUS

(* A multiple of n may be left out.                                         *)
LEMMA ModShift ==
  ASSUME NEW n \in Nat \ {0}, NEW q \in Int, NEW a \in Int
  PROVE  ((n * q) + a) % n = (a % n)
<1> DEFINE r == a % n
<1>1. PICK k \in Int : a = (n * k) + r
  BY ModQuotient
<1>2. r \in 0 .. (n - 1)
  BY ModRange
<1> HIDE DEF r
<1>3. (n * q) + a = (n * (q + k)) + r
  BY <1>1, <1>2
<1>4. q + k \in Int
  OBVIOUS
<1>5. ((n * (q + k)) + r) % n = r
  BY <1>2, <1>4, ModUnique
<1> QED
  BY <1>3, <1>5 DEF r

(* So may the remainder be taken of a sum, or of one of its terms.          *)
LEMMA ModAdd ==
  ASSUME NEW n \in Nat \ {0}, NEW a \in Int, NEW b \in Int
  PROVE  ((a % n) + b) % n = ((a + b) % n)
<1> DEFINE r == a % n
           c == r + b
<1>1. PICK k \in Int : a = (n * k) + r
  BY ModQuotient
<1>2. r \in Int
  BY ModRange
<1> HIDE DEF r
<1>3. c \in Int /\ a + b = (n * k) + c
  BY <1>1, <1>2
<1> HIDE DEF c
<1>4. ((n * k) + c) % n = (c % n)
  BY <1>3, ModShift
<1> QED
  BY <1>3, <1>4 DEF c, r

LEMMA ModSub ==
  ASSUME NEW n \in Nat \ {0}, NEW a \in Int, NEW b \in Int
  PROVE  ((a % n) - (b % n)) % n = ((a - b) % n)
<1> DEFINE s == b % n
           d == a - s
           e == a - b
           m == 0 - s
<1>1. PICK k \in Int : b = (n * k) + s
  BY ModQuotient
<1>2. s \in Int
  BY ModRange
<1> HIDE DEF s
<1>3. d \in Int /\ e \in Int /\ m \in Int /\ d = (n * k) + e
  BY <1>1, <1>2
<1>4. (a % n) \in Int /\ (a % n) + m = (a % n) - s /\ a + m = d
  BY <1>2, ModRange
<1> HIDE DEF d, e, m
<1>5. ((a % n) + m) % n = ((a + m) % n)
  BY <1>3, ModAdd
<1>6. ((n * k) + e) % n = (e % n)
  BY <1>3, ModShift
<1> QED
  BY <1>3, <1>4, <1>5, <1>6 DEF s, e

(* Wrapped counters that are less than n apart differ by the remainder of   *)
(* their difference.                                                        *)
LEMMA ModDistance ==
  ASSUME NEW n \in Nat \ {0}, NEW a \in Nat, NEW b \in Nat, b <= a, a - b < n
  PROVE  ((a % n) - (b % n)) % n = a - b
<1>1. a - b \in Nat
  OBVIOUS
<1>2. ((a % n) - (b % n)) % n = ((a - b) % n)
  <2>1. a \in Int /\ b \in Int
    OBVIOUS
  <2> QED
    BY <2>1, ModSub
<1>3. (a - b) % n = a - b
  BY <1>1, ModSmall
<1> QED
  BY <1>2, <1>3

(* Numbers that are closer than n have different remainders.                *)
LEMMA ModSame ==
  ASSUME NEW n \in Nat \ {0}, NEW a \in Int, NEW b \in Int, (a % n) = (b % n),
         a - b < n, b - a < n
  PROVE  a = b
<1> DEFINE r == a % n
<1>1. PICK j \in Int : a = (n * j) + r
  BY ModQuotient
<1>2. PICK k \in Int : b = (n * k) + r
  BY ModQuotient
<1>3. a - b = n * (j - k)
  <2>1. r \in Int
    BY ModRange
  <2> HIDE DEF r
  <2> QED
    BY <1>1, <1>2, <2>1
<1>4. CASE j > k
  BY <1>3, <1>4
<1>5. CASE j < k
  BY <1>3, <1>5
<1> QED
  BY <1>3, <1>4, <1>5

(* A remainder modulo a multiple of n has the same remainder modulo n.      *)
LEMMA ModMultiple ==
  ASSUME NEW n \in Nat \ {0}, NEW u \in Nat \ {0}, u % n = 0, NEW a \in Int
  PROVE  ((a % u) % n) = (a % n)
<1> DEFINE r == a % u
<1>1. PICK k \in Int : a = (u * k) + r
  BY ModQuotient
<1>2. PICK j \in Int : u = n * j
  BY ModQuotient
<1>3. r \in Int
  BY ModRange
<1> HIDE DEF r
<1>4. j * k \in Int /\ a = (n * (j * k)) + r
  <2>1. (n * j) * k = n * (j * k)
    OBVIOUS
  <2> QED
    BY <1>1, <1>2, <1>3, <2>1
<1>5. ((n * (j * k)) + r) % n = (r % n)
  BY <1>3, <1>4, ModShift
<1> QED
  BY <1>4, <1>5 DEF r

(* The sizes are positive.                                                  *)
LEMMA Sizes == PIPESIZE \in Nat \ {0} /\ Uint \in Nat \ {0} /\ Marks \in Nat \ {0}
  BY PipeAssumption

LEMMA NatInt == \A a \in Nat : a \in Int
  OBVIOUS

LEMMA MinTwo ==
  ASSUME NEW a \in Int, NEW b \in Int
  PROVE  Min({a, b}) = IF a <= b THEN a ELSE b
  BY DEF Min

-----------------------------------------------------------------------------
(* The inductive invariant.  R bytes have been read and W written since the *)
(* pipe was made; the counters of the code are what is left of them modulo  *)
(* Uint, and byte i is in the slot of i.                                    *)
Stream(R, W) ==
  /\ R <= W /\ W - R <= PIPESIZE
  /\ nread = R % Uint /\ nwrite = W % Uint
  /\ got = R % Marks /\ sent = W % Marks
  /\ DOMAIN data = 0 .. PIPESIZE - 1
  /\ \A i \in R .. W - 1 : data[i % PIPESIZE] = (i % Marks)

StreamInv == \E R, W \in Nat : Stream(R, W)

(* A process in a call has an open end and bytes to go, and the one between *)
(* its test and its sleep has the lock.                                     *)
CallInv ==
  /\ call \in [PProcs -> [pc : {"user", "run", "sleep", "asleep"}, n : Nat]]
  /\ open \subseteq PProcs /\ killed \subseteq PProcs
  /\ \A p \in PProcs : call[p].pc # "user" => p \in open /\ call[p].n > 0
  /\ \A p \in PProcs : call[p].pc = "sleep" => plock = p

PipeInv == CallInv /\ StreamInv /\ PipeSleepers

(* The counters differ by the bytes in the ring, also after they wrap.      *)
LEMMA WrappedDifference ==
  ASSUME NEW R \in Nat, NEW W \in Nat, R <= W, W - R <= PIPESIZE
  PROVE  ((W % Uint) - (R % Uint)) % Uint = W - R
<1>1. W - R < Uint
  BY PipeAssumption
<1> QED
  BY <1>1, Sizes, ModDistance

LEMMA StreamFilled ==
  ASSUME NEW R \in Nat, NEW W \in Nat, Stream(R, W)
  PROVE  Filled = W - R
  BY WrappedDifference DEF Stream, Filled

(* Byte i is in the slot of i also when the counter has wrapped.            *)
LEMMA SlotOf ==
  ASSUME NEW c \in Nat, NEW j \in Nat
  PROVE  ((c % Uint) + j) % PIPESIZE = ((c + j) % PIPESIZE)
<1> DEFINE r == c % Uint
<1>1. r \in Int /\ (r % PIPESIZE) = (c % PIPESIZE)
  <2>1. r \in Int
    BY Sizes, NatInt, ModRange
  <2>2. Uint % PIPESIZE = 0
    BY PipeAssumption
  <2> QED
    BY <2>1, <2>2, Sizes, NatInt, ModMultiple
<1> HIDE DEF r
<1>2. ((r % PIPESIZE) + j) % PIPESIZE = ((r + j) % PIPESIZE)
  BY <1>1, Sizes, NatInt, ModAdd
<1>3. ((c % PIPESIZE) + j) % PIPESIZE = ((c + j) % PIPESIZE)
  BY Sizes, NatInt, ModAdd
<1> QED
  BY <1>1, <1>2, <1>3 DEF r

LEMMA StreamInOrder == StreamInv => InOrder
<1> SUFFICES ASSUME NEW R \in Nat, NEW W \in Nat, Stream(R, W) PROVE InOrder
  BY DEF StreamInv
<1>1. Filled = W - R
  BY StreamFilled
<1>2. W - R \in Nat /\ W - R < Marks /\ W - R <= PIPESIZE
  BY PipeAssumption DEF Stream
<1>3. (sent - got) % Marks = W - R
  <2>1. ((W % Marks) - (R % Marks)) % Marks = ((W - R) % Marks)
    BY Sizes, NatInt, ModSub
  <2>2. (W - R) % Marks = W - R
    BY <1>2, Sizes, ModSmall
  <2> QED
    BY <2>1, <2>2 DEF Stream
<1>4. ASSUME NEW i \in 0 .. Filled - 1
      PROVE  data[(nread + i) % PIPESIZE] = (got + i) % Marks
  <2>1. i \in Nat /\ R + i \in R .. W - 1
    BY <1>1, <1>2, <1>4
  <2>2. (nread + i) % PIPESIZE = (R + i) % PIPESIZE
    BY <2>1, SlotOf DEF Stream
  <2>3. (got + i) % Marks = (R + i) % Marks
    BY <2>1, Sizes, NatInt, ModAdd DEF Stream
  <2>4. data[(R + i) % PIPESIZE] = (R + i) % Marks
    BY <2>1 DEF Stream
  <2> QED
    BY <2>2, <2>3, <2>4
<1> QED
  BY <1>1, <1>2, <1>3, <1>4 DEF InOrder

(* Reading k of the bytes that are there moves R.                           *)
LEMMA StreamRead ==
  ASSUME NEW R \in Nat, NEW W \in Nat, Stream(R, W), NEW k \in Nat, k <= W - R,
         nread' = (nread + k) % Uint, got' = (got + k) % Marks,
         UNCHANGED <<nwrite, sent, data>>
  PROVE  Stream(R + k, W)'
<1>1. nread' = (R + k) % Uint /\ got' = (R + k) % Marks
  BY Sizes, NatInt, ModAdd DEF Stream
<1>2. R + k <= W /\ W - (R + k) <= PIPESIZE
  BY PipeAssumption DEF Stream
<1>3. \A i \in (R + k) .. W - 1 : i \in R .. W - 1
  OBVIOUS
<1> QED
  BY <1>1, <1>2, <1>3 DEF Stream

(* Writing k bytes into the room that is left moves W, and overwrites none  *)
(* that is still to be read.                                                *)
LEMMA StreamWrite ==
  ASSUME NEW R \in Nat, NEW W \in Nat, Stream(R, W), NEW k \in Nat,
         k <= PIPESIZE - (W - R),
         data' = [i \in DOMAIN data |->
              IF \E j \in 0 .. k - 1 : (nwrite + j) % PIPESIZE = i
              THEN (sent + CHOOSE j \in 0 .. k - 1 : (nwrite + j) % PIPESIZE = i) % Marks
              ELSE data[i]],
         nwrite' = (nwrite + k) % Uint, sent' = (sent + k) % Marks,
         UNCHANGED <<nread, got>>
  PROVE  Stream(R, W + k)'
<1>1. nwrite' = (W + k) % Uint /\ sent' = (W + k) % Marks
  BY Sizes, NatInt, ModAdd DEF Stream
<1>2. R <= W + k /\ (W + k) - R <= PIPESIZE /\ k <= PIPESIZE
  BY PipeAssumption DEF Stream
<1>3. \A j \in Nat : (nwrite + j) % PIPESIZE = (W + j) % PIPESIZE
                     /\ (sent + j) % Marks = (W + j) % Marks
  BY Sizes, NatInt, SlotOf, ModAdd DEF Stream
<1>4. ASSUME NEW i \in R .. (W + k) - 1
      PROVE  data'[i % PIPESIZE] = (i % Marks)
  <2> DEFINE s == i % PIPESIZE
  <2>1. i \in Nat /\ s \in DOMAIN data
    BY <1>4, Sizes, NatInt, ModRange DEF Stream
  <2>2. CASE i < W
    <3>1. ASSUME NEW j \in 0 .. k - 1 PROVE (nwrite + j) % PIPESIZE # s
      <4>1. j \in Nat /\ W + j \in Int /\ (W + j) - i < PIPESIZE /\ i - (W + j) < PIPESIZE
            /\ W + j # i
        BY <1>2, <1>4, <2>2, <3>1, PipeAssumption
      <4>2. (W + j) % PIPESIZE # i % PIPESIZE
        BY <2>1, <4>1, ModSame, Sizes, NatInt
      <4> QED
        BY <1>3, <4>1, <4>2
    <3>2. data'[s] = data[s]
      BY <2>1, <3>1
    <3> QED
      BY <1>4, <2>1, <2>2, <3>2 DEF Stream
  <2>3. CASE i >= W
    <3> DEFINE j == CHOOSE j \in 0 .. k - 1 : (nwrite + j) % PIPESIZE = s
    <3>1. i - W \in 0 .. k - 1 /\ i - W \in Nat /\ W + (i - W) = i
      BY <1>4, <2>1, <2>3
    <3>2. (nwrite + (i - W)) % PIPESIZE = s
      BY <1>3, <3>1
    <3>3. j \in 0 .. k - 1 /\ (nwrite + j) % PIPESIZE = s
      BY <3>1, <3>2
    <3>4. data'[s] = (sent + j) % Marks
      BY <2>1, <3>1, <3>2
    <3> HIDE DEF j
    <3>5. j \in Nat /\ W + j \in Int /\ (W + j) - i < PIPESIZE /\ i - (W + j) < PIPESIZE
      BY <1>2, <1>4, <2>1, <2>3, <3>3, Sizes
    <3>6. (W + j) % PIPESIZE = i % PIPESIZE
      BY <1>3, <3>3, <3>5
    <3>7. W + j = i
      BY <2>1, <3>5, <3>6, ModSame, Sizes, NatInt
    <3> QED
      BY <1>3, <3>4, <3>5, <3>7
  <2> QED
    BY <2>1, <2>2, <2>3
<1> QED
  BY <1>1, <1>2, <1>4 DEF Stream

(* pipewrite() puts k bytes in the ring, all of them or as many as there    *)
(* is room for.                                                             *)
LEMMA WriteEffect ==
  ASSUME CallInv, NEW p \in Writers, pipewrite(p),
         NEW R \in Nat, NEW W \in Nat, Stream(R, W)
  PROVE  \E k \in Nat :
           /\ k <= PIPESIZE - (W - R) /\ k <= call[p].n
           /\ k = call[p].n \/ k = PIPESIZE - (W - R)
           /\ W + k \in Nat /\ Stream(R, W + k)' /\ Filled' = (W + k) - R
           /\ \/ k = call[p].n /\ Wake(Readers, p, "user", 0) /\ plock' = plock
              \/ /\ k < call[p].n /\ (~readopen \/ p \in killed)
                 /\ call' = [call EXCEPT ![p] = Returned] /\ plock' = plock
              \/ /\ k < call[p].n /\ readopen /\ p \notin killed
                 /\ Wake(Readers, p, "sleep", call[p].n - k) /\ plock' = p
<1>0. R <= W /\ W - R <= PIPESIZE
  BY DEF Stream
<1>1. call[p].n \in Nat
  BY DEF CallInv, PProcs
<1>2. Room = PIPESIZE - (W - R) /\ Room \in Nat
  BY <1>0, StreamFilled, Sizes DEF Room
<1>3. PICK k \in Nat : /\ k = Min({call[p].n, Room}) /\ k <= Room /\ k <= call[p].n
                       /\ k = call[p].n \/ k = Room
  BY <1>1, <1>2, MinTwo
<1>4. /\ data' = [i \in DOMAIN data |->
              IF \E j \in 0 .. k - 1 : (nwrite + j) % PIPESIZE = i
              THEN (sent + CHOOSE j \in 0 .. k - 1 : (nwrite + j) % PIPESIZE = i) % Marks
              ELSE data[i]]
      /\ nwrite' = (nwrite + k) % Uint /\ sent' = (sent + k) % Marks
      /\ UNCHANGED <<nread, got>>
      /\ \/ call[p].n - k = 0 /\ Wake(Readers, p, "user", 0) /\ plock' = plock
         \/ /\ call[p].n - k > 0 /\ (~readopen \/ p \in killed)
            /\ call' = [call EXCEPT ![p] = Returned] /\ plock' = plock
         \/ /\ call[p].n - k > 0 /\ readopen /\ p \notin killed
            /\ Wake(Readers, p, "sleep", call[p].n - k) /\ plock' = p
  BY <1>3 DEF pipewrite
<1>5. Stream(R, W + k)'
  BY <1>2, <1>3, <1>4, StreamWrite
<1>6. W + k \in Nat /\ R <= W + k /\ (W + k) - R <= PIPESIZE
  BY <1>0, <1>2, <1>3, Sizes
<1>7. Filled' = (W + k) - R
  BY <1>5, <1>6, WrappedDifference DEF Stream, Filled
<1>8. /\ call[p].n - k = 0 => k = call[p].n
      /\ call[p].n - k > 0 => k < call[p].n
  BY <1>1, <1>3
<1> QED
  BY <1>2, <1>3, <1>4, <1>5, <1>6, <1>7, <1>8

(* piperead() of a pipe that is not empty, or that nobody writes to, takes  *)
(* k bytes out, at least one if there is one.                               *)
LEMMA ReadEffect ==
  ASSUME CallInv, NEW p \in Readers, piperead(p), Filled > 0 \/ ~writeopen,
         NEW R \in Nat, NEW W \in Nat, Stream(R, W)
  PROVE  \E k \in Nat :
           /\ k <= W - R /\ (W - R > 0 => k > 0)
           /\ R + k \in Nat /\ Stream(R + k, W)' /\ Filled' = W - (R + k)
           /\ Wake(Writers, p, "user", 0) /\ plock' = plock
<1>1. call[p].n \in Nat /\ call[p].n > 0
  BY DEF CallInv, PProcs, piperead
<1>2. Filled = W - R /\ W - R \in Nat
  BY StreamFilled DEF Stream
<1>3. PICK k \in Nat : /\ k = Min({call[p].n, Filled}) /\ k <= W - R
                       /\ W - R > 0 => k > 0
  <2> DEFINE n == call[p].n
             d == W - R
  <2>1. n \in Nat /\ n > 0 /\ d \in Nat /\ Filled = d
    BY <1>1, <1>2
  <2>2. Min({n, d}) = IF n <= d THEN n ELSE d
    BY <2>1, MinTwo
  <2>3. Min({call[p].n, Filled}) = Min({n, d})
    BY <2>1
  <2> HIDE DEF n, d
  <2>4. /\ Min({n, d}) \in Nat /\ Min({n, d}) <= d
        /\ d > 0 => Min({n, d}) > 0
    BY <2>1, <2>2
  <2> QED
    BY <2>3, <2>4 DEF d
<1>4. /\ nread' = (nread + k) % Uint /\ got' = (got + k) % Marks
      /\ UNCHANGED <<nwrite, sent, data>>
      /\ Wake(Writers, p, "user", 0) /\ plock' = plock
  BY <1>2, <1>3 DEF piperead
<1>5. Stream(R + k, W)'
  BY <1>3, <1>4, StreamRead
<1>6. R + k \in Nat /\ R + k <= W /\ W - (R + k) <= PIPESIZE
  <2>1. R <= W /\ W - R <= PIPESIZE
    BY DEF Stream
  <2> QED
    BY <1>3, <2>1, Sizes
<1>7. Filled' = W - (R + k)
  BY <1>5, <1>6, WrappedDifference DEF Stream, Filled
<1> QED
  BY <1>3, <1>4, <1>5, <1>6, <1>7

(* Every step keeps the bytes in order.                                     *)
LEMMA StreamStep == CallInv /\ StreamInv /\ [PNext]_pvars => StreamInv'
<1> SUFFICES ASSUME CallInv, [PNext]_pvars,
                    NEW R \in Nat, NEW W \in Nat, Stream(R, W)
             PROVE  StreamInv'
  BY DEF StreamInv
<1>1. ASSUME NEW p \in Writers, pipewrite(p) PROVE StreamInv'
  BY <1>1, WriteEffect DEF StreamInv
<1>2. ASSUME UNCHANGED <<nread, nwrite, data, sent, got>> PROVE StreamInv'
  BY <1>2 DEF StreamInv, Stream
<1>3. ASSUME NEW p \in Readers, piperead(p) PROVE StreamInv'
  <2>1. CASE Filled > 0 \/ ~writeopen
    BY <1>3, <2>1, ReadEffect DEF StreamInv
  <2>2. CASE ~(Filled > 0 \/ ~writeopen)
    BY <1>2, <1>3, <2>2 DEF piperead
  <2> QED
    BY <2>1, <2>2
<1> QED
  BY <1>1, <1>2, <1>3
     DEF PNext, PRun, Call, Sleep, Kill, pipeclose, Freed, pvars

-----------------------------------------------------------------------------
(* What wakeup() does to the others.                                        *)
LEMMA WakeEffect ==
  ASSUME CallInv, NEW ps, NEW p \in PProcs, NEW pc, NEW n, Wake(ps, p, pc, n)
  PROVE  /\ DOMAIN call' = PProcs /\ call'[p] = [pc |-> pc, n |-> n]
         /\ \A q \in PProcs \ {p} :
              /\ call'[q].n = call[q].n
              /\ call'[q].pc = IF q \in ps /\ call[q].pc = "asleep"
                               THEN "run" ELSE call[q].pc
              /\ call'[q] \in [pc : {"user", "run", "sleep", "asleep"}, n : Nat]
<1>1. ASSUME NEW q \in PProcs
      PROVE  call[q] \in [pc : {"user", "run", "sleep", "asleep"}, n : Nat]
  BY DEF CallInv
<1> QED
  BY <1>1 DEF Wake

LEMMA WakeMoves ==
  ASSUME CallInv, NEW ps, NEW p \in PProcs, NEW pc, NEW n, Wake(ps, p, pc, n)
  PROVE  \A q \in PProcs :
           call'[q].pc = IF q = p THEN pc
                         ELSE IF q \in ps /\ call[q].pc = "asleep"
                         THEN "run" ELSE call[q].pc
<1>1. call'[p].pc = pc
  <2>1. call'[p] = [pc |-> pc, n |-> n]
    BY WakeEffect
  <2> QED
    BY <2>1
<1>2. \A q \in PProcs \ {p} :
        call'[q].pc = IF q \in ps /\ call[q].pc = "asleep" THEN "run" ELSE call[q].pc
  <2>1. \A q \in PProcs \ {p} :
          /\ call'[q].n = call[q].n
          /\ call'[q].pc = IF q \in ps /\ call[q].pc = "asleep"
                           THEN "run" ELSE call[q].pc
          /\ call'[q] \in [pc : {"user", "run", "sleep", "asleep"}, n : Nat]
    BY WakeEffect
  <2> QED
    BY <2>1
<1> QED
  BY <1>1, <1>2

(* A step of one process that wakes some others keeps CallInv.              *)
LEMMA WakeKeeps ==
  ASSUME CallInv, NEW ps, NEW p \in PProcs, NEW pc, NEW n \in Nat,
         Wake(ps, p, pc, n), plock = "free", killed' = killed,
         \/ pc = "user" /\ open' \in {open, open \ {p}} /\ plock' = plock
         \/ pc = "sleep" /\ n > 0 /\ p \in open /\ open' = open /\ plock' = p
  PROVE  CallInv'
<1>1. \A q \in PProcs : call[q].pc # "sleep"
  BY PipeAssumption DEF CallInv
<1> DEFINE CallType == [pc : {"user", "run", "sleep", "asleep"}, n : Nat]
<1>2. /\ DOMAIN call' = PProcs /\ call'[p] = [pc |-> pc, n |-> n]
      /\ \A q \in PProcs \ {p} :
           /\ call'[q].n = call[q].n
           /\ call'[q].pc = IF q \in ps /\ call[q].pc = "asleep"
                            THEN "run" ELSE call[q].pc
           /\ call'[q] \in CallType
  BY WakeEffect
<1>3. call' = [q \in PProcs |-> call'[q]]
  BY DEF Wake
<1>4. call'[p] \in CallType /\ call'[p].pc = pc /\ call'[p].n = n
  BY <1>2
<1>5. call' \in [PProcs -> CallType]
  <2>1. \A q \in PProcs : call'[q] \in CallType
    BY <1>2, <1>4
  <2> HIDE DEF CallType
  <2> QED
    BY <1>3, <2>1
<1>6. \A q \in PProcs : call'[q].pc # "user" => q \in open' /\ call'[q].n > 0
  BY <1>2, <1>4 DEF CallInv
<1>7. \A q \in PProcs : call'[q].pc = "sleep" => plock' = q
  BY <1>1, <1>2, <1>4
<1>8. open' \subseteq PProcs /\ killed' \subseteq PProcs
  BY DEF CallInv
<1> QED
  BY <1>5, <1>6, <1>7, <1>8 DEF CallInv

(* Every step keeps who is in a call, and who has the lock.                 *)
LEMMA CallStep == CallInv /\ StreamInv /\ [PNext]_pvars => CallInv'
<1> SUFFICES ASSUME CallInv, StreamInv, [PNext]_pvars PROVE CallInv'
  OBVIOUS
<1>0. PICK R \in Nat, W \in Nat : Stream(R, W)
  BY DEF StreamInv
<1>1. ASSUME NEW p \in Writers, pipewrite(p) PROVE CallInv'
  <2>1. p \in PProcs /\ p \in open /\ plock = "free" /\ UNCHANGED <<open, killed>>
    BY <1>1 DEF pipewrite, CallInv, PProcs
  <2>2. PICK k \in Nat :
           /\ k <= call[p].n
           /\ \/ Wake(Readers, p, "user", 0) /\ plock' = plock
              \/ call' = [call EXCEPT ![p] = Returned] /\ plock' = plock
              \/ k < call[p].n /\ Wake(Readers, p, "sleep", call[p].n - k) /\ plock' = p
    BY <1>0, <1>1, WriteEffect
  <2>3. CASE Wake(Readers, p, "user", 0) /\ plock' = plock
    BY <2>1, <2>3, WakeKeeps
  <2>4. CASE call' = [call EXCEPT ![p] = Returned] /\ plock' = plock
    BY <2>1, <2>4 DEF CallInv, Returned
  <2>5. CASE k < call[p].n /\ Wake(Readers, p, "sleep", call[p].n - k) /\ plock' = p
    <3>1. call[p].n \in Nat
      BY <2>1 DEF CallInv
    <3>2. call[p].n - k \in Nat /\ call[p].n - k > 0
      BY <2>5, <3>1
    <3> QED
      BY <2>1, <2>5, <3>2, WakeKeeps
  <2> QED
    BY <2>2, <2>3, <2>4, <2>5
<1>2. ASSUME NEW p \in Readers, piperead(p) PROVE CallInv'
  <2>1. p \in PProcs /\ p \in open /\ plock = "free" /\ UNCHANGED <<open, killed>>
    BY <1>2 DEF piperead, CallInv, PProcs
  <2>2. CASE Filled > 0 \/ ~writeopen
    <3>1. Wake(Writers, p, "user", 0) /\ plock' = plock
      BY <1>0, <1>2, <2>2, ReadEffect
    <3> QED
      BY <2>1, <3>1, WakeKeeps
  <2>3. CASE ~(Filled > 0 \/ ~writeopen)
    <3>1. CASE p \in killed
      BY <1>2, <2>1, <2>3, <3>1 DEF piperead, CallInv, Returned
    <3>2. CASE p \notin killed
      <4>1. call' = [call EXCEPT ![p].pc = "sleep"] /\ plock' = p
        BY <1>2, <2>3, <3>2 DEF piperead
      <4>2. call[p].n > 0 /\ \A q \in PProcs : call[q].pc # "sleep"
        BY <1>2, <2>1, PipeAssumption DEF CallInv, piperead
      <4> QED
        BY <2>1, <4>1, <4>2 DEF CallInv
    <3> QED
      BY <3>1, <3>2
  <2> QED
    BY <2>2, <2>3
<1>3. ASSUME NEW p \in PProcs, Sleep(p) PROVE CallInv'
  <2>1. \A q \in PProcs : q # p => call[q].pc # "sleep"
    BY <1>3 DEF Sleep, CallInv
  <2> QED
    BY <1>3, <2>1 DEF Sleep, CallInv
<1>4. ASSUME NEW p \in PProcs, Call(p) PROVE CallInv'
  <2>1. PICK n \in 1 .. MaxBytes : call' = [call EXCEPT ![p] = [pc |-> "run", n |-> n]]
    BY <1>4 DEF Call
  <2>2. n \in Nat /\ n > 0
    BY PipeAssumption
  <2>3. p \in open /\ UNCHANGED <<open, killed, plock>>
    BY <1>4 DEF Call
  <2> QED
    BY <2>1, <2>2, <2>3 DEF CallInv
<1>5. ASSUME NEW p \in PProcs, Kill(p) PROVE CallInv'
  BY <1>5 DEF Kill, CallInv
<1>6. ASSUME NEW p \in PProcs, pipeclose(p) PROVE CallInv'
  <2>1. CASE plock = "free" /\ CloseWakes(p)
    BY <1>6, <2>1, WakeKeeps DEF pipeclose, CloseWakes
  <2>2. CASE UNCHANGED call
    BY <1>6, <2>2 DEF pipeclose, CallInv
  <2> QED
    BY <1>6, <2>1, <2>2 DEF pipeclose
<1>7. CASE UNCHANGED pvars
  BY <1>7 DEF pvars, CallInv
<1> QED
  BY <1>1, <1>2, <1>3, <1>4, <1>5, <1>6, <1>7 DEF PNext, PRun, Freed

-----------------------------------------------------------------------------
(* Every step keeps a writer from sleeping in front of room, and a reader   *)
(* from sleeping in front of bytes, but for the killed writer.              *)
LEMMA SleepersStep == PipeInv /\ [PNext]_pvars => PipeSleepers'
<1> SUFFICES ASSUME CallInv, PipeSleepers, [PNext]_pvars,
                    NEW R \in Nat, NEW W \in Nat, Stream(R, W)
             PROVE  PipeSleepers'
  BY DEF PipeInv, StreamInv
<1> DEFINE Sleeping == {"sleep", "asleep"}
           Well(q) == IF q \in Writers THEN Filled = PIPESIZE /\ readopen
                      ELSE (Filled = 0 \/ Writers \cap killed # {}) /\ writeopen
<1>1. Filled = W - R /\ W - R \in Nat /\ W - R <= PIPESIZE /\ PIPESIZE > 0
  <2>1. R <= W /\ W - R <= PIPESIZE
    BY DEF Stream
  <2> QED
    BY <2>1, StreamFilled, Sizes
<1>2. ASSUME NEW q \in PProcs, call[q].pc \in Sleeping PROVE Well(q)
  BY <1>2 DEF PipeSleepers
<1>3. plock = "free" => \A q \in PProcs : call[q].pc # "sleep"
  BY PipeAssumption DEF CallInv
<1>4. \A q \in PProcs : call[q].pc \in Sleeping => q \in open
  BY DEF CallInv
<1>5. ASSUME \A q \in PProcs : call'[q].pc \in Sleeping => Well(q)'
      PROVE  PipeSleepers'
  BY <1>5 DEF PipeSleepers
<1>6. ASSUME NEW p \in Writers, pipewrite(p) PROVE PipeSleepers'
  <2>1. PICK k \in Nat :
           /\ k <= PIPESIZE - (W - R) /\ k <= call[p].n
           /\ k = call[p].n \/ k = PIPESIZE - (W - R)
           /\ Filled' = (W + k) - R
           /\ \/ k = call[p].n /\ Wake(Readers, p, "user", 0)
              \/ /\ k < call[p].n /\ (~readopen \/ p \in killed)
                 /\ call' = [call EXCEPT ![p] = Returned]
              \/ /\ k < call[p].n /\ readopen
                 /\ Wake(Readers, p, "sleep", call[p].n - k)
    BY <1>6, WriteEffect
  <2>2. p \in PProcs /\ p \notin Readers
    BY PipeAssumption DEF PProcs
  <2>3. plock = "free" /\ readopen' = readopen /\ writeopen' = writeopen
        /\ killed' = killed
    BY <1>6 DEF pipewrite, readopen, writeopen
  <2>4. call[p].n \in Nat
    BY <2>2 DEF CallInv
  <2>5. ASSUME NEW q \in PProcs, call'[q].pc \in Sleeping PROVE Well(q)'
    <3>1. CASE k = call[p].n /\ Wake(Readers, p, "user", 0)
      <4>1. q # p /\ call'[q].pc = IF q \in Readers /\ call[q].pc = "asleep"
                                   THEN "run" ELSE call[q].pc
        BY <2>2, <2>5, <3>1, WakeMoves
      <4>2. q \in Writers /\ call[q].pc \in Sleeping
        BY <1>3, <2>3, <2>5, <4>1 DEF PProcs
      <4>3. Well(q)
        BY <1>2, <4>2
      <4>4. k = 0 /\ Filled' = Filled
        BY <1>1, <2>1, <4>2, <4>3
      <4> QED
        BY <2>3, <4>2, <4>3, <4>4
    <3>2. CASE /\ k < call[p].n /\ (~readopen \/ p \in killed)
               /\ call' = [call EXCEPT ![p] = Returned]
      <4>1. q # p /\ call'[q].pc = call[q].pc
        BY <2>2, <2>5, <3>2 DEF CallInv, Returned
      <4>2. Well(q)
        BY <1>2, <2>5, <4>1
      <4>3. CASE q \in Writers
        BY <1>1, <2>1, <2>3, <4>2, <4>3
      <4>4. CASE q \notin Writers
        <5>1. q \in Readers /\ q \in open
          BY <1>4, <2>5, <4>1, <4>4 DEF PProcs
        <5>2. p \in killed
          BY <3>2, <5>1 DEF readopen
        <5> QED
          BY <2>3, <4>2, <4>4, <5>2
      <4> QED
        BY <4>3, <4>4
    <3>3. CASE /\ k < call[p].n /\ readopen
               /\ Wake(Readers, p, "sleep", call[p].n - k)
      <4>1. k = PIPESIZE - (W - R) /\ Filled' = PIPESIZE
        BY <1>1, <2>1, <2>4, <3>3, Sizes
      <4>2. CASE q = p
        BY <1>6, <2>3, <3>3, <4>1, <4>2
      <4>3. CASE q # p
        <5>1. call'[q].pc = IF q \in Readers /\ call[q].pc = "asleep"
                            THEN "run" ELSE call[q].pc
          BY <2>2, <3>3, <4>3, WakeMoves
        <5>2. q \in Writers
          BY <1>3, <2>3, <2>5, <5>1 DEF PProcs
        <5> QED
          BY <2>3, <3>3, <4>1, <5>2
      <4> QED
        BY <4>2, <4>3
    <3> QED
      BY <2>1, <3>1, <3>2, <3>3
  <2> QED
    BY <1>5, <2>5
<1>7. ASSUME NEW p \in Readers, piperead(p) PROVE PipeSleepers'
  <2>1. p \in PProcs /\ p \notin Writers
    BY PipeAssumption DEF PProcs
  <2>2. plock = "free" /\ readopen' = readopen /\ writeopen' = writeopen
        /\ killed' = killed
    BY <1>7 DEF piperead, readopen, writeopen
  <2>3. CASE Filled > 0 \/ ~writeopen
    <3>1. PICK k \in Nat : /\ k <= W - R /\ (W - R > 0 => k > 0)
                           /\ Filled' = W - (R + k)
                           /\ Wake(Writers, p, "user", 0)
      BY <1>7, <2>3, ReadEffect
    <3>2. ASSUME NEW q \in PProcs, call'[q].pc \in Sleeping PROVE Well(q)'
      <4>1. q # p /\ call'[q].pc = IF q \in Writers /\ call[q].pc = "asleep"
                                   THEN "run" ELSE call[q].pc
        BY <2>1, <3>1, <3>2, WakeMoves
      <4>2. q \notin Writers /\ call[q].pc \in Sleeping
        BY <1>3, <2>2, <3>2, <4>1
      <4>3. Well(q)
        BY <1>2, <4>2
      <4>4. Filled = 0 => Filled' = 0
        BY <1>1, <3>1
      <4> QED
        BY <2>2, <4>2, <4>3, <4>4
    <3> QED
      BY <1>5, <3>2
  <2>4. CASE ~(Filled > 0 \/ ~writeopen)
    <3>1. Filled = 0 /\ writeopen
      BY <1>1, <2>4
    <3>2. /\ UNCHANGED <<nread, nwrite>>
          /\ \A q \in PProcs : q # p => call'[q].pc = call[q].pc
      BY <1>7, <2>4 DEF piperead, CallInv
    <3>3. Filled' = Filled
      BY <3>2 DEF Filled
    <3>4. ASSUME NEW q \in PProcs, call'[q].pc \in Sleeping PROVE Well(q)'
      <4>1. CASE q = p
        BY <2>1, <2>2, <3>1, <3>3, <4>1
      <4>2. CASE q # p
        <5>1. Well(q)
          BY <1>2, <3>2, <3>4, <4>2
        <5> QED
          BY <2>2, <3>3, <5>1
      <4> QED
        BY <4>1, <4>2
    <3> QED
      BY <1>5, <3>4
  <2> QED
    BY <2>3, <2>4
<1>8. ASSUME UNCHANGED <<nread, nwrite, open>>, killed \subseteq killed',
             \A q \in PProcs : call'[q].pc \in Sleeping => call[q].pc \in Sleeping
      PROVE  PipeSleepers'
  <2>1. Filled' = Filled /\ readopen' = readopen /\ writeopen' = writeopen
    BY <1>8 DEF Filled, readopen, writeopen
  <2> QED
    BY <1>2, <1>5, <1>8, <2>1
<1>9. ASSUME NEW p \in PProcs, Sleep(p) PROVE PipeSleepers'
  BY <1>8, <1>9 DEF Sleep, CallInv
<1>10. ASSUME NEW p \in PProcs, Call(p) PROVE PipeSleepers'
  <2>1. \A q \in PProcs : call'[q].pc \in Sleeping => call[q].pc \in Sleeping
    BY <1>10 DEF Call, CallInv
  <2> QED
    BY <1>8, <1>10, <2>1 DEF Call
<1>11. ASSUME NEW p \in PProcs, Kill(p) PROVE PipeSleepers'
  <2>1. \A q \in PProcs : call'[q].pc \in Sleeping => call[q].pc \in Sleeping
    BY <1>11 DEF Kill, CallInv
  <2> QED
    BY <1>8, <1>11, <2>1 DEF Kill
<1>12. ASSUME NEW p \in PProcs, pipeclose(p) PROVE PipeSleepers'
  <2>1. Filled' = Filled /\ killed' = killed /\ open' = open \ {p} /\ p \in open
        /\ call[p].pc = "user"
    BY <1>12 DEF pipeclose, Filled
  <2>2. ASSUME NEW q \in PProcs, call'[q].pc \in Sleeping PROVE Well(q)'
    <3>1. CASE plock = "free" /\ CloseWakes(p)
      <4>1. CASE p \in Writers
        <5>1. Wake(Readers, p, "user", 0)
          BY <3>1, <4>1 DEF CloseWakes
        <5>2. q # p /\ call'[q].pc = IF q \in Readers /\ call[q].pc = "asleep"
                                     THEN "run" ELSE call[q].pc
          BY <2>2, <5>1, WakeMoves
        <5>3. q \in Writers /\ call[q].pc \in Sleeping
          BY <1>3, <2>2, <3>1, <5>2 DEF PProcs
        <5>4. readopen' = readopen
          BY <2>1, <4>1, PipeAssumption DEF readopen
        <5> QED
          BY <1>2, <2>1, <5>3, <5>4
      <4>2. CASE p \notin Writers
        <5>1. Wake(Writers, p, "user", 0)
          BY <3>1, <4>2 DEF CloseWakes
        <5>2. q # p /\ call'[q].pc = IF q \in Writers /\ call[q].pc = "asleep"
                                     THEN "run" ELSE call[q].pc
          BY <2>2, <5>1, WakeMoves
        <5>3. q \notin Writers /\ call[q].pc \in Sleeping
          BY <1>3, <2>2, <3>1, <5>2
        <5>4. writeopen' = writeopen
          BY <2>1, <4>2 DEF writeopen
        <5> QED
          BY <1>2, <2>1, <5>3, <5>4
      <4> QED
        BY <4>1, <4>2
    <3>2. CASE {p} \notin {Writers \cap open, Readers \cap open} /\ UNCHANGED call
      <4>1. Well(q)
        BY <1>2, <2>2, <3>2
      <4>2. readopen => readopen'
        BY <2>1, <3>2 DEF readopen
      <4>3. writeopen => writeopen'
        BY <2>1, <3>2 DEF writeopen
      <4> QED
        BY <2>1, <4>1, <4>2, <4>3
    <3> QED
      BY <1>12, <3>1, <3>2 DEF pipeclose
  <2> QED
    BY <1>5, <2>2
<1>13. CASE UNCHANGED pvars
  BY <1>8, <1>13 DEF pvars
<1> QED
  BY <1>6, <1>7, <1>9, <1>10, <1>11, <1>12, <1>13 DEF PNext, PRun, Freed

-----------------------------------------------------------------------------
(* The invariant of the pipe holds at first and in every step.              *)
LEMMA PInitInv == PInit => PipeInv
<1> SUFFICES ASSUME PInit PROVE PipeInv
  OBVIOUS
<1>1. CallInv
  BY DEF PInit, CallInv, Returned
<1>2. Stream(0, 0)
  <2>1. 0 % Uint = 0 /\ 0 % Marks = 0
    BY Sizes, ModSmall
  <2> QED
    BY <2>1, Sizes DEF PInit, Stream
<1>3. PipeSleepers
  BY DEF PInit, PipeSleepers, Returned
<1> QED
  BY <1>1, <1>2, <1>3 DEF PipeInv, StreamInv

LEMMA PStepInv == PipeInv /\ [PNext]_pvars => PipeInv'
  BY CallStep, StreamStep, SleepersStep DEF PipeInv

-----------------------------------------------------------------------------
(* The console.                                                             *)

CChars == Plain \cup {NL, EOF}
Rings == [0 .. INPUT_BUF - 1 -> CChars]

(* The characters of ring f in the places a, a + 1, ... up to b, where the  *)
(* places are counted since the machine was started.                        *)
Seg(f, a, b) == [k \in 1 .. (b - a) |-> f[((a + k) - 1) % INPUT_BUF]]

LEMMA CSizes == INPUT_BUF \in Nat \ {0} /\ CUint \in Nat \ {0} /\ INPUT_BUF < CUint
  BY ConsoleAssumption

(* Place i is in slot i also when the index has wrapped.                    *)
LEMMA CSlotOf ==
  ASSUME NEW a \in Nat, NEW j \in Int
  PROVE  Slot(((a % CUint) + j) % CUint) = (a + j) % INPUT_BUF
<1>1. a \in Int /\ a + j \in Int
  OBVIOUS
<1>2. ((a % CUint) + j) % CUint = (a + j) % CUint
  BY <1>1, CSizes, ModAdd
<1>3. CUint % INPUT_BUF = 0
  BY ConsoleAssumption
<1>4. ((a + j) % CUint) % INPUT_BUF = (a + j) % INPUT_BUF
  BY <1>1, <1>3, CSizes, ModMultiple
<1> QED
  BY <1>2, <1>4 DEF Slot

(* The model's stretch between two wrapped indices.                         *)
LEMMA StretchIsSeg ==
  ASSUME NEW f, NEW a \in Nat, NEW b \in Nat, a <= b, b - a <= INPUT_BUF
  PROVE  /\ Dist(b % CUint, a % CUint) = b - a
         /\ [k \in 1 .. Dist(b % CUint, a % CUint) |->
               f[Slot((((a % CUint) + k) - 1) % CUint)]] = Seg(f, a, b)
<1>1. Dist(b % CUint, a % CUint) = b - a
  <2>1. b - a < CUint
    BY CSizes
  <2> QED
    BY <2>1, CSizes, ModDistance DEF Dist
<1>2. ASSUME NEW k \in 1 .. (b - a)
      PROVE  Slot((((a % CUint) + k) - 1) % CUint) = ((a + k) - 1) % INPUT_BUF
  <2> DEFINE j == k - 1
  <2>1. j \in Int /\ ((a % CUint) + k) - 1 = (a % CUint) + j /\ (a + k) - 1 = a + j
    <3>1. (a % CUint) \in Int
      BY CSizes, NatInt, ModRange
    <3> QED
      BY <3>1
  <2> HIDE DEF j
  <2> QED
    BY <2>1, CSlotOf
<1> QED
  BY <1>1, <1>2 DEF Seg

(* A segment is a sequence.                                                 *)
LEMMA SegSeq ==
  ASSUME NEW f \in Rings, NEW a \in Nat, NEW b \in Nat,
         a <= b
  PROVE  /\ Seg(f, a, b) \in Seq(CChars) /\ Len(Seg(f, a, b)) = b - a
         /\ \A k \in 1 .. (b - a) : Seg(f, a, b)[k] = f[((a + k) - 1) % INPUT_BUF]
<1>1. b - a \in Nat
  OBVIOUS
<1>2. ASSUME NEW k \in 1 .. (b - a)
      PROVE  f[((a + k) - 1) % INPUT_BUF] \in CChars
  <2>1. (a + k) - 1 \in Int
    OBVIOUS
  <2>2. (((a + k) - 1) % INPUT_BUF) \in 0 .. INPUT_BUF - 1
    BY <2>1, CSizes, ModRange
  <2> QED
    BY <2>2 DEF Rings
<1>3. Seg(f, a, b) \in [1 .. (b - a) -> CChars]
  BY <1>2 DEF Seg
<1>4. Seg(f, a, b) \in Seq(CChars)
  BY <1>1, <1>2, IsASeq DEF Seg
<1>5. Len(Seg(f, a, b)) = b - a
  BY <1>1 DEF Seg
<1>6. \A k \in 1 .. (b - a) : Seg(f, a, b)[k] = f[((a + k) - 1) % INPUT_BUF]
  BY DEF Seg
<1> QED
  BY <1>4, <1>5, <1>6

(* The slot of the next place is not the slot of one that is in the ring.   *)
LEMMA SlotsApart ==
  ASSUME NEW r \in Nat, NEW e \in Nat, r <= e, e - r < INPUT_BUF
  PROVE  /\ (e % INPUT_BUF) \in 0 .. INPUT_BUF - 1
         /\ \A i \in r .. e - 1 : /\ (i % INPUT_BUF) # (e % INPUT_BUF)
                                  /\ (i % INPUT_BUF) \in 0 .. INPUT_BUF - 1
<1>1. (e % INPUT_BUF) \in 0 .. INPUT_BUF - 1
  BY CSizes, NatInt, ModRange
<1>2. ASSUME NEW i \in r .. e - 1
      PROVE  (i % INPUT_BUF) # (e % INPUT_BUF) /\ (i % INPUT_BUF) \in 0 .. INPUT_BUF - 1
  <2>1. i \in Int /\ e \in Int /\ i - e < INPUT_BUF /\ e - i < INPUT_BUF /\ i # e
    BY CSizes
  <2> QED
    BY <2>1, CSizes, ModSame, ModRange
<1> QED
  BY <1>1, <1>2

(* Two rings agree on the places from a to b.                               *)
Agree(f, g, a, b) == \A i \in a .. b - 1 : g[i % INPUT_BUF] = f[i % INPUT_BUF]

(* Rings that agree on the places have the same segment.                    *)
LEMMA SegSame ==
  ASSUME NEW f \in Rings, NEW g \in Rings, NEW a \in Nat, NEW b \in Nat,
         Agree(f, g, a, b)
  PROVE  Seg(g, a, b) = Seg(f, a, b)
<1>1. ASSUME NEW k \in 1 .. (b - a) PROVE (a + k) - 1 \in a .. b - 1
  OBVIOUS
<1> QED
  BY <1>1 DEF Seg, Agree

LEMMA SegAppend ==
  ASSUME NEW f \in Rings, NEW a \in Nat, NEW b \in Nat, a <= b
  PROVE  Seg(f, a, b + 1) = Append(Seg(f, a, b), f[b % INPUT_BUF])
<1> DEFINE s == Seg(f, a, b)
           c == f[b % INPUT_BUF]
           t == Seg(f, a, b + 1)
           n == b - a
<1>1. n \in Nat /\ b + 1 \in Nat /\ a <= b + 1 /\ (b + 1) - a = n + 1 /\ (a + (n + 1)) - 1 = b
  OBVIOUS
<1>2. s \in Seq(CChars) /\ Len(s) = n
      /\ \A k \in 1 .. n : s[k] = f[((a + k) - 1) % INPUT_BUF]
  BY SegSeq
<1>3. t \in Seq(CChars) /\ Len(t) = (b + 1) - a
      /\ \A k \in 1 .. ((b + 1) - a) : t[k] = f[((a + k) - 1) % INPUT_BUF]
  BY <1>1, SegSeq
<1>4. c \in CChars
  <2>1. (b % INPUT_BUF) \in 0 .. INPUT_BUF - 1
    BY CSizes, NatInt, ModRange
  <2> QED
    BY <2>1 DEF Rings
<1> HIDE DEF s, t, c, n
<1>5. /\ Append(s, c) \in Seq(CChars) /\ Len(Append(s, c)) = n + 1
      /\ \A k \in 1 .. n : Append(s, c)[k] = s[k]
      /\ Append(s, c)[n + 1] = c
  BY <1>2, <1>4, AppendProperties
<1>6. ASSUME NEW k \in 1 .. n + 1 PROVE t[k] = Append(s, c)[k]
  <2>1. CASE k \in 1 .. n
    BY <1>1, <1>2, <1>3, <1>5, <2>1
  <2>2. CASE k = n + 1
    BY <1>1, <1>3, <1>5, <2>2 DEF c
  <2>3. n \in Nat
    BY <1>1
  <2>4. k \in 1 .. n \/ k = n + 1
    BY <1>6, <2>3
  <2> QED
    BY <2>1, <2>2, <2>4
<1>7. t = Append(s, c)
  BY <1>1, <1>3, <1>5, <1>6, SeqEqual
<1> QED
  BY <1>7 DEF s, t, c

LEMMA SegConcat ==
  ASSUME NEW f \in Rings,
         NEW a \in Nat, NEW b \in Nat, NEW d \in Nat, a <= b, b <= d
  PROVE  Seg(f, a, d) = Seg(f, a, b) \o Seg(f, b, d)
<1> DEFINE s == Seg(f, a, b)
           t == Seg(f, b, d)
           u == Seg(f, a, d)
<1>1. s \in Seq(CChars) /\ Len(s) = b - a
      /\ \A k \in 1 .. (b - a) : s[k] = f[((a + k) - 1) % INPUT_BUF]
  BY SegSeq
<1>2. t \in Seq(CChars) /\ Len(t) = d - b
      /\ \A k \in 1 .. (d - b) : t[k] = f[((b + k) - 1) % INPUT_BUF]
  BY SegSeq
<1>3. u \in Seq(CChars) /\ Len(u) = d - a
      /\ \A k \in 1 .. (d - a) : u[k] = f[((a + k) - 1) % INPUT_BUF]
  BY SegSeq
<1> HIDE DEF s, t, u
<1>4. /\ s \o t \in Seq(CChars) /\ Len(s \o t) = d - a
      /\ \A k \in 1 .. (d - a) :
           (s \o t)[k] = IF k <= b - a THEN s[k] ELSE t[k - (b - a)]
  BY <1>1, <1>2, ConcatProperties
<1>5. ASSUME NEW k \in 1 .. (d - a) PROVE u[k] = (s \o t)[k]
  <2>1. CASE k <= b - a
    <3>1. k \in 1 .. (b - a)
      BY <2>1
    <3> QED
      BY <1>1, <1>3, <1>4, <2>1, <3>1
  <2>2. CASE ~(k <= b - a)
    <3>1. k - (b - a) \in 1 .. (d - b) /\ (b + (k - (b - a))) - 1 = (a + k) - 1
      BY <2>2
    <3> QED
      BY <1>2, <1>3, <1>4, <2>2, <3>1
  <2> QED
    BY <2>1, <2>2
<1>6. u = s \o t
  BY <1>3, <1>4, <1>5, SeqEqual
<1> QED
  BY <1>6 DEF s, t, u

(* A part of a segment.                                                     *)
LEMMA SegSub ==
  ASSUME NEW f \in Rings, NEW a \in Nat, NEW b \in Nat, NEW x \in Nat, NEW y \in Nat,
         a <= x, x <= y, y <= b
  PROVE  SubSeq(Seg(f, a, b), (x - a) + 1, y - a) = Seg(f, x, y)
<1> DEFINE s == Seg(f, a, b)
           t == Seg(f, x, y)
           i == (x - a) + 1
           k == y - a
           u == SubSeq(s, i, k)
<1>1. s \in Seq(CChars) /\ Len(s) = b - a
      /\ \A j \in 1 .. (b - a) : s[j] = f[((a + j) - 1) % INPUT_BUF]
  <2>1. a <= b
    OBVIOUS
  <2> QED
    BY <2>1, SegSeq
<1>2. t \in Seq(CChars) /\ Len(t) = y - x
      /\ \A j \in 1 .. (y - x) : t[j] = f[((x + j) - 1) % INPUT_BUF]
  BY SegSeq
<1> HIDE DEF s, t
<1>3. i \in Int /\ k \in Int /\ \A j \in i .. k : s[j] \in CChars
  BY <1>1
<1>4. y - x \in Nat /\ (k - i) + 1 = y - x /\ (i <= k <=> y - x > 0)
  OBVIOUS
<1>5. \A j \in 1 .. (y - x) :
        (i + j) - 1 \in 1 .. (b - a) /\ (x + j) - 1 = (a + ((i + j) - 1)) - 1
  OBVIOUS
<1> HIDE DEF i, k
<1>6. /\ SubSeq(s, i, k) \in Seq(CChars)
      /\ Len(SubSeq(s, i, k)) = IF i <= k THEN k - i + 1 ELSE 0
      /\ \A j \in 1 .. k - i + 1 : SubSeq(s, i, k)[j] = s[i + j - 1]
  BY <1>3, SubSeqProperties
<1>7. u \in Seq(CChars) /\ Len(u) = y - x /\ \A j \in 1 .. (y - x) : u[j] = s[(i + j) - 1]
  BY <1>3, <1>4, <1>6
<1> HIDE DEF u
<1>8. ASSUME NEW j \in 1 .. (y - x) PROVE u[j] = t[j]
  BY <1>1, <1>2, <1>5, <1>7
<1>9. u = t
  BY <1>2, <1>7, <1>8, SeqEqual
<1> QED
  BY <1>9 DEF s, t, u, i, k

-----------------------------------------------------------------------------
(* The inductive invariant of the console.  Since the machine was started,  *)
(* R characters have been read, W have been complete and E are in the ring; *)
(* the indices of the code are what is left of them modulo CUint.  A line   *)
(* that is being edited has no newline.                                     *)
Indices(R, W, E) ==
  /\ R <= W /\ W <= E /\ E - R <= INPUT_BUF
  /\ inr = R % CUint /\ inw = W % CUint /\ ine = E % CUint
  /\ ring \in Rings
  /\ \A i \in W .. E - 1 : ring[i % INPUT_BUF] # NL

RingInv == \E R, W, E \in Nat : Indices(R, W, E)

ReadInv ==
  /\ rd \in [CProcs -> [pc : {"user", "run", "sleep", "asleep"}, n : Nat, target : Nat]]
  /\ \A p \in CProcs : rd[p].n <= rd[p].target

ConsoleInv == RingInv /\ ReadInv /\ ReaderWaits

(* What the invariant says of what the model reads off the indices.         *)
LEMMA IndicesMean ==
  ASSUME NEW R \in Nat, NEW W \in Nat, NEW E \in Nat, Indices(R, W, E)
  PROVE  /\ Dist(ine, inr) = E - R /\ Dist(ine, inw) = E - W
         /\ Ready = Seg(ring, R, W) /\ Stretch(inw, ine) = Seg(ring, W, E)
         /\ (inr = inw <=> R = W) /\ (ine = inw <=> E = W)
<1>1. W - R <= INPUT_BUF /\ E - W <= INPUT_BUF /\ R <= E /\ E - R <= INPUT_BUF
      /\ R <= W /\ W <= E
  BY CSizes DEF Indices
<1>2. /\ Dist(ine, inr) = E - R /\ Dist(ine, inw) = E - W /\ Dist(inw, inr) = W - R
  BY <1>1, StretchIsSeg DEF Indices
<1>3. Ready = Seg(ring, R, W)
  <2>1. [k \in 1 .. Dist(W % CUint, R % CUint) |->
           ring[Slot((((R % CUint) + k) - 1) % CUint)]] = Seg(ring, R, W)
    BY <1>1, StretchIsSeg
  <2>2. inr = R % CUint /\ inw = W % CUint
    BY DEF Indices
  <2> QED
    BY <2>1, <2>2 DEF Ready, Stretch
<1>4. Stretch(inw, ine) = Seg(ring, W, E)
  <2>1. [k \in 1 .. Dist(E % CUint, W % CUint) |->
           ring[Slot((((W % CUint) + k) - 1) % CUint)]] = Seg(ring, W, E)
    BY <1>1, StretchIsSeg
  <2>2. inw = W % CUint /\ ine = E % CUint
    BY DEF Indices
  <2> QED
    BY <2>1, <2>2 DEF Stretch
<1>5. inr = inw => R = W
  <2>1. W - R < CUint /\ R - W < CUint
    BY <1>1, CSizes
  <2> QED
    BY <2>1, CSizes, NatInt, ModSame DEF Indices
<1>6. ine = inw => E = W
  <2>1. E - W < CUint /\ W - E < CUint
    BY <1>1, CSizes
  <2> QED
    BY <2>1, CSizes, NatInt, ModSame DEF Indices
<1> QED
  BY <1>2, <1>3, <1>4, <1>5, <1>6 DEF Indices

(* The same, after a step.                                                  *)
LEMMA IndicesMeanNext ==
  ASSUME NEW R \in Nat, NEW W \in Nat, NEW E \in Nat, Indices(R, W, E)'
  PROVE  Ready' = Seg(ring', R, W) /\ Stretch(inw, ine)' = Seg(ring', W, E)
<1>1. W - R <= INPUT_BUF /\ E - W <= INPUT_BUF /\ R <= W /\ W <= E
  BY CSizes DEF Indices
<1>2. Ready' = Seg(ring', R, W)
  <2>1. [k \in 1 .. Dist(W % CUint, R % CUint) |->
           ring'[Slot((((R % CUint) + k) - 1) % CUint)]] = Seg(ring', R, W)
    BY <1>1, StretchIsSeg
  <2>2. inr' = R % CUint /\ inw' = W % CUint
    BY DEF Indices
  <2> QED
    BY <2>1, <2>2 DEF Ready, Stretch
<1>3. Stretch(inw, ine)' = Seg(ring', W, E)
  <2>1. [k \in 1 .. Dist(E % CUint, W % CUint) |->
           ring'[Slot((((W % CUint) + k) - 1) % CUint)]] = Seg(ring', W, E)
    BY <1>1, StretchIsSeg
  <2>2. inw' = W % CUint /\ ine' = E % CUint
    BY DEF Indices
  <2> QED
    BY <2>1, <2>2 DEF Stretch
<1> QED
  BY <1>2, <1>3

(* A character is put at the end of the line, which it may complete.        *)
LEMMA TypeEffect ==
  ASSUME NEW R \in Nat, NEW W \in Nat, NEW E \in Nat, Indices(R, W, E),
         NEW c \in CChars, Fits, inr' = inr,
         ring' = [ring EXCEPT ![Slot(ine)] = c], ine' = (ine + 1) % CUint,
         inw' = IF Complete(c, ine') THEN ine' ELSE inw
  PROVE  /\ E - R < INPUT_BUF
         /\ Complete(c, ine') <=> (c \in {NL, EOF} \/ (E + 1) - R = INPUT_BUF)
         /\ ring' \in Rings /\ ring'[E % INPUT_BUF] = c
         /\ \A i \in R .. E - 1 : ring'[i % INPUT_BUF] = ring[i % INPUT_BUF]
         /\ Complete(c, ine') => Indices(R, E + 1, E + 1)'
         /\ ~Complete(c, ine') => Indices(R, W, E + 1)'
<1>1. E - R < INPUT_BUF /\ R <= W /\ W <= E /\ R <= E /\ E + 1 \in Nat
      /\ R <= E + 1 /\ (E + 1) - R <= INPUT_BUF
  <2>1. Dist(ine, inr) = E - R
    BY IndicesMean
  <2>2. R <= W /\ W <= E
    BY DEF Indices
  <2> QED
    BY <2>1, <2>2, CSizes DEF Fits
<1>2. ine' = (E + 1) % CUint
  BY CSizes, NatInt, ModAdd DEF Indices
<1>3. Dist(ine', inr) = (E + 1) - R
  <2>1. Dist((E + 1) % CUint, R % CUint) = (E + 1) - R
    BY <1>1, StretchIsSeg
  <2> QED
    BY <1>2, <2>1 DEF Indices
<1>4. Slot(ine) = E % INPUT_BUF
  <2>1. CUint % INPUT_BUF = 0
    BY ConsoleAssumption
  <2>2. ((E % CUint) % INPUT_BUF) = (E % INPUT_BUF)
    BY <2>1, CSizes, NatInt, ModMultiple
  <2> QED
    BY <2>2 DEF Slot, Indices
<1>5. ring \in Rings /\ ring' = [ring EXCEPT ![E % INPUT_BUF] = c]
  BY <1>4 DEF Indices
<1>6. /\ ring' \in Rings /\ ring'[E % INPUT_BUF] = c
      /\ \A i \in R .. E - 1 : ring'[i % INPUT_BUF] = ring[i % INPUT_BUF]
  <2>1. /\ (E % INPUT_BUF) \in 0 .. INPUT_BUF - 1
        /\ \A i \in R .. E - 1 : /\ (i % INPUT_BUF) # (E % INPUT_BUF)
                                 /\ (i % INPUT_BUF) \in 0 .. INPUT_BUF - 1
    BY <1>1, SlotsApart
  <2> QED
    BY <1>5, <2>1 DEF Rings
<1>7. Complete(c, ine') <=> (c \in {NL, EOF} \/ (E + 1) - R = INPUT_BUF)
  BY <1>3 DEF Complete
<1>8. ASSUME Complete(c, ine') PROVE Indices(R, E + 1, E + 1)'
  <2>1. inw' = (E + 1) % CUint /\ inr' = R % CUint
    BY <1>2, <1>8 DEF Indices
  <2>2. \A i \in (E + 1) .. (E + 1) - 1 : FALSE
    OBVIOUS
  <2> QED
    BY <1>1, <1>2, <1>6, <2>1, <2>2 DEF Indices
<1>9. ASSUME ~Complete(c, ine') PROVE Indices(R, W, E + 1)'
  <2>1. inw' = W % CUint /\ inr' = R % CUint
    BY <1>9 DEF Indices
  <2>2. c # NL
    BY <1>7, <1>9
  <2>3. ASSUME NEW i \in W .. (E + 1) - 1 PROVE ring'[i % INPUT_BUF] # NL
    <3>1. CASE i = E
      BY <1>6, <2>2, <3>1
    <3>2. CASE i # E
      <4>1. i \in W .. E - 1 /\ i \in R .. E - 1
        BY <1>1, <2>3, <3>2
      <4> QED
        BY <1>6, <4>1 DEF Indices
    <3> QED
      BY <3>1, <3>2
  <2> QED
    BY <1>1, <1>2, <1>6, <2>1, <2>3 DEF Indices
<1> QED
  BY <1>1, <1>6, <1>7, <1>8, <1>9

(* Characters are taken back from the end of the line.                      *)
LEMMA EraseEffect ==
  ASSUME NEW R \in Nat, NEW W \in Nat, NEW E \in Nat, Indices(R, W, E),
         NEW k \in Nat, k <= E - W, ine' = (ine - k) % CUint,
         UNCHANGED <<ring, inr, inw>>
  PROVE  E - k \in Nat /\ Indices(R, W, E - k)'
<1>1. R <= W /\ W <= E /\ E - R <= INPUT_BUF
  BY DEF Indices
<1>2. E - k \in Nat /\ W <= E - k /\ (E - k) - R <= INPUT_BUF
  BY <1>1, CSizes
<1>3. ine' = (E - k) % CUint
  <2> DEFINE m == 0 - k
             r == E % CUint
  <2>1. r \in Int
    BY CSizes, NatInt, ModRange
  <2> HIDE DEF r
  <2>2. m \in Int /\ r + m = r - k /\ E + m = E - k
    BY <2>1
  <2> HIDE DEF m
  <2>3. (r + m) % CUint = (E + m) % CUint
    BY <2>2, CSizes, NatInt, ModAdd DEF r
  <2>4. ine' = (r - k) % CUint
    BY DEF Indices, r
  <2> QED
    BY <2>2, <2>3, <2>4
<1>4. \A i \in W .. (E - k) - 1 : i \in W .. E - 1
  BY <1>2
<1> QED
  BY <1>1, <1>2, <1>3, <1>4 DEF Indices

(* A reader takes characters from the front.                                *)
LEMMA TakeEffect ==
  ASSUME NEW R \in Nat, NEW W \in Nat, NEW E \in Nat, Indices(R, W, E),
         NEW k \in Nat, k <= W - R, inr' = (inr + k) % CUint,
         UNCHANGED <<ring, inw, ine>>
  PROVE  R + k \in Nat /\ Indices(R + k, W, E)'
<1>1. R <= W /\ W <= E /\ E - R <= INPUT_BUF
  BY DEF Indices
<1>2. R + k \in Nat /\ R + k <= W /\ E - (R + k) <= INPUT_BUF
  BY <1>1, CSizes
<1>3. inr' = (R + k) % CUint
  BY CSizes, NatInt, ModAdd DEF Indices
<1> QED
  BY <1>1, <1>2, <1>3 DEF Indices

(* ^U takes the whole line back, because there is no newline in it.         *)
LEMMA KilledAll ==
  ASSUME NEW R \in Nat, NEW W \in Nat, NEW E \in Nat, Indices(R, W, E),
         NEW k \in 0 .. Dist(ine, inw), Killed(k)
  PROVE  k = E - W
<1>1. Dist(ine, inw) = E - W /\ W <= E
  BY IndicesMean DEF Indices
<1> SUFFICES ASSUME k # E - W PROVE FALSE
  OBVIOUS
<1>2. E - (k + 1) \in W .. E - 1 /\ k + 1 \in Nat
  BY <1>1
<1>3. ring[Slot((ine - (k + 1)) % CUint)] = NL
  BY <1>1 DEF Killed
<1>4. Slot((ine - (k + 1)) % CUint) = (E - (k + 1)) % INPUT_BUF
  <2> DEFINE m == 0 - (k + 1)
             r == E % CUint
  <2>1. r \in Int
    BY CSizes, NatInt, ModRange
  <2> HIDE DEF r
  <2>2. m \in Int /\ r + m = r - (k + 1) /\ E + m = E - (k + 1)
    BY <2>1
  <2> HIDE DEF m
  <2>3. Slot((r + m) % CUint) = (E + m) % INPUT_BUF
    BY <2>2, CSlotOf DEF r
  <2>4. ine = r
    BY DEF Indices, r
  <2> QED
    BY <2>2, <2>3, <2>4
<1> QED
  BY <1>2, <1>3, <1>4 DEF Indices

(* What a read takes, and when it then sleeps.                              *)
LEMMA ReadTakes ==
  ASSUME ReadInv, NEW R \in Nat, NEW W \in Nat, NEW E \in Nat, Indices(R, W, E),
         NEW p \in CProcs, consoleread(p)
  PROVE  \E k \in Nat :
           /\ k <= W - R /\ k <= rd[p].n
           /\ inr' = (inr + k) % CUint /\ UNCHANGED <<ring, inw, ine>>
           /\ \A i \in 1 .. k - 1 : Ready[i] \notin {NL, EOF}
           /\ k > 0 /\ Ready[k] = EOF => ~((rd[p].n - k) + 1 < rd[p].target)
           /\ \/ rd' = [rd EXCEPT ![p] = NoRead]
              \/ k = W - R /\ rd' = [rd EXCEPT ![p].pc = "sleep", ![p].n = @ - k]
<1>1. rd[p].n \in Nat
  BY DEF ReadInv
<1>2. PICK k \in 0 .. rd[p].n :
        /\ Consumed(p, k) /\ inr' = (inr + k) % CUint
        /\ \/ rd' = [rd EXCEPT ![p] = NoRead]
           \/ ~Done(p, k) /\ rd' = [rd EXCEPT ![p].pc = "sleep", ![p].n = @ - k]
  BY DEF consoleread
<1>3. Len(Ready) = W - R /\ W - R \in Nat
  <2>1. R <= W /\ ring \in Rings
    BY DEF Indices
  <2>2. Len(Seg(ring, R, W)) = W - R
    BY <2>1, SegSeq
  <2> QED
    BY <2>1, <2>2, IndicesMean
<1>4. k \in Nat /\ k <= W - R /\ k <= rd[p].n
  BY <1>1, <1>2, <1>3 DEF Consumed
<1>5. ~Done(p, k) => k = W - R
  BY <1>3, <1>4 DEF Done
<1>6. /\ \A i \in 1 .. k - 1 : Ready[i] \notin {NL, EOF}
      /\ k > 0 /\ Ready[k] = EOF => ~((rd[p].n - k) + 1 < rd[p].target)
  BY <1>2 DEF Consumed
<1>7. UNCHANGED <<ring, inw, ine>>
  BY DEF consoleread
<1> QED
  BY <1>2, <1>4, <1>5, <1>6, <1>7

(* Every step keeps the indices apart by what is in the ring.               *)
LEMMA RingStep == RingInv /\ ReadInv /\ [CNext]_cvars => RingInv'
<1> SUFFICES ASSUME ReadInv, [CNext]_cvars, NEW R \in Nat, NEW W \in Nat,
                    NEW E \in Nat, Indices(R, W, E)
             PROVE  RingInv'
  BY DEF RingInv
<1>1. ASSUME NEW c \in Keys, consoleintr(c) PROVE RingInv'
  <2>1. W <= E /\ inr' = inr /\ Dist(ine, inw) = E - W
    BY <1>1, IndicesMean DEF Indices, consoleintr
  <2>2. ASSUME NEW k \in 0 .. Dist(ine, inw), ine' = (ine - k) % CUint,
               UNCHANGED <<ring, inw>>
        PROVE  RingInv'
    <3>1. k \in Nat /\ k <= E - W
      BY <2>1
    <3> QED
      BY <2>1, <2>2, <3>1, EraseEffect DEF RingInv
  <2>3. CASE c = ERASE /\ ine # inw /\ ine' = (ine - 1) % CUint /\ UNCHANGED <<ring, inw>>
    <3>1. 1 \in Nat /\ 1 <= E - W
      BY <2>1, <2>3, IndicesMean
    <3> QED
      BY <2>1, <2>3, <3>1, EraseEffect DEF RingInv
  <2>4. CASE /\ c \in CChars /\ Fits
             /\ ring' = [ring EXCEPT ![Slot(ine)] = c] /\ ine' = (ine + 1) % CUint
             /\ inw' = IF Complete(c, ine') THEN ine' ELSE inw
    <3>1. \/ Indices(R, E + 1, E + 1)'
          \/ Indices(R, W, E + 1)'
      BY <2>1, <2>4, TypeEffect
    <3>2. E + 1 \in Nat
      OBVIOUS
    <3> QED
      BY <3>1, <3>2 DEF RingInv
  <2> QED
    BY <1>1, <2>2, <2>3, <2>4 DEF consoleintr, CChars
<1>2. ASSUME NEW p \in CProcs, consoleread(p) PROVE RingInv'
  <2>1. PICK k \in Nat : /\ k <= W - R /\ inr' = (inr + k) % CUint
                         /\ UNCHANGED <<ring, inw, ine>>
    BY <1>2, ReadTakes
  <2>2. R + k \in Nat /\ Indices(R + k, W, E)'
    BY <2>1, TakeEffect
  <2> QED
    BY <2>2 DEF RingInv
<1>3. ASSUME UNCHANGED <<ring, inr, inw, ine>> PROVE RingInv'
  BY <1>3 DEF RingInv, Indices
<1> QED
  BY <1>1, <1>2, <1>3 DEF CNext, ReadCall, CSleep, CKill, cvars

(* Every step keeps the number of bytes that are still to be read.          *)
LEMMA ReadStep == RingInv /\ ReadInv /\ [CNext]_cvars => ReadInv'
<1> SUFFICES ASSUME ReadInv, [CNext]_cvars, NEW R \in Nat, NEW W \in Nat,
                    NEW E \in Nat, Indices(R, W, E)
             PROVE  ReadInv'
  BY DEF RingInv
<1>1. ASSUME NEW c \in Keys, consoleintr(c) PROVE ReadInv'
  <2>1. rd' \in {rd, ReadersWoken}
    BY <1>1 DEF consoleintr
  <2> QED
    BY <2>1 DEF ReadInv, ReadersWoken
<1>2. ASSUME NEW p \in CProcs, consoleread(p) PROVE ReadInv'
  <2>1. PICK k \in Nat :
           /\ k <= rd[p].n
           /\ \/ rd' = [rd EXCEPT ![p] = NoRead]
              \/ rd' = [rd EXCEPT ![p].pc = "sleep", ![p].n = @ - k]
    BY <1>2, ReadTakes
  <2>2. CASE rd' = [rd EXCEPT ![p] = NoRead]
    BY <2>2 DEF ReadInv, NoRead
  <2>3. CASE rd' = [rd EXCEPT ![p].pc = "sleep", ![p].n = @ - k]
    <3>1. rd[p].n \in Nat /\ rd[p].target \in Nat /\ rd[p].n <= rd[p].target
      BY DEF ReadInv
    <3>2. rd[p].n - k \in Nat /\ rd[p].n - k <= rd[p].target
      BY <2>1, <3>1
    <3> QED
      BY <2>3, <3>2 DEF ReadInv
  <2> QED
    BY <2>1, <2>2, <2>3
<1>3. ASSUME NEW p \in CProcs, ReadCall(p) PROVE ReadInv'
  <2>1. PICK n \in 1 .. MaxRead :
          rd' = [rd EXCEPT ![p] = [pc |-> "run", n |-> n, target |-> n]]
    BY <1>3 DEF ReadCall
  <2>2. n \in Nat
    BY ConsoleAssumption
  <2> QED
    BY <2>1, <2>2 DEF ReadInv
<1>4. ASSUME NEW p \in CProcs, CSleep(p) PROVE ReadInv'
  BY <1>4 DEF CSleep, ReadInv
<1>5. ASSUME NEW p \in CProcs, CKill(p) PROVE ReadInv'
  BY <1>5 DEF CKill, ReadInv
<1>6. CASE UNCHANGED cvars
  BY <1>6 DEF cvars, ReadInv
<1> QED
  BY <1>1, <1>2, <1>3, <1>4, <1>5, <1>6 DEF CNext

(* Every step keeps a reader from sleeping in front of complete input.      *)
LEMMA WaitStep == ConsoleInv /\ [CNext]_cvars => ReaderWaits'
<1> SUFFICES ASSUME ReadInv, ReaderWaits, [CNext]_cvars, NEW R \in Nat, NEW W \in Nat,
                    NEW E \in Nat, Indices(R, W, E)
             PROVE  ReaderWaits'
  BY DEF ConsoleInv, RingInv
<1> DEFINE Sleeping == {"sleep", "asleep"}
<1>1. ASSUME NEW c \in Keys, consoleintr(c) PROVE ReaderWaits'
  <2>1. \/ rd' = rd /\ inw' = inw /\ inr' = inr
        \/ rd' = ReadersWoken /\ inr' = inr
    BY <1>1 DEF consoleintr
  <2>2. CASE rd' = rd /\ inw' = inw /\ inr' = inr
    BY <2>2 DEF ReaderWaits
  <2>3. CASE rd' = ReadersWoken /\ inr' = inr
    <3>1. \A q \in CProcs : rd[q].pc # "sleep"
      BY <1>1 DEF consoleintr, LockFree
    <3>2. \A q \in CProcs : rd'[q].pc \notin Sleeping
      BY <2>3, <3>1 DEF ReadersWoken, ReadInv
    <3> QED
      BY <3>2 DEF ReaderWaits
  <2> QED
    BY <2>1, <2>2, <2>3
<1>2. ASSUME NEW p \in CProcs, consoleread(p) PROVE ReaderWaits'
  <2>1. PICK k \in Nat :
           /\ k <= W - R /\ inr' = (inr + k) % CUint /\ UNCHANGED <<ring, inw, ine>>
           /\ \/ rd' = [rd EXCEPT ![p] = NoRead]
              \/ k = W - R /\ rd' = [rd EXCEPT ![p].pc = "sleep", ![p].n = @ - k]
    BY <1>2, ReadTakes
  <2>2. inr' = (R + k) % CUint /\ inw' = W % CUint /\ R <= W
    BY <2>1, TakeEffect DEF Indices
  <2>3. ASSUME NEW q \in CProcs, rd'[q].pc \in Sleeping PROVE inr' = inw'
    <3>1. CASE q = p
      <4>1. k = W - R
        BY <2>1, <2>3, <3>1 DEF ReadInv, NoRead
      <4>2. R + k = W
        BY <4>1
      <4> QED
        BY <2>2, <4>2
    <3>2. CASE q # p
      <4>1. rd'[q] = rd[q]
        BY <2>1, <3>2 DEF ReadInv
      <4>2. R = W
        BY <2>3, <4>1, IndicesMean DEF ReaderWaits
      <4>3. R + k = W
        BY <2>1, <4>2
      <4> QED
        BY <2>2, <4>3
    <3> QED
      BY <3>1, <3>2
  <2> QED
    BY <2>3 DEF ReaderWaits
<1>3. ASSUME UNCHANGED <<inr, inw>>,
             \A q \in CProcs : rd'[q].pc \in Sleeping => rd[q].pc \in Sleeping
      PROVE  ReaderWaits'
  BY <1>3 DEF ReaderWaits
<1>4. ASSUME NEW p \in CProcs, ReadCall(p) PROVE ReaderWaits'
  <2>1. \A q \in CProcs : rd'[q].pc \in Sleeping => rd[q].pc \in Sleeping
    BY <1>4 DEF ReadCall, ReadInv
  <2> QED
    BY <1>3, <1>4, <2>1 DEF ReadCall
<1>5. ASSUME NEW p \in CProcs, CSleep(p) PROVE ReaderWaits'
  <2>1. \A q \in CProcs : rd'[q].pc \in Sleeping => rd[q].pc \in Sleeping
    BY <1>5 DEF CSleep, ReadInv
  <2> QED
    BY <1>3, <1>5, <2>1 DEF CSleep
<1>6. ASSUME NEW p \in CProcs, CKill(p) PROVE ReaderWaits'
  <2>1. \A q \in CProcs : rd'[q].pc \in Sleeping => rd[q].pc \in Sleeping
    BY <1>6 DEF CKill, ReadInv
  <2> QED
    BY <1>3, <1>6, <2>1 DEF CKill
<1>7. CASE UNCHANGED cvars
  BY <1>3, <1>7 DEF cvars
<1> QED
  BY <1>1, <1>2, <1>4, <1>5, <1>6, <1>7 DEF CNext

LEMMA CInitInv == CInit => ConsoleInv
<1> SUFFICES ASSUME CInit PROVE ConsoleInv
  OBVIOUS
<1>1. Indices(0, 0, 0)
  <2>1. 0 % CUint = 0
    BY CSizes, ModSmall
  <2>2. ring \in Rings
    BY DEF CInit, Rings, CChars
  <2> QED
    BY <2>1, <2>2, CSizes DEF CInit, Indices
<1>2. ReadInv /\ ReaderWaits
  BY DEF CInit, ReadInv, ReaderWaits, NoRead
<1> QED
  BY <1>1, <1>2 DEF ConsoleInv, RingInv

LEMMA CStepInv == ConsoleInv /\ [CNext]_cvars => ConsoleInv'
  BY RingStep, ReadStep, WaitStep DEF ConsoleInv

-----------------------------------------------------------------------------
(* The console implements Tty.                                              *)

LEMMA TtyInit == CInit => T!TInit
<1> SUFFICES ASSUME CInit PROVE T!TInit
  OBVIOUS
<1>1. 0 % CUint = 0
  BY CSizes, ModSmall
<1>2. Ready = <<>> /\ Stretch(inw, ine) = <<>>
  BY <1>1 DEF CInit, Ready, Stretch, Dist
<1> QED
  BY <1>2 DEF T!TInit

(* A step of the console is a step of Tty, or changes nothing that it sees. *)
LEMMA TtyStep ==
  ConsoleInv /\ [CNext]_cvars => [T!TNext]_<<Ready, Stretch(inw, ine)>>
<1> SUFFICES ASSUME ReadInv, [CNext]_cvars, NEW R \in Nat, NEW W \in Nat,
                    NEW E \in Nat, Indices(R, W, E)
             PROVE  [T!TNext]_<<Ready, Stretch(inw, ine)>>
  BY DEF ConsoleInv, RingInv
<1> DEFINE Step == [T!TNext]_<<Ready, Stretch(inw, ine)>>
<1>1. ring \in Rings /\ R <= W /\ W <= E /\ E - R <= INPUT_BUF /\ R <= E
  BY DEF Indices
<1>2. Ready = Seg(ring, R, W) /\ Stretch(inw, ine) = Seg(ring, W, E)
      /\ Dist(ine, inw) = E - W
  BY IndicesMean
<1>3. /\ Len(Seg(ring, R, W)) = W - R /\ Len(Seg(ring, W, E)) = E - W
      /\ Seg(ring, R, W) \in Seq(CChars) /\ Seg(ring, W, E) \in Seq(CChars)
  BY <1>1, SegSeq
<1>4. ASSUME UNCHANGED <<ring, inr, inw, ine>> PROVE Step
  BY <1>4 DEF Ready, Stretch
<1>5. \A a \in Nat : Seg(ring', a, a) = <<>>
  BY DEF Seg
<1>6. ASSUME NEW c \in CChars, Fits, inr' = inr,
             ring' = [ring EXCEPT ![Slot(ine)] = c], ine' = (ine + 1) % CUint,
             inw' = IF Complete(c, ine') THEN ine' ELSE inw
      PROVE  T!Type(c)
  <2>1. /\ E - R < INPUT_BUF
        /\ Complete(c, ine') <=> (c \in {NL, EOF} \/ (E + 1) - R = INPUT_BUF)
        /\ ring' \in Rings /\ ring'[E % INPUT_BUF] = c
        /\ \A i \in R .. E - 1 : ring'[i % INPUT_BUF] = ring[i % INPUT_BUF]
        /\ Complete(c, ine') => Indices(R, E + 1, E + 1)'
        /\ ~Complete(c, ine') => Indices(R, W, E + 1)'
    BY <1>6, TypeEffect
  <2>2. E + 1 \in Nat /\ R <= E + 1 /\ W <= E + 1
    BY <1>1
  <2>3. Seg(ring', R, W) = Seg(ring, R, W)
    <3>1. \A i \in R .. W - 1 : i \in R .. E - 1
      BY <1>1
    <3>2. Agree(ring, ring', R, W)
      BY <2>1, <3>1, Zenon DEF Agree
    <3> QED
      BY <1>1, <2>1, <3>2, SegSame
  <2>4. Seg(ring', W, E + 1) = Append(Seg(ring, W, E), c)
    <3>1. \A i \in W .. E - 1 : i \in R .. E - 1
      BY <1>1
    <3>2. Seg(ring', W, E) = Seg(ring, W, E)
      <4>1. Agree(ring, ring', W, E)
        BY <2>1, <3>1, Zenon DEF Agree
      <4> QED
        BY <1>1, <2>1, <4>1, SegSame
    <3>3. Seg(ring', W, E + 1) = Append(Seg(ring', W, E), ring'[E % INPUT_BUF])
      BY <1>1, <2>1, SegAppend
    <3> QED
      BY <2>1, <3>2, <3>3
  <2>5. Len(Ready) + Len(Stretch(inw, ine)) = E - R
    BY <1>1, <1>2, <1>3
  <2>6. (E - R) + 1 = (E + 1) - R
    OBVIOUS
  <2>7. CASE Complete(c, ine')
    <3>1. Ready' = Seg(ring', R, E + 1) /\ Stretch(inw, ine)' = <<>>
      BY <1>5, <2>1, <2>2, <2>7, IndicesMeanNext
    <3>2. Seg(ring', R, E + 1) = Seg(ring', R, W) \o Seg(ring', W, E + 1)
      <4>1. ring' \in Rings /\ E + 1 \in Nat /\ R <= W /\ W <= E + 1
        BY <1>1, <2>1, <2>2
      <4> QED
        BY <4>1, SegConcat, Zenon
    <3>3. Ready' = Ready \o Append(Stretch(inw, ine), c)
      BY <1>2, <2>3, <2>4, <3>1, <3>2
    <3>4. c \in {NL, EOF} \/ (E - R) + 1 = INPUT_BUF
      BY <2>1, <2>6, <2>7
    <3> QED
      BY <2>1, <2>5, <3>1, <3>3, <3>4 DEF T!Type
  <2>8. CASE ~Complete(c, ine')
    <3>1. Ready' = Seg(ring', R, W) /\ Stretch(inw, ine)' = Seg(ring', W, E + 1)
      BY <2>1, <2>2, <2>8, IndicesMeanNext
    <3>2. ~(c \in {NL, EOF} \/ (E - R) + 1 = INPUT_BUF)
      BY <2>1, <2>6, <2>8
    <3> QED
      BY <1>2, <2>1, <2>3, <2>4, <2>5, <3>1, <3>2 DEF T!Type
  <2> QED
    BY <2>7, <2>8
<1>7. ASSUME ine # inw, ine' = (ine - 1) % CUint, UNCHANGED <<ring, inr, inw>>
      PROVE  T!Erase
  <2>1. 1 \in Nat /\ 1 <= E - W
    BY <1>1, <1>7, IndicesMean
  <2>2. E - 1 \in Nat /\ Indices(R, W, E - 1)'
    BY <1>7, <2>1, EraseEffect
  <2>3. Ready' = Ready /\ Stretch(inw, ine)' = Seg(ring, W, E - 1)
    BY <1>2, <1>7, <2>2, IndicesMeanNext
  <2>4. E - 1 \in Nat /\ W <= W /\ W <= E - 1 /\ E - 1 <= E
        /\ (W - W) + 1 = 1 /\ (E - 1) - W = (E - W) - 1
    BY <2>1, <2>2
  <2>5. SubSeq(Seg(ring, W, E), (W - W) + 1, (E - 1) - W) = Seg(ring, W, E - 1)
    BY <1>1, <2>4, SegSub
  <2>6. Stretch(inw, ine) # <<>>
    BY <1>2, <1>3, <2>1
  <2> QED
    BY <1>2, <1>3, <2>3, <2>4, <2>5, <2>6 DEF T!Erase
<1>8. ASSUME NEW k \in 0 .. Dist(ine, inw), Killed(k), ine' = (ine - k) % CUint,
             UNCHANGED <<ring, inr, inw>>
      PROVE  Step
  <2>1. k = E - W /\ k \in Nat /\ k <= E - W /\ E - k = W
    BY <1>1, <1>8, KilledAll
  <2>2. Indices(R, W, W)'
    BY <1>8, <2>1, EraseEffect
  <2>3. Ready' = Ready /\ Stretch(inw, ine)' = <<>>
    BY <1>2, <1>5, <1>8, <2>2, IndicesMeanNext
  <2>4. CASE Stretch(inw, ine) = <<>>
    BY <2>3, <2>4
  <2>5. CASE Stretch(inw, ine) # <<>>
    BY <2>3, <2>5 DEF T!KillLine, T!TNext
  <2> QED
    BY <2>4, <2>5
<1>9. ASSUME NEW c \in Keys, consoleintr(c) PROVE Step
  <2>1. ASSUME NEW d \in CChars, T!Type(d) PROVE Step
    BY <2>1 DEF T!TNext, T!Chars, CChars
  <2>2. T!Erase => Step
    BY DEF T!TNext
  <2>3. inr' = inr
    BY <1>9 DEF consoleintr
  <2> QED
    BY <1>6, <1>7, <1>8, <1>9, <2>1, <2>2, <2>3 DEF consoleintr, CChars
<1>10. ASSUME NEW p \in CProcs, consoleread(p) PROVE Step
  <2>1. PICK k \in Nat :
           /\ k <= W - R /\ k <= rd[p].n
           /\ inr' = (inr + k) % CUint /\ UNCHANGED <<ring, inw, ine>>
           /\ \A i \in 1 .. k - 1 : Ready[i] \notin {NL, EOF}
           /\ k > 0 /\ Ready[k] = EOF => ~((rd[p].n - k) + 1 < rd[p].target)
    BY <1>10, ReadTakes
  <2>2. R + k \in Nat /\ Indices(R + k, W, E)'
    BY <2>1, TakeEffect
  <2>3. Ready' = Seg(ring, R + k, W) /\ Stretch(inw, ine)' = Stretch(inw, ine)
    BY <1>2, <2>1, <2>2, IndicesMeanNext
  <2>4. CASE k = 0
    BY <1>2, <2>3, <2>4
  <2>5. CASE k > 0
    <3>1. R <= R + k /\ R + k <= W /\ W <= W /\ ((R + k) - R) + 1 = k + 1
      BY <1>1, <2>1
    <3>2. SubSeq(Seg(ring, R, W), ((R + k) - R) + 1, W - R) = Seg(ring, R + k, W)
      BY <1>1, <2>2, <3>1, SegSub
    <3>3. Ready' = SubSeq(Ready, k + 1, Len(Ready))
      BY <1>2, <1>3, <2>3, <3>1, <3>2
    <3>4. Ready[k] = EOF => k = 1
      <4>1. rd[p].n \in Nat /\ rd[p].target \in Nat /\ rd[p].n <= rd[p].target
        BY DEF ReadInv
      <4> QED
        BY <2>1, <2>5, <4>1
    <3>5. k \in 1 .. Len(Ready)
      BY <1>2, <1>3, <2>1, <2>5
    <3>6. T!Read
      BY <2>1, <2>3, <3>3, <3>4, <3>5 DEF T!Read
    <3> QED
      BY <3>6 DEF T!TNext
  <2> QED
    BY <2>1, <2>4, <2>5
<1> QED
  BY <1>4, <1>9, <1>10 DEF CNext, ReadCall, CSleep, CKill, cvars

-----------------------------------------------------------------------------
(* The three devices together.                                              *)
DInv == BInv /\ PipeInv /\ ConsoleInv

(* A step of the system is a step of each device, or leaves it alone.       *)
LEMMA DeviceStep == [DNext]_dvars => [BNext]_bvars /\ [PNext]_pvars /\ [CNext]_cvars
  BY DEF DNext, dvars

LEMMA DInvHolds == DSpec => []DInv
<1>1. DInit => DInv
  BY BInitInv, PInitInv, CInitInv DEF DInit, DInv
<1>2. DInv /\ [DNext]_dvars => DInv'
  BY DeviceStep, BStepInv, PStepInv, CStepInv DEF DInv
<1> QED
  BY <1>1, <1>2, PTL DEF DSpec

(* No block ever has two buffers: the cache looks for the block and         *)
(* recycles a buffer under one lock.                                        *)
THEOREM OneBufferPerBlock == DSpec => []OneCopy
<1>1. DInv => OneCopy
  BY DEF DInv, BInv
<1> QED
  BY <1>1, DInvHolds, PTL

(* Whoever has a buffer sees what was last put in its block.                *)
THEOREM HoldersSeeLast == DSpec => []HolderSeesLast
<1>1. DInv => HolderSeesLast
  BY BInvSees DEF DInv
<1> QED
  BY <1>1, DInvHolds, PTL

(* The bytes of a pipe arrive in order, each once, whatever the size of the *)
(* ring and however often the counters wrap.                                *)
THEOREM BytesInOrder == DSpec => []InOrder
<1>1. DInv => InOrder
  BY StreamInOrder DEF DInv, PipeInv
<1> QED
  BY <1>1, DInvHolds, PTL

(* Nobody sleeps past the disk's answer, the release of a buffer, a         *)
(* transfer or the last close of a pipe, or complete console input.         *)
THEOREM NobodySleepsPast == DSpec => []SleepersWait
<1>1. DInv => SleepersWait
  BY BInvWaits DEF DInv, PipeInv, ConsoleInv, SleepersWait
<1> QED
  BY <1>1, DInvHolds, PTL

(* The console implements the line discipline of Tty.                       *)
THEOREM ConsoleImplementsTty == DSpec => LineDiscipline
<1>1. DInit => T!TInit
  BY TtyInit DEF DInit
<1>2. DInv /\ [DNext]_dvars => [T!TNext]_<<Ready, Stretch(inw, ine)>>
  BY DeviceStep, TtyStep DEF DInv
<1> QED
  BY <1>1, <1>2, DInvHolds, PTL DEF DSpec, LineDiscipline, T!TSpec
=============================================================================
