-------------------------------- MODULE Swap --------------------------------
(***************************************************************************)
(* Page frames and swapping of the page-replacement tree: the ring of      *)
(* pages that may be swapped out (kalloc.c), the copying and the freeing   *)
(* of user pages that keep it (vm.c), and the page-fault handler (trap.c). *)
(*                                                                         *)
(* The ring is modelled pointer by pointer, null pointers included: the    *)
(* kernel runs on the page table of the current process, whose program is  *)
(* mapped at address zero, so that following a null pointer reads or       *)
(* overwrites a word of that program.  A pointer that is such a word may   *)
(* lead anywhere: writing through it stops the kernel or goes unnoticed.   *)
(* A page directory is identified with the slot of its process.  The       *)
(* frames of page tables and kernel stacks are left out.                   *)
(***************************************************************************)
EXTENDS Integers, FiniteSets, FiniteSetsExt, Functions

CONSTANTS
  NPROC,    \* slots of the process table
  NFRAME,   \* page frames
  Image,    \* pages of a program when it starts
  MaxSize,  \* bound: pages it grows to
  MaxCalls  \* bound: forks, execs and faults

ASSUME SwapAssumption ==
  /\ NPROC \in Nat \ {0} /\ NFRAME \in Nat \ {0}
  /\ Image \in Nat \ {0, 1} /\ MaxSize \in Nat \ {0} /\ MaxCalls \in Nat
  /\ Image <= NFRAME /\ Image <= MaxSize

Slots == 1 .. NPROC
Frames == 1 .. NFRAME
Null == 0                     \* a null pointer: the current program's words
Wild == -1                    \* a pointer that was a word of a program
Guard == 1                    \* the page below the stack, not accessible

VARIABLES
  free,    \* the frames of kmem.freelist
  pt,      \* the pages of each process, by page number; << >> if unused
  node,    \* pages[]: next, prev, pgdir and vaddr of each frame
  head,    \* page_lru_head
  num,     \* num_lru_pages
  word,    \* the second word of each program, prev of a null page
  zombie,  \* the processes that have exited
  calls,   \* forks, execs and faults so far
  halted   \* why the kernel has stopped

lruVars == <<node, head, num, word>>
vars == <<free, pt, lruVars, zombie, calls, halted>>

FramesOf(t) == {t[v] : v \in DOMAIN t}
Lru == [node |-> node, head |-> head, num |-> num, word |-> word, trap |-> FALSE]
NoNode == [next |-> Null, prev |-> Null, pgdir |-> Null, vaddr |-> 0]
Used(p) == DOMAIN pt[p] # {}
Runs(p) == halted = "" /\ Used(p) /\ p \notin zombie

Init ==
  /\ free = Frames \ 1 .. Image
  /\ pt = [p \in Slots |-> IF p = 1 THEN [v \in 0 .. Image - 1 |-> v + 1] ELSE << >>]
  /\ node = [f \in Frames |-> NoNode]
  /\ head = Null /\ num = 0
  /\ word = [p \in Slots |-> Wild]
  /\ zombie = {} /\ calls = 0 /\ halted = ""

Stop(why) == /\ halted' = why
             /\ UNCHANGED <<free, pt, lruVars, zombie, calls>>

(* What the code has made of the ring l.  A write through a wild pointer    *)
(* either goes unnoticed or ends in a trap in the kernel.                   *)
SetLru(l) == /\ node' = l.node /\ head' = l.head /\ num' = l.num
             /\ word' = l.word
             /\ halted' \in IF l.trap THEN {"", "wild"} ELSE {""}

-----------------------------------------------------------------------------
(* The ring.                                                                *)

(* x->next = y and x->prev = y, while p is the current process.             *)
SetNext(l, x, y) == IF x \in Frames THEN [l EXCEPT !.node[x].next = y]
                    ELSE IF x = Wild THEN [l EXCEPT !.trap = TRUE] ELSE l
SetPrev(l, p, x, y) == IF x \in Frames THEN [l EXCEPT !.node[x].prev = y]
                       ELSE IF x = Wild THEN [l EXCEPT !.trap = TRUE]
                       ELSE [l EXCEPT !.word[p] = y]
PrevOf(l, p, x) == IF x \in Frames THEN l.node[x].prev ELSE l.word[p]

(* Mutant of append_lru: the page that starts a ring is not counted.        *)
append_lruFirst(l, p, q, v, f) ==
  LET last == PrevOf(l, p, l.head)
      new == [l EXCEPT !.node[f] = [next |-> l.head, prev |-> last,
                                    pgdir |-> q, vaddr |-> v]]
  IN IF l.num = 1
     THEN [new EXCEPT !.head = f, !.node[f].next = f, !.node[f].prev = f]
     ELSE [SetPrev(SetNext(new, last, f), p, l.head, f) EXCEPT !.num = @ + 1]

(* append_lru(): page v of process q, in frame f.  A count of one, and not  *)
(* an empty list, starts the ring.                                          *)
append_lru(l, p, q, v, f) ==
  LET last == PrevOf(l, p, l.head)
      new == [l EXCEPT !.node[f] = [next |-> l.head, prev |-> last,
                                    pgdir |-> q, vaddr |-> v],
                       !.num = @ + 1]
  IN IF l.num = 1
     THEN [new EXCEPT !.head = f, !.node[f].next = f, !.node[f].prev = f]
     ELSE SetPrev(SetNext(new, last, f), p, l.head, f)

(* pop_lru(): the head is only forgotten, with the rest of the ring.        *)
pop_lru(l, p, f) ==
  IF f = l.head THEN [l EXCEPT !.head = Null, !.num = @ - 1]
  ELSE LET n == l.node[f]
           cut == SetPrev(SetNext(l, n.prev, n.next), p, n.next, n.prev)
       IN [cut EXCEPT !.node[f] = NoNode, !.num = @ - 1]

(* The k-th page after the head.                                            *)
At(l, k) == LET at[i \in 0 .. NFRAME] ==
                  IF i = 0 THEN l.head
                  ELSE IF at[i - 1] \in Frames THEN l.node[at[i - 1]].next ELSE Null
            IN at[k]

(* Mutant of InRing: the list is not searched.                              *)
InRingNever(l, q, v) == FALSE

(* deallocuvm() meets page v of q on its way round the ring.                *)
InRing(l, q, v) == \E k \in 0 .. NFRAME - 1 :
                     /\ \A i \in 0 .. k : At(l, i) \in Frames
                     /\ \A i \in 1 .. k : At(l, i) # l.head
                     /\ l.node[At(l, k)].pgdir = q /\ l.node[At(l, k)].vaddr = v

(* What deallocuvm() does to the ring for page v of q, in frame f.  If the  *)
(* page is the head, the walk goes on over the forgotten ring, meets the    *)
(* page again and takes it out, so that it is counted twice.                *)
Drop(l, p, q, v, f) ==
  IF ~InRing(l, q, v) THEN l
  ELSE IF f = l.head THEN pop_lru(pop_lru(l, p, f), p, f)
  ELSE pop_lru(l, p, f)

(* deallocuvm() of the pages of q from lo up to hi, which the table t maps. *)
DropAll(l, p, q, t, lo, hi) ==
  LET step[v \in lo - 1 .. hi] ==
        IF v < lo THEN l ELSE Drop(step[v - 1], p, q, v, t[v])
  IN step[hi]

-----------------------------------------------------------------------------
(* kalloc(), reclaim() and the copying and freeing of pages.                *)

(* Mutant of Given: the last frame handed out stays on the free list.       *)
GivenKept(n) == {f \in free : Cardinality({g \in free : g < f}) < n - 1}

(* The first n frames of the free list, and the k-th of them.               *)
Given(n) == {f \in free : Cardinality({g \in free : g < f}) < n}
Nth(k) == CHOOSE f \in free : Cardinality({g \in free : g < f}) = k

(* copyuvm() enters the first m pages of q, in the frames given for them.   *)
CopyAll(l, p, q, m) ==
  LET step[k \in 0 .. m] ==
        IF k = 0 THEN l ELSE append_lru(step[k - 1], p, q, k - 1, Nth(k - 1))
  IN step[m]

(* reclaim(), when the free list is empty.  Without pages in the ring the   *)
(* caller gets no page.  With a victim, the clock's choice, swapwrite()     *)
(* waits for the disk, and sched() panics, because kmem.lock and lru_lock   *)
(* are held: the rest of reclaim() is never reached.  A null head is        *)
(* followed into the program.                                               *)
reclaim == /\ num # 0
           /\ Stop(IF head = Null THEN "wild" ELSE "sched")

(* allocuvm(): the pages are not entered in the ring.                       *)
Grow(p) ==
  /\ Runs(p)
  /\ \/ free = {} /\ reclaim
     \/ free = {} /\ num = 0 /\ UNCHANGED vars      \* sbrk() returns -1
     \/ /\ free # {} /\ Cardinality(DOMAIN pt[p]) < MaxSize
        /\ pt' = [pt EXCEPT ![p] = [v \in 0 .. Cardinality(DOMAIN @) |->
                    IF v \in DOMAIN @ THEN @[v] ELSE Nth(0)]]
        /\ free' = free \ Given(1)
        /\ UNCHANGED <<lruVars, zombie, calls, halted>>

(* deallocuvm() of the last page.                                           *)
Shrink(p) ==
  /\ Runs(p) /\ Cardinality(DOMAIN pt[p]) > Image
  /\ LET v == Cardinality(DOMAIN pt[p]) - 1
     IN /\ SetLru(DropAll(Lru, p, p, pt[p], v, v))
        /\ free' = free \cup {pt[p][v]}
        /\ pt' = [pt EXCEPT ![p] = Restrict(@, DOMAIN @ \ {v})]
  /\ UNCHANGED <<zombie, calls>>

(* fork(): copyuvm() copies page after page and enters each in the ring.    *)
(* When memory runs out half way, reclaim() stops the kernel, or freevm()   *)
(* takes the copies back.                                                   *)
Fork(p) ==
  /\ Runs(p) /\ calls < MaxCalls
  /\ \E q \in Slots :
       LET n == Cardinality(DOMAIN pt[p])
           m == Min({n, Cardinality(free)})
           copied == CopyAll(Lru, p, q, m)
           copy == [v \in 0 .. m - 1 |-> Nth(v)]
       IN /\ ~Used(q) /\ \A r \in Slots : r < q => Used(r)
          /\ \/ /\ m = n
                /\ SetLru([copied EXCEPT !.word[q] = word[p]])
                /\ free' = free \ Given(n)
                /\ pt' = [pt EXCEPT ![q] = copy]
                /\ calls' = calls + 1 /\ UNCHANGED zombie
             \/ /\ m < n /\ copied.num # 0
                /\ Stop(IF copied.head = Null THEN "wild" ELSE "sched")
             \/ /\ m < n /\ copied.num = 0
                /\ SetLru(DropAll(copied, p, q, copy, 0, m - 1))
                /\ calls' = calls + 1 /\ UNCHANGED <<free, pt, zombie>>

(* exec() builds a new program, and frees the old pages.                    *)
Exec(p) ==
  /\ Runs(p) /\ calls < MaxCalls
  /\ \/ /\ Cardinality(free) < Image /\ reclaim
     \/ /\ Cardinality(free) >= Image
        /\ LET new == [v \in 0 .. Image - 1 |-> Nth(v)]
           IN /\ SetLru(DropAll([Lru EXCEPT !.word[p] = Wild], p, p, pt[p],
                                0, Cardinality(DOMAIN pt[p]) - 1))
              /\ free' = (free \ Given(Image)) \cup FramesOf(pt[p])
              /\ pt' = [pt EXCEPT ![p] = new]
        /\ calls' = calls + 1 /\ UNCHANGED zombie

Exit(p) ==
  /\ Runs(p) /\ p # 1
  /\ zombie' = zombie \cup {p}
  /\ UNCHANGED <<free, pt, lruVars, calls, halted>>

(* wait() of p frees the pages of a child.                                  *)
Wait(p) ==
  /\ Runs(p)
  /\ \E q \in zombie :
       /\ SetLru([DropAll(Lru, p, q, pt[q], 0, Cardinality(DOMAIN pt[q]) - 1)
                    EXCEPT !.word[q] = Wild])
       /\ free' = free \cup FramesOf(pt[q])
       /\ pt' = [pt EXCEPT ![q] = << >>]
       /\ zombie' = zombie \ {q}
  /\ UNCHANGED calls

-----------------------------------------------------------------------------
(* page_fault_hadler().  No page is ever swapped out, so that it is called  *)
(* for accesses that are not allowed.  Where the page-table entry is zero,  *)
(* the process is killed: that is Exit.                                     *)

(* The frames that a fault has lost.                                        *)
Lost == Frames \ (free \cup UNION {FramesOf(pt[p]) : p \in Slots})

(* A page that is present, such as the one below the stack: its frame's     *)
(* number is taken for a place in the swap space, a new frame replaces it,  *)
(* and the old one is lost.                                                 *)
GuardFault(p) ==
  /\ Runs(p) /\ calls < MaxCalls
  /\ \/ free = {} /\ reclaim
     \/ free # {} /\ Stop("swapread")       \* the swap space is shorter
     \/ /\ free # {}
        /\ pt' = [pt EXCEPT ![p][Guard] = Nth(0)]
        /\ free' = free \ Given(1) /\ calls' = calls + 1
        /\ UNCHANGED <<lruVars, zombie, halted>>

(* An address without a page table: the null entry is the first word of     *)
(* the program, which is hardly ever a place in the swap space.  If it is,  *)
(* the word is overwritten, and the new frame is lost; so it is for an      *)
(* address of the kernel, whose page-table entry is overwritten.            *)
FarFault(p) ==
  /\ Runs(p) /\ calls < MaxCalls
  /\ \/ free = {} /\ reclaim
     \/ free # {} /\ Stop("swapread")
     \/ /\ free # {} /\ free' = free \ Given(1) /\ calls' = calls + 1
        /\ UNCHANGED <<pt, lruVars, zombie, halted>>

(* A panic is final.                                                        *)
Halted == halted # "" /\ UNCHANGED vars

Next ==
  \/ \E p \in Slots : \/ Grow(p) \/ Shrink(p) \/ Fork(p) \/ Exec(p) \/ Exit(p)
                      \/ Wait(p) \/ GuardFault(p) \/ FarFault(p)
  \/ Halted

Spec == Init /\ [][Next]_vars

-----------------------------------------------------------------------------
(* A frame is in at most one place: freeing a page that is still mapped, or *)
(* mapping one that is still on the free list, would share it.              *)
FramesDisjoint ==
  \A f \in Frames : Cardinality({x \in Slots \X (0 .. MaxSize - 1) :
                                   x[2] \in DOMAIN pt[x[1]] /\ pt[x[1]][x[2]] = f})
                      + (IF f \in free THEN 1 ELSE 0) <= 1

(* The pages that following next from the head meets.                       *)
Ring == {At(Lru, k) : k \in 0 .. NFRAME}

(* As long as no fault has replaced a page: while there is a head, the      *)
(* links lead round and back, and each page of the ring is where it says    *)
(* it is: reclaim()'s walk finds page-table entries that are in use, and    *)
(* deallocuvm() has left nothing behind that was freed.                     *)
RingSound ==
  head # Null /\ Lost = {} /\ halted = "" =>
    \A f \in Ring : /\ f \in Frames /\ node[f].next \in Frames
                    /\ node[node[f].next].prev = f
                    /\ node[f].vaddr \in DOMAIN pt[node[f].pgdir]
                    /\ pt[node[f].pgdir][node[f].vaddr] = f

(* Under the same condition num_lru_pages exceeds what is in the ring, so   *)
(* that append_lru() never starts a second ring beside one that is in use.  *)
CountCovers ==
  head # Null /\ Lost = {} /\ halted = "" => num > Cardinality(Ring)

(* The page allocator's comment on a full memory says that a page is then   *)
(* swapped out and given to the caller: reclaim() does not stop the kernel. *)
SwapsOut == halted # "sched"
=============================================================================
