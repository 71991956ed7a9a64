-------------------------------- MODULE Mmap --------------------------------
(***************************************************************************)
(* mmap() of the virtual-memory tree: the free frames and their counter    *)
(* (kalloc.c), the table of mappings and the page-fault handler (vm.c,     *)
(* trap.c), and what fork, exec and exit do to frames.  Addresses are page *)
(* numbers: programs have Base pages, and the mmap region follows.         *)
(* mmap() and the handler run in steps, between which another process may  *)
(* run, where the code holds no lock.  The frames of page tables and       *)
(* kernel stacks are left out.  The free list is a set: kalloc() may take  *)
(* any frame of it.                                                        *)
(***************************************************************************)
EXTENDS Integers, FiniteSets, Functions

CONSTANTS
  NPROC,     \* slots of the process table
  Frames,    \* page frames
  NMAP,      \* entries of mtable (64 in the code)
  Base,      \* pages of a program; the mmap region starts here
  Region,    \* bound: pages of the mmap region
  Requests,  \* the arguments mmap() is called with: a set of records
             \*   [addr, len, prot, pop, f]
  MaxMmap,   \* bound: calls of mmap()
  MaxPid,    \* bound: processes that are ever created
  Debt       \* bound: how far freemems may fall below zero

Slots == 1 .. NPROC
Entries == 1 .. NMAP
Heap == 0 .. Base - 1
Pages == 0 .. Base + 2 * Region - 1
None == 0
PROT_READ == 1
PROT_RW == 3
Files == {"ro", "rw"}                 \* files, named by how they are open

(* pop is "now" with MAP_POPULATE.  f is the file of the descriptor, "anon" *)
(* with MAP_ANONYMOUS (and fd -1), "none" if the descriptor is not open.    *)
Arguments == [addr : 0 .. Region, len : 0 .. Region, prot : {PROT_READ, PROT_RW},
              pop : {"now", "later"}, f : Files \cup {"anon", "none"}]

ASSUME MmapAssumption ==
  /\ NPROC \in Nat \ {0} /\ NMAP \in Nat \ {0}
  /\ IsFiniteSet(Frames) /\ None \notin Frames
  /\ Base \in Nat \ {0} /\ Region \in Nat \ {0} /\ MaxPid \in Nat \ {0}
  /\ Debt \in Nat /\ MaxMmap \in Nat
  /\ Requests \subseteq Arguments
  /\ \A r \in Requests : r.addr + r.len <= Region

VARIABLES
  free,      \* the frames of kmem.freelist
  freemems,  \* the counter beside it
  mem,       \* what is in each frame: junk, zeros, a file's bytes, or a
             \* process's own data
  mtable,    \* the mappings
  using,     \* those whose state is USING
  pid,       \* per slot: the process, 0 for a slot that is free
  zombie,    \* the slots of processes that have exited
  fds,       \* per process: its open files
  anc,       \* per process: the pids of it and of its ancestors
  pt, wr,    \* page tables: the frame of each page, and the pages with PTE_W
  call,      \* the mmap() call or the page fault each process is in
  held,      \* the frame it has allocated and not mapped yet
  nextpid,
  mmaps,     \* calls of mmap() so far
  halted     \* why the kernel has stopped: a panic, or a wild write

frameVars == <<free, freemems, mem>>
mapVars == <<mtable, using>>
pageVars == <<pt, wr>>
procVars == <<pid, zombie, fds, anc>>
callVars == <<call, held>>
vars == <<frameVars, mapVars, procVars, pageVars, callVars, nextpid, mmaps, halted>>

(* What is in a frame: one of these, or the pid of the process that wrote.  *)
Zeros == 0
FileBytes == -1
Junk == -2
file_flags(f) == IF f = "ro" THEN 1 ELSE 3
NoMap == [addr |-> 0, len |-> 0, prot |-> 0, f |-> "none", p |-> None]
NoPages == [v \in Pages |-> None]
Idle == [pc |-> "user"]
InUser(p) == /\ halted = "" /\ pid[p] # 0 /\ p \notin zombie
             /\ call[p].pc = "user"
FramesOf(p, vs) == {pt[p][v] : v \in vs} \ {None}
IsOpen(f) == \E q \in Slots : f \in fds[q]
Covers(e, v) == mtable[e].addr <= v /\ v < mtable[e].addr + mtable[e].len

(* The page table of a program whose pages are in the frames of g.          *)
Program(g) == [v \in Pages |-> IF v \in Heap THEN g[v] ELSE None]

(* init, with its program, and everything else free.                       *)
Init ==
  /\ \E g \in Injection(Heap, Frames) :
       /\ free = Frames \ Range(g)
       /\ mem = [f \in Frames |-> IF f \in Range(g) THEN FileBytes ELSE Junk]
       /\ pt = [p \in Slots |-> IF p = 1 THEN Program(g) ELSE NoPages]
  /\ freemems = Cardinality(free)
  /\ mtable = [e \in Entries |-> NoMap] /\ using = {}
  /\ pid = [p \in Slots |-> IF p = 1 THEN 1 ELSE 0] /\ zombie = {}
  /\ fds = [p \in Slots |-> {}]
  /\ anc = [p \in Slots |-> IF p = 1 THEN {1} ELSE {}]
  /\ wr = [p \in Slots |-> IF p = 1 THEN Heap ELSE {}]
  /\ call = [p \in Slots |-> Idle] /\ held = [p \in Slots |-> None]
  /\ nextpid = 2 /\ mmaps = 0
  /\ halted = ""

(* The kernel stops; nothing that was on its way matters any more.          *)
Stop(why) == /\ halted' = why
             /\ UNCHANGED <<frameVars, mapVars, procVars, pageVars, callVars,
                            nextpid, mmaps>>
Return(p) == call' = [call EXCEPT ![p] = Idle]

-----------------------------------------------------------------------------
(* kalloc.c.                                                                *)

(* Mutant of kalloc: the counter does not go down.                          *)
kallocUncounted(fs) == free' = free \ fs /\ freemems' = freemems

(* kalloc() of each frame of fs.                                            *)
kalloc(fs) == /\ free' = free \ fs
              /\ freemems' = freemems - Cardinality(fs)

(* kalloc() as often as there are frames and once more, after which the     *)
(* caller gives the frames back: the last call has counted down too.        *)
kallocFails == /\ freemems' = freemems - 1
               /\ UNCHANGED <<free, mem>>

(* Mutant of Zeroed: the page is not cleared.                               *)
ZeroedNot(f) == mem

(* memset(page, 0, PGSIZE).                                                 *)
Zeroed(f) == [mem EXCEPT ![f] = Zeros]

(* kfree() of each frame of fs, which it fills with junk.                   *)
kfree(fs) ==
  /\ free' = free \cup fs
  /\ freemems' = freemems + Cardinality(fs)
  /\ mem' = [f \in Frames |-> IF f \in fs THEN Junk ELSE mem[f]]

-----------------------------------------------------------------------------
(* mmap(): its checks, the entry, its contents, and the pages.              *)

(* mmap() takes addresses relative to MMAPBASE.                             *)
Placed(addr) == addr + Base

(* The checks of sys_mmap() and mmap().  Only the start of the new mapping  *)
(* is looked up among the caller's mappings.                                *)
MmapCheck(p) ==
  /\ InUser(p) /\ mmaps < MaxMmap
  /\ \E r \in Requests :
       /\ r.f \in {"anon", "none"} \cup fds[p]
       /\ ~ \E e \in using : Covers(e, Placed(r.addr)) /\ mtable[e].p = p
       /\ call' = [call EXCEPT ![p] = [pc |-> "mallock", a |-> r]]
  /\ mmaps' = mmaps + 1
  /\ UNCHANGED <<frameVars, mapVars, procVars, pageVars, held, nextpid, halted>>

(* mallock() returns the first entry that is not in use, and does not mark  *)
(* it: another process may be given the same one.                           *)
mallock(e) == e \notin using /\ \A d \in Entries : d < e => d \in using

Mallock(p) ==
  /\ halted = "" /\ call[p].pc = "mallock"
  /\ \/ /\ \E e \in Entries :
             /\ mallock(e)
             /\ call' = [call EXCEPT ![p] = [pc |-> "fill", a |-> call[p].a, e |-> e]]
        /\ UNCHANGED <<frameVars, mapVars, procVars, pageVars, held, nextpid, mmaps,
                       halted>>
     \/ Entries \subseteq using /\ Stop("wild")   \* a null pointer is filled in

(* compare_prot(): the entry asks no more than the file's mode allows.      *)
compare_prot(f, prot) == prot <= file_flags(f)

(* The entry is filled in, without a lock, and then the file is attached.   *)
(* An anonymous mapping that is not populated, and a descriptor that is not *)
(* open, give a null file, and compare_prot() reads what the program has at *)
(* that address: it may accept or refuse.                                   *)
MmapFill(p) ==
  /\ halted = "" /\ call[p].pc = "fill"
  /\ LET a == call[p].a
         e == call[p].e
     IN /\ mtable' = [mtable EXCEPT ![e] =
             [addr |-> Placed(a.addr), len |-> a.len, prot |-> a.prot,
              f |-> IF a.f \in Files THEN a.f ELSE "none", p |-> p]]
        /\ \/ /\ a.f \in Files => compare_prot(a.f, a.prot)
              /\ using' = using \cup {e}
              /\ call' = [call EXCEPT ![p] =
                   IF a.pop = "now"
                   THEN [pc |-> "populate", e |-> e, i |-> 0, f |-> a.f, prot |-> a.prot]
                   ELSE Idle]
           \/ /\ a.f \in Files => ~compare_prot(a.f, a.prot)
              /\ ~(a.f = "anon" /\ a.pop = "now")
              /\ using' = using \ {e}
              /\ Return(p)
  /\ UNCHANGED <<frameVars, procVars, pageVars, held, nextpid, mmaps, halted>>

(* mappages() of one page.                                                  *)
mappages(p, v, f, prot) ==
  /\ pt' = [pt EXCEPT ![p][v] = f]
  /\ wr' = [wr EXCEPT ![p] = IF prot > 1 THEN @ \cup {v} ELSE @ \ {v}]

(* Populating goes on with page i of the mapping.                           *)
AtPage(p, pc, i) == [pc |-> pc, e |-> call[p].e, i |-> i, f |-> call[p].f,
                     prot |-> call[p].prot]

(* map_populate() and map_populate_annonymous(), page by page: a page is    *)
(* allocated and cleared.  That there may be none is not handled.           *)
Populate(p) ==
  /\ halted = "" /\ call[p].pc = "populate"
  /\ \/ /\ call[p].i >= mtable[call[p].e].len
        /\ Return(p)
        /\ UNCHANGED <<frameVars, mapVars, procVars, pageVars, held, nextpid, mmaps,
                       halted>>
     \/ /\ call[p].i < mtable[call[p].e].len
        /\ \/ free = {} /\ Stop("wild")
           \/ /\ \E f \in free : /\ kalloc({f}) /\ mem' = Zeroed(f)
                                 /\ held' = [held EXCEPT ![p] = f]
              /\ call' = [call EXCEPT ![p] = AtPage(p, "filling", call[p].i)]
              /\ UNCHANGED <<mapVars, procVars, pageVars, nextpid, mmaps, halted>>

(* The file is read, and the page is mapped, with the entry as it is then.  *)
(* A null file, a closed file and a page that is mapped already are not     *)
(* handled.                                                                 *)
PopulateMap(p) ==
  /\ halted = "" /\ call[p].pc = "filling"
  /\ LET m == mtable[call[p].e]
         v == m.addr + call[p].i
         reads == call[p].f # "anon"
     IN \/ reads /\ m.f = "none" /\ Stop("wild")
        \/ reads /\ m.f # "none" /\ ~IsOpen(m.f) /\ Stop("fileread")
        \/ (reads => IsOpen(m.f)) /\ pt[p][v] # None /\ Stop("remap")
        \/ /\ (reads => IsOpen(m.f)) /\ pt[p][v] = None
           /\ mem' = IF reads THEN [mem EXCEPT ![held[p]] = FileBytes] ELSE mem
           /\ mappages(p, v, held[p], call[p].prot)
           /\ held' = [held EXCEPT ![p] = None]
           /\ call' = [call EXCEPT ![p] = AtPage(p, "populate", call[p].i + 1)]
           /\ UNCHANGED <<free, freemems, mapVars, procVars, nextpid, mmaps, halted>>

-----------------------------------------------------------------------------
(* munmap().                                                                *)

(* The entries that the search of munmap() matches: their bounds, the page  *)
(* after the last included, hold the address.                               *)
Found(p, v) == {e \in using : /\ mtable[e].addr <= v
                              /\ v <= mtable[e].addr + mtable[e].len
                              /\ mtable[e].p = p}
First(e, es) == e \in es /\ \A d \in es : e <= d

(* Mutant of Unmapped: the page-table entries of freed pages stay.          *)
UnmappedKept(p, e) == pt[p]

(* The page table without the pages of an entry.                            *)
Unmapped(p, e) == [v \in Pages |-> IF Covers(e, v) THEN None ELSE pt[p][v]]

munmap(p) ==
  /\ InUser(p)
  /\ \E v \in Base .. Base + Region, e \in Entries :
       /\ First(e, Found(p, v))                \* otherwise it returns -1
       /\ kfree(FramesOf(p, {u \in Pages : Covers(e, u)}))
       /\ pt' = [pt EXCEPT ![p] = Unmapped(p, e)]
       /\ wr' = [wr EXCEPT ![p] = {u \in @ : ~Covers(e, u)}]
       /\ mtable' = [mtable EXCEPT ![e] = NoMap]
       /\ using' = using \ {e}
  /\ UNCHANGED <<procVars, callVars, nextpid, mmaps, halted>>

-----------------------------------------------------------------------------
(* page_fault_handler().                                                    *)

(* The entries that the handler's search matches.                           *)
Handler(p, v) == {e \in using : Covers(e, v) /\ mtable[e].p = p}

(* A page of the region that is not present is touched.  io is 2 for a      *)
(* write and 1 for a read.  With no entry, or one that forbids the access,  *)
(* the trap is taken for a spurious interrupt and the access repeats, so    *)
(* that nothing changes.  An anonymous page is mapped under the lock; for a *)
(* file, the lock is released while it is read.                             *)
Fault(p) ==
  /\ InUser(p)
  /\ \E v \in Base .. Base + Region - 1, io \in {1, 2}, e \in Entries :
       /\ pt[p][v] = None /\ First(e, Handler(p, v)) /\ mtable[e].prot >= io
       /\ \/ free = {} /\ Stop("wild")
          \/ \E f \in free :
               /\ kalloc({f}) /\ mem' = Zeroed(f)
               /\ \/ /\ mtable[e].f = "none"
                     /\ mappages(p, v, f, mtable[e].prot)
                     /\ UNCHANGED callVars
                  \/ /\ mtable[e].f # "none"
                     /\ call' = [call EXCEPT ![p] = [pc |-> "fault", v |-> v, e |-> e,
                                                     prot |-> mtable[e].prot]]
                     /\ held' = [held EXCEPT ![p] = f]
                     /\ UNCHANGED pageVars
               /\ UNCHANGED <<mapVars, procVars, nextpid, mmaps, halted>>

(* The file of the entry, as it is now, is read, and the page mapped.       *)
FaultRead(p) ==
  /\ halted = "" /\ call[p].pc = "fault"
  /\ LET f == mtable[call[p].e].f
     IN \/ f = "none" /\ Stop("wild")
        \/ f # "none" /\ ~IsOpen(f) /\ Stop("fileread")
        \/ /\ IsOpen(f)
           /\ mem' = [mem EXCEPT ![held[p]] = FileBytes]
           /\ mappages(p, call[p].v, held[p], call[p].prot)
           /\ held' = [held EXCEPT ![p] = None]
           /\ Return(p)
           /\ UNCHANGED <<free, freemems, mapVars, procVars, nextpid, mmaps, halted>>

(* The program writes to one of its pages.                                  *)
Write(p) ==
  /\ InUser(p)
  /\ \E v \in wr[p] : /\ pt[p][v] # None
                      /\ mem' = [mem EXCEPT ![pt[p][v]] = pid[p]]
  /\ UNCHANGED <<free, freemems, mapVars, procVars, pageVars, callVars, nextpid, mmaps,
                 halted>>

-----------------------------------------------------------------------------
(* open, close, fork, exec, exit and wait.                                  *)

(* A file that nobody has open is opened; a file is closed.                 *)
OpenClose(p) ==
  /\ InUser(p)
  /\ \E f \in Files \cap {r.f : r \in Requests} :
       \/ ~IsOpen(f) /\ fds' = [fds EXCEPT ![p] = @ \cup {f}]
       \/ f \in fds[p] /\ fds' = [fds EXCEPT ![p] = @ \ {f}]
  /\ UNCHANGED <<frameVars, mapVars, pid, zombie, anc, pageVars, callVars, nextpid,
                 mmaps, halted>>

(* map_fork() holds mtable.lock when mallock() acquires it, and acquire()   *)
(* of a lock that is held panics: its copying is never reached.             *)
map_fork(p) == \E e \in using : mtable[e].p = p

(* copyuvm(): the pages of p's program are copied to the frames of g.       *)
copyuvm(p, g) ==
  [f \in Frames |-> IF f \in Range(g)
                    THEN mem[pt[p][CHOOSE v \in Heap : g[v] = f]] ELSE mem[f]]

(* fork(): the child's slot, a copy of the pages below sz, then map_fork(). *)
fork(p) ==
  /\ InUser(p) /\ nextpid <= MaxPid /\ freemems > -Debt
  /\ \E q \in Slots :
       /\ pid[q] = 0 /\ \A r \in Slots : r < q => pid[r] # 0
       /\ \/ /\ Cardinality(free) < Base /\ kallocFails
             /\ UNCHANGED <<procVars, pageVars, halted>>
          \/ \E g \in Injection(Heap, free) :
               /\ kalloc(Range(g)) /\ mem' = copyuvm(p, g)
               /\ pt' = [pt EXCEPT ![q] = Program(g)]
               /\ wr' = [wr EXCEPT ![q] = wr[p] \cap Heap]
               /\ pid' = [pid EXCEPT ![q] = nextpid]
               /\ anc' = [anc EXCEPT ![q] = anc[p] \cup {nextpid}]
               /\ fds' = [fds EXCEPT ![q] = fds[p]]
               /\ halted' = IF map_fork(p) THEN "acquire" ELSE ""
               /\ UNCHANGED zombie
  /\ nextpid' = nextpid + 1
  /\ UNCHANGED <<mapVars, callVars, mmaps>>

(* exec() builds a new program and frees the old page table with all its    *)
(* pages, or fails for want of a frame.  The entries of mtable stay.        *)
exec(p) ==
  /\ InUser(p)
  /\ \/ /\ Cardinality(free) < Base /\ freemems > -Debt /\ kallocFails
        /\ UNCHANGED pageVars
     \/ \E g \in Injection(Heap, free) :
          LET old == FramesOf(p, Pages)
          IN /\ free' = (free \ Range(g)) \cup old
             /\ freemems' = freemems - Cardinality(Range(g)) + Cardinality(old)
             /\ mem' = [f \in Frames |-> IF f \in Range(g) THEN FileBytes
                                         ELSE IF f \in old THEN Junk ELSE mem[f]]
             /\ pt' = [pt EXCEPT ![p] = Program(g)]
             /\ wr' = [wr EXCEPT ![p] = Heap]
  /\ UNCHANGED <<mapVars, procVars, callVars, nextpid, mmaps, halted>>

(* exit() closes the files; the entries of mtable stay.                     *)
exit(p) ==
  /\ InUser(p) /\ p # 1
  /\ fds' = [fds EXCEPT ![p] = {}]
  /\ zombie' = zombie \cup {p}
  /\ UNCHANGED <<frameVars, mapVars, pid, anc, pageVars, callVars, nextpid, mmaps,
                 halted>>

(* wait() frees the child's page table and all its pages.                   *)
wait(q) ==
  /\ halted = "" /\ q \in zombie
  /\ kfree(FramesOf(q, Pages))
  /\ pt' = [pt EXCEPT ![q] = NoPages] /\ wr' = [wr EXCEPT ![q] = {}]
  /\ pid' = [pid EXCEPT ![q] = 0] /\ zombie' = zombie \ {q}
  /\ anc' = [anc EXCEPT ![q] = {}]
  /\ UNCHANGED <<mapVars, fds, callVars, nextpid, mmaps, halted>>

(* A panic is final.                                                        *)
Halted == halted # "" /\ UNCHANGED vars

Next ==
  \/ \E p \in Slots : \/ MmapCheck(p) \/ Mallock(p) \/ MmapFill(p)
                      \/ Populate(p) \/ PopulateMap(p)
                      \/ munmap(p) \/ Fault(p) \/ FaultRead(p) \/ Write(p)
                      \/ OpenClose(p) \/ fork(p) \/ exec(p) \/ exit(p) \/ wait(p)
  \/ Halted

Spec == Init /\ [][Next]_vars

-----------------------------------------------------------------------------
(* A frame is in one place: on the free list, in one page table at one      *)
(* address, or held by an mmap() call or a page fault that has not mapped   *)
(* it yet.  kfree() of a frame that is still mapped, by munmap(),           *)
(* deallocuvm() or freevm(), and a frame that is dropped, both break it.    *)
FramesSound ==
  /\ \A f \in Frames \ free :
       \E p \in Slots : held[p] = f \/ \E v \in Pages : pt[p][v] = f
  /\ \A p \in Slots : held[p] # None =>
       /\ held[p] \notin free
       /\ \A q \in Slots : /\ held[q] = held[p] => q = p
                           /\ \A v \in Pages : pt[q][v] # held[p]
  /\ \A p \in Slots, v \in Pages : pt[p][v] # None =>
       /\ pt[p][v] \notin free
       /\ \A q \in Slots, u \in Pages : pt[q][u] = pt[p][v] => q = p /\ u = v

(* A page that a process can read holds zeros, bytes of a file, or data     *)
(* that the process or one it was forked from has written: kalloc()'s junk  *)
(* and other processes' data never show.                                    *)
CleanPages ==
  \A p \in Slots, v \in Pages :
    pt[p][v] # None => mem[pt[p][v]] \in {Zeros, FileBytes} \cup anc[p]

(* freemem() never promises a page that is not there.                       *)
CountNotAbove == freemems <= Cardinality(free)

(* mytest maps four regions and then forks a child that uses them: fork()   *)
(* of a process with mappings gives the child copies and does not stop the  *)
(* kernel.                                                                  *)
ForkWorks == halted # "acquire"
=============================================================================
