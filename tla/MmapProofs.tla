----------------------------- MODULE MmapProofs ------------------------------
(***************************************************************************)
(* Theorems about the frames of Mmap, for every number of slots, frames,   *)
(* entries and pages, and for every set of calls of mmap(): a frame is in  *)
(* one place, a page shows nothing of another process, and the counter of  *)
(* free pages is never above their number.                                 *)
(***************************************************************************)
EXTENDS Mmap, FiniteSetTheorems, TLAPS

(* What mtable, and the calls that are under way, can be.                   *)
Mappings == [addr : 0 .. Base + Region, len : 0 .. Region, prot : {0, PROT_READ, PROT_RW},
             f : Files \cup {"none"}, p : 0 .. NPROC]
Calls == [pc : {"user"}] \cup [pc : {"mallock"}, a : Requests]
         \cup [pc : {"fill"}, a : Requests, e : Entries]
         \cup [pc : {"populate", "filling"}, e : Entries, i : 0 .. Region,
               f : Files \cup {"anon", "none"}, prot : {PROT_READ, PROT_RW}]
         \cup [pc : {"fault"}, v : Base .. Base + Region - 1, e : Entries,
               prot : {0, PROT_READ, PROT_RW}]

MTypeOK ==
  /\ free \in SUBSET Frames /\ freemems \in Int /\ mem \in [Frames -> Int]
  /\ mtable \in [Entries -> Mappings] /\ using \in SUBSET Entries
  /\ pid \in [Slots -> Nat] /\ anc \in [Slots -> SUBSET Nat]
  /\ pt \in [Slots -> [Pages -> Frames \cup {None}]]
  /\ wr \in [Slots -> SUBSET Pages]
  /\ call \in [Slots -> Calls] /\ held \in [Slots -> Frames \cup {None}]
  /\ nextpid \in Nat \ {0}

(* A mapping that is not empty lies in the region, so that no unmapping     *)
(* takes a page of the program away.                                        *)
MapInv == \A e \in Entries : mtable[e].len # 0 =>
            mtable[e].addr >= Base /\ mtable[e].addr + mtable[e].len <= Base + Region

(* What holds of a process in the middle of a call: it is there, it has a   *)
(* frame just when it is about to map one, populating does not go past the  *)
(* region, and a fault's page is still absent.                              *)
CallInv ==
  \A p \in Slots :
    /\ call[p].pc # "user" => pid[p] # 0 /\ p \notin zombie
    /\ held[p] # None <=> call[p].pc \in {"filling", "fault"}
    /\ call[p].pc = "filling" => call[p].i < Region
    /\ call[p].pc = "fault" => pt[p][call[p].v] = None

(* A process has all pages of its program, and a free slot has no page.     *)
ProgramInv ==
  \A p \in Slots : /\ pid[p] # 0 => \A v \in Heap : pt[p][v] # None
                   /\ pid[p] = 0 => \A v \in Pages : pt[p][v] = None

(* A frame that is about to be mapped holds nothing of anybody, and a       *)
(* process is one of its own ancestors.                                     *)
CleanInv ==
  /\ CleanPages
  /\ \A p \in Slots : held[p] # None => mem[held[p]] \in {Zeros, FileBytes}
  /\ \A p \in Slots : pid[p] # 0 => pid[p] \in anc[p]

MInv == /\ MTypeOK /\ MapInv /\ CallInv /\ ProgramInv
        /\ FramesSound /\ CleanInv /\ CountNotAbove

-----------------------------------------------------------------------------
(* Facts about the constants and the operators.                             *)

(* The program's pages come first.                                          *)
LEMMA PageFacts == /\ Heap \subseteq Pages /\ Base .. Base + Region - 1 \subseteq Pages
                   /\ \A m \in Mappings, i \in 0 .. Region :
                        i < Region => m.addr + i \in Pages
  BY MmapAssumption DEF Heap, Pages, Mappings

(* A new program has its frames in its first pages.                         *)
LEMMA ProgramFrames ==
  ASSUME NEW g \in [Heap -> Frames]
  PROVE  /\ Program(g) \in [Pages -> Frames \cup {None}]
         /\ \A v \in Heap : v \in Pages /\ Program(g)[v] = g[v]
         /\ \A v \in Pages : v \notin Heap => Program(g)[v] = None
         /\ Range(g) \subseteq Frames
         /\ \A f : f \in Range(g) <=> \E v \in Heap : g[v] = f
  BY PageFacts DEF Program, Range

(* What the Injection of the library is.                                    *)
LEMMA InjectionIs ==
  ASSUME NEW T, NEW g \in Injection(Heap, T)
  PROVE  /\ g \in [Heap -> T]
         /\ \A u, v \in Heap : g[u] = g[v] => u = v
  BY DEF Injection, IsInjective

(* The calls and what each of them carries.                                 *)
LEMMA CallParts ==
  ASSUME NEW c \in Calls
  PROVE  /\ c.pc \in {"user", "mallock", "fill", "populate", "filling", "fault"}
         /\ c.pc \in {"mallock", "fill"} => c.a \in Requests
         /\ c.pc \in {"fill", "populate", "filling", "fault"} => c.e \in Entries
         /\ c.pc \in {"populate", "filling"} =>
              /\ c.i \in 0 .. Region /\ c.f \in Files \cup {"anon", "none"}
              /\ c.prot \in {PROT_READ, PROT_RW}
         /\ c.pc = "fault" => /\ c.v \in Base .. Base + Region - 1
                              /\ c.prot \in {0, PROT_READ, PROT_RW}
  BY DEF Calls

(* A process in the middle of populating goes on with the same call.        *)
LEMMA CallMoves ==
  ASSUME NEW c \in Calls, c.pc \in {"populate", "filling"},
         NEW k \in {"populate", "filling"}, NEW i \in 0 .. Region
  PROVE  [pc |-> k, e |-> c.e, i |-> i, f |-> c.f, prot |-> c.prot] \in Calls
<1>1. /\ c.e \in Entries /\ c.f \in Files \cup {"anon", "none"}
      /\ c.prot \in {PROT_READ, PROT_RW}
  BY CallParts
<1> QED
  BY <1>1 DEF Calls

(* The calls as they are begun.                                             *)
LEMMA CallStarts ==
  /\ Idle \in Calls /\ Idle.pc = "user"
  /\ \A r \in Requests : [pc |-> "mallock", a |-> r] \in Calls
  /\ \A r \in Requests, e \in Entries : [pc |-> "fill", a |-> r, e |-> e] \in Calls
  /\ \A r \in Requests, e \in Entries :
       [pc |-> "populate", e |-> e, i |-> 0, f |-> r.f, prot |-> r.prot] \in Calls
  /\ \A v \in Base .. Base + Region - 1, e \in Entries, x \in {0, PROT_READ, PROT_RW} :
       [pc |-> "fault", v |-> v, e |-> e, prot |-> x] \in Calls
<1>1. \A r \in Requests : r.f \in Files \cup {"anon", "none"} /\ r.prot \in {PROT_READ, PROT_RW}
  BY MmapAssumption DEF Arguments
<1>2. 0 \in 0 .. Region
  BY MmapAssumption
<1> QED
  BY <1>1, <1>2 DEF Calls, Idle
-----------------------------------------------------------------------------
(* Every step keeps the types of the variables.                             *)
LEMMA MTypeStep == MTypeOK /\ CallInv /\ ProgramInv /\ [Next]_vars => MTypeOK'
<1> SUFFICES ASSUME MTypeOK, CallInv, ProgramInv, [Next]_vars PROVE MTypeOK'
  OBVIOUS
<1> USE DEF frameVars, mapVars, pageVars, procVars, callVars
<1>0. ASSUME NEW why, Stop(why) PROVE MTypeOK'
  BY <1>0 DEF Stop, MTypeOK
<1>a. ASSUME NEW p \in Slots PROVE Return(p) => call' \in [Slots -> Calls]
  BY CallStarts DEF Return, MTypeOK
<1>b. ASSUME NEW p \in Slots, NEW v \in Pages, NEW f \in Frames, NEW prot, mappages(p, v, f, prot)
      PROVE  /\ pt' \in [Slots -> [Pages -> Frames \cup {None}]]
             /\ wr' \in [Slots -> SUBSET Pages]
  BY <1>b DEF mappages, MTypeOK
<1>c. ASSUME NEW f \in Frames PROVE Zeroed(f) \in [Frames -> Int]
  BY DEF Zeroed, Zeros, MTypeOK
<1>d. ASSUME NEW fs \in SUBSET Frames, kfree(fs)
      PROVE  free' \in SUBSET Frames /\ freemems' \in Int /\ mem' \in [Frames -> Int]
  <2>1. IsFiniteSet(fs)
    BY FS_Subset, MmapAssumption
  <2>2. Cardinality(fs) \in Nat
    BY <2>1, FS_CardinalityType
  <2> QED
    BY <1>d, <2>2 DEF kfree, Junk, MTypeOK
<1>e. ASSUME NEW fs \in SUBSET Frames, kalloc(fs) PROVE free' \in SUBSET Frames /\ freemems' \in Int
  <2>1. IsFiniteSet(fs)
    BY FS_Subset, MmapAssumption
  <2>2. Cardinality(fs) \in Nat
    BY <2>1, FS_CardinalityType
  <2> QED
    BY <1>e, <2>2 DEF kalloc, MTypeOK
<1>f. ASSUME NEW p \in Slots, NEW vs \in SUBSET Pages PROVE FramesOf(p, vs) \in SUBSET Frames
  BY DEF FramesOf, MTypeOK
<1>1. ASSUME NEW p \in Slots, MmapCheck(p) PROVE MTypeOK'
  BY <1>1, CallStarts DEF MmapCheck, MTypeOK
<1>2. ASSUME NEW p \in Slots, Mallock(p) PROVE MTypeOK'
  <2>1. call[p].a \in Requests
    BY <1>2, CallParts DEF Mallock, MTypeOK
  <2>2. ASSUME NEW e \in Entries,
               call' = [call EXCEPT ![p] = [pc |-> "fill", a |-> call[p].a, e |-> e]]
        PROVE  call' \in [Slots -> Calls]
    <3>1. [pc |-> "fill", a |-> call[p].a, e |-> e] \in Calls
      BY <2>1, CallStarts
    <3> QED
      BY <2>2, <3>1 DEF MTypeOK
  <2> QED
    BY <1>0, <1>2, <2>2 DEF Mallock, MTypeOK
<1>3. ASSUME NEW p \in Slots, MmapFill(p) PROVE MTypeOK'
  <2> DEFINE a == call[p].a  e == call[p].e
  <2>1. a \in Requests /\ e \in Entries
    BY <1>3, CallParts DEF MmapFill, MTypeOK
  <2>2. [addr |-> Placed(a.addr), len |-> a.len, prot |-> a.prot,
         f |-> IF a.f \in Files THEN a.f ELSE "none", p |-> p] \in Mappings
    BY <2>1, MmapAssumption DEF Arguments, Mappings, Placed, Slots
  <2>3. mtable' \in [Entries -> Mappings]
    BY <1>3, <2>1, <2>2 DEF MmapFill, MTypeOK
  <2>4. call' \in [Slots -> Calls]
    <3>1. [pc |-> "populate", e |-> e, i |-> 0, f |-> a.f, prot |-> a.prot] \in Calls
      BY <2>1, CallStarts
    <3>2. Idle \in Calls
      BY CallStarts
    <3> QED
      BY <1>3, <1>a, <3>1, <3>2 DEF MmapFill, MTypeOK
  <2>5. using' \in SUBSET Entries
    BY <1>3, <2>1 DEF MmapFill, MTypeOK
  <2> QED
    BY <1>3, <2>3, <2>4, <2>5 DEF MmapFill, MTypeOK
<1>4. ASSUME NEW p \in Slots, Populate(p) PROVE MTypeOK'
  <2>1. CASE Return(p) /\ UNCHANGED <<frameVars, mapVars, procVars, pageVars, held, nextpid>>
    BY <1>a, <2>1 DEF MTypeOK
  <2>2. ASSUME NEW f \in free, kalloc({f}), mem' = Zeroed(f), held' = [held EXCEPT ![p] = f],
               call' = [call EXCEPT ![p] = AtPage(p, "filling", call[p].i)],
               UNCHANGED <<mapVars, procVars, pageVars, nextpid>>
        PROVE  MTypeOK'
    <3>1. {f} \in SUBSET Frames /\ f \in Frames
      BY DEF MTypeOK
    <3>2. AtPage(p, "filling", call[p].i) \in Calls
      BY <1>4, CallParts, CallMoves DEF Populate, AtPage, MTypeOK
    <3> QED
      BY <1>c, <1>e, <2>2, <3>1, <3>2 DEF MTypeOK
  <2> QED
    BY <1>0, <1>4, <2>1, <2>2 DEF Populate
<1>5. ASSUME NEW p \in Slots, PopulateMap(p) PROVE MTypeOK'
  <2> DEFINE v == mtable[call[p].e].addr + call[p].i
  <2>1. /\ v \in Pages /\ held[p] \in Frames
        /\ AtPage(p, "populate", call[p].i + 1) \in Calls
    <3>1. call[p] \in Calls /\ call[p].pc = "filling" /\ held[p] \in Frames \cup {None}
      BY <1>5 DEF PopulateMap, MTypeOK
    <3>2. call[p].i \in 0 .. Region /\ call[p].i < Region /\ call[p].e \in Entries /\ held[p] # None
      BY <3>1, CallParts DEF CallInv
    <3>3. mtable[call[p].e] \in Mappings
      BY <3>2 DEF MTypeOK
    <3>4. call[p].i + 1 \in 0 .. Region
      BY <3>2, MmapAssumption
    <3>5. AtPage(p, "populate", call[p].i + 1) \in Calls
      BY <3>1, <3>4, CallMoves DEF AtPage
    <3> QED
      BY <3>1, <3>2, <3>3, <3>5, PageFacts
  <2>2. ASSUME NEW reads \in BOOLEAN,
               mem' = IF reads THEN [mem EXCEPT ![held[p]] = FileBytes] ELSE mem,
               mappages(p, v, held[p], call[p].prot), held' = [held EXCEPT ![p] = None],
               call' = [call EXCEPT ![p] = AtPage(p, "populate", call[p].i + 1)],
               UNCHANGED <<free, freemems, mapVars, procVars, nextpid>>
        PROVE  MTypeOK'
    <3> HIDE DEF v
    <3>1. pt' \in [Slots -> [Pages -> Frames \cup {None}]] /\ wr' \in [Slots -> SUBSET Pages]
      BY <1>b, <2>1, <2>2
    <3>2. mem' \in [Frames -> Int]
      BY <2>1, <2>2 DEF MTypeOK, FileBytes
    <3> QED
      BY <2>1, <2>2, <3>1, <3>2 DEF MTypeOK
  <2> QED
    BY <1>0, <1>5, <2>2 DEF PopulateMap
<1>6. ASSUME NEW p \in Slots, munmap(p) PROVE MTypeOK'
  <2>1. PICK e \in Entries :
          /\ kfree(FramesOf(p, {u \in Pages : Covers(e, u)}))
          /\ pt' = [pt EXCEPT ![p] = Unmapped(p, e)]
          /\ wr' = [wr EXCEPT ![p] = {u \in @ : ~Covers(e, u)}]
          /\ mtable' = [mtable EXCEPT ![e] = NoMap]
          /\ using' = using \ {e}
    BY <1>6 DEF munmap
  <2>2. FramesOf(p, {u \in Pages : Covers(e, u)}) \in SUBSET Frames
    BY <1>f
  <2>3. Unmapped(p, e) \in [Pages -> Frames \cup {None}]
    BY DEF Unmapped, MTypeOK
  <2>4. NoMap \in Mappings
    BY MmapAssumption DEF NoMap, Mappings, None
  <2> QED
    BY <1>6, <1>d, <2>1, <2>2, <2>3, <2>4 DEF munmap, MTypeOK
<1>7. ASSUME NEW p \in Slots, Fault(p) PROVE MTypeOK'
  <2>1. ASSUME NEW v \in Base .. Base + Region - 1, NEW e \in Entries, NEW f \in free,
               kalloc({f}), mem' = Zeroed(f),
               \/ mappages(p, v, f, mtable[e].prot) /\ UNCHANGED callVars
               \/ /\ call' = [call EXCEPT ![p] = [pc |-> "fault", v |-> v, e |-> e,
                                                  prot |-> mtable[e].prot]]
                  /\ held' = [held EXCEPT ![p] = f]
                  /\ UNCHANGED pageVars,
               UNCHANGED <<mapVars, procVars, nextpid>>
        PROVE  MTypeOK'
    <3>1. {f} \in SUBSET Frames /\ f \in Frames /\ v \in Pages
      BY PageFacts DEF MTypeOK
    <3>2. mtable[e].prot \in {0, PROT_READ, PROT_RW}
      BY DEF MTypeOK, Mappings
    <3>3. pt' \in [Slots -> [Pages -> Frames \cup {None}]] /\ wr' \in [Slots -> SUBSET Pages]
      BY <1>b, <2>1, <3>1 DEF MTypeOK
    <3>4. call' \in [Slots -> Calls] /\ held' \in [Slots -> Frames \cup {None}]
      <4>1. [pc |-> "fault", v |-> v, e |-> e, prot |-> mtable[e].prot] \in Calls
        BY <3>2, CallStarts
      <4> QED
        BY <2>1, <3>1, <4>1 DEF MTypeOK
    <3> QED
      BY <1>c, <1>e, <2>1, <3>1, <3>3, <3>4 DEF MTypeOK
  <2> QED
    BY <1>0, <1>7, <2>1 DEF Fault
<1>8. ASSUME NEW p \in Slots, FaultRead(p) PROVE MTypeOK'
  <2>1. held[p] \in Frames /\ call[p].v \in Pages
    <3>1. call[p] \in Calls /\ call[p].pc = "fault" /\ held[p] \in Frames \cup {None}
      BY <1>8 DEF FaultRead, MTypeOK
    <3>2. held[p] # None /\ call[p].v \in Base .. Base + Region - 1
      BY <3>1, CallParts DEF CallInv
    <3> QED
      BY <3>1, <3>2, PageFacts
  <2>2. CASE /\ mem' = [mem EXCEPT ![held[p]] = FileBytes]
             /\ mappages(p, call[p].v, held[p], call[p].prot)
             /\ held' = [held EXCEPT ![p] = None]
             /\ Return(p)
             /\ UNCHANGED <<free, freemems, mapVars, procVars, nextpid>>
    <3>1. pt' \in [Slots -> [Pages -> Frames \cup {None}]] /\ wr' \in [Slots -> SUBSET Pages]
      BY <1>b, <2>1, <2>2
    <3>2. mem' \in [Frames -> Int]
      BY <2>1, <2>2 DEF MTypeOK, FileBytes
    <3> QED
      BY <1>a, <2>1, <2>2, <3>1, <3>2 DEF MTypeOK
  <2> QED
    BY <1>0, <1>8, <2>2 DEF FaultRead
<1>9. ASSUME NEW p \in Slots, Write(p) PROVE MTypeOK'
  BY <1>9 DEF Write, MTypeOK
<1>10. ASSUME NEW p \in Slots, OpenClose(p) PROVE MTypeOK'
  BY <1>10 DEF OpenClose, MTypeOK
<1>11. ASSUME NEW p \in Slots, fork(p) PROVE MTypeOK'
  <2>0. /\ pid[p] # 0 /\ nextpid' = nextpid + 1
        /\ UNCHANGED <<mtable, using, call, held>>
    BY <1>11 DEF fork, InUser
  <2>1. nextpid' \in Nat \ {0}
    BY <2>0 DEF MTypeOK
  <2>2. CASE kallocFails /\ UNCHANGED <<procVars, pageVars>>
    BY <2>0, <2>1, <2>2 DEF kallocFails, MTypeOK
  <2>3. ASSUME NEW q \in Slots, NEW g \in Injection(Heap, free),
               kalloc(Range(g)), mem' = copyuvm(p, g),
               pt' = [pt EXCEPT ![q] = Program(g)],
               wr' = [wr EXCEPT ![q] = wr[p] \cap Heap],
               pid' = [pid EXCEPT ![q] = nextpid],
               anc' = [anc EXCEPT ![q] = anc[p] \cup {nextpid}]
        PROVE  MTypeOK'
    <3>0. g \in [Heap -> free]
      BY InjectionIs
    <3>1. g \in [Heap -> Frames] /\ Range(g) \in SUBSET Frames
      <4>1. g \in [Heap -> Frames]
        BY <3>0 DEF MTypeOK
      <4> QED
        BY <4>1, ProgramFrames
    <3>2. Program(g) \in [Pages -> Frames \cup {None}]
      BY <3>1, ProgramFrames
    <3>3. mem' \in [Frames -> Int]
      <4> SUFFICES ASSUME NEW f \in Frames PROVE copyuvm(p, g)[f] \in Int
        BY <2>3 DEF copyuvm
      <4>1. CASE f \notin Range(g)
        BY <4>1 DEF copyuvm, MTypeOK
      <4>2. CASE f \in Range(g)
        <5>1. \E v \in Heap : g[v] = f
          BY <3>1, <4>2, ProgramFrames
        <5>2. PICK u \in Heap : u = CHOOSE v \in Heap : g[v] = f
          BY <5>1
        <5>3. copyuvm(p, g)[f] = mem[pt[p][u]]
          BY <4>2, <5>2 DEF copyuvm
        <5>4. pt[p][u] \in Frames
          BY <2>0, PageFacts DEF ProgramInv, MTypeOK
        <5> QED
          BY <5>3, <5>4 DEF MTypeOK
      <4> QED
        BY <4>1, <4>2
    <3> QED
      BY <1>e, <2>0, <2>1, <2>3, <3>1, <3>2, <3>3 DEF MTypeOK
  <2> QED
    BY <1>11, <2>2, <2>3 DEF fork
<1>12. ASSUME NEW p \in Slots, exec(p) PROVE MTypeOK'
  <2>1. CASE kallocFails /\ UNCHANGED pageVars
    BY <1>12, <2>1 DEF exec, kallocFails, MTypeOK
  <2>2. ASSUME NEW g \in Injection(Heap, free),
               free' = (free \ Range(g)) \cup FramesOf(p, Pages),
               freemems' = freemems - Cardinality(Range(g)) + Cardinality(FramesOf(p, Pages)),
               mem' = [f \in Frames |-> IF f \in Range(g) THEN FileBytes
                                        ELSE IF f \in FramesOf(p, Pages) THEN Junk ELSE mem[f]],
               pt' = [pt EXCEPT ![p] = Program(g)],
               wr' = [wr EXCEPT ![p] = Heap]
        PROVE  MTypeOK'
    <3>0. g \in [Heap -> free]
      BY InjectionIs
    <3>1. g \in [Heap -> Frames] /\ Range(g) \in SUBSET Frames
      <4>1. g \in [Heap -> Frames]
        BY <3>0 DEF MTypeOK
      <4> QED
        BY <4>1, ProgramFrames
    <3>2. Program(g) \in [Pages -> Frames \cup {None}]
      BY <3>1, ProgramFrames
    <3>3. FramesOf(p, Pages) \in SUBSET Frames
      BY <1>f
    <3>4. IsFiniteSet(FramesOf(p, Pages)) /\ IsFiniteSet(Range(g))
      BY <3>1, <3>3, FS_Subset, MmapAssumption
    <3>5. Cardinality(FramesOf(p, Pages)) \in Nat /\ Cardinality(Range(g)) \in Nat
      BY <3>4, FS_CardinalityType
    <3>6. mem' \in [Frames -> Int]
      BY <2>2 DEF MTypeOK, FileBytes, Junk
    <3> QED
      BY <1>12, <2>2, <3>1, <3>2, <3>3, <3>5, <3>6, PageFacts DEF exec, MTypeOK
  <2> QED
    BY <1>12, <2>1, <2>2 DEF exec
<1>13. ASSUME NEW p \in Slots, exit(p) PROVE MTypeOK'
  BY <1>13 DEF exit, MTypeOK
<1>14. ASSUME NEW p \in Slots, wait(p) PROVE MTypeOK'
  <2>1. FramesOf(p, Pages) \in SUBSET Frames
    BY <1>f
  <2>2. NoPages \in [Pages -> Frames \cup {None}]
    BY DEF NoPages
  <2> QED
    BY <1>14, <1>d, <2>1, <2>2 DEF wait, MTypeOK
<1>15. CASE UNCHANGED vars
  BY <1>15 DEF vars, MTypeOK
<1> QED
  BY <1>1, <1>2, <1>3, <1>4, <1>5, <1>6, <1>7, <1>8, <1>9, <1>10, <1>11, <1>12, <1>13,
     <1>14, <1>15 DEF Next, Halted
-----------------------------------------------------------------------------
(* Mappings, calls and programs.                                            *)

(* mmap() fills an entry with a request, which lies in the region.          *)
LEMMA MapStep == MTypeOK /\ MapInv /\ [Next]_vars => MapInv'
<1> SUFFICES ASSUME MTypeOK, MapInv, [Next]_vars PROVE MapInv'
  OBVIOUS
<1> USE DEF frameVars, mapVars, pageVars, procVars, callVars
<1>1. ASSUME NEW p \in Slots, MmapFill(p) PROVE MapInv'
  <2> DEFINE a == call[p].a  e == call[p].e
  <2>1. a \in Requests /\ e \in Entries
    BY <1>1, CallParts DEF MmapFill, MTypeOK
  <2>2. a.addr + Base >= Base /\ (a.addr + Base) + a.len <= Base + Region
    BY <2>1, MmapAssumption DEF Arguments
  <2>3. \A d \in Entries : IF d = e THEN /\ mtable'[d].addr = a.addr + Base
                                         /\ mtable'[d].len = a.len
                                    ELSE mtable'[d] = mtable[d]
    BY <1>1, <2>1 DEF MmapFill, Placed, MTypeOK
  <2> QED
    BY <2>2, <2>3 DEF MapInv
<1>2. ASSUME NEW p \in Slots, munmap(p) PROVE MapInv'
  BY <1>2 DEF munmap, NoMap, MapInv, MTypeOK
<1>3. CASE UNCHANGED mtable
  BY <1>3 DEF MapInv
<1>4. ASSUME NEW p \in Slots,
             \/ MmapCheck(p) \/ Mallock(p) \/ Populate(p) \/ PopulateMap(p) \/ Write(p)
             \/ Fault(p) \/ FaultRead(p) \/ OpenClose(p) \/ exec(p) \/ exit(p) \/ wait(p)
      PROVE  UNCHANGED mtable
  BY <1>4 DEF MmapCheck, Mallock, Populate, PopulateMap, Fault, FaultRead, Write, OpenClose,
              exec, exit, wait, Stop
<1>5. ASSUME NEW p \in Slots, fork(p) PROVE UNCHANGED mtable
  BY <1>5 DEF fork
<1> QED
  BY <1>1, <1>2, <1>3, <1>4, <1>5 DEF Next, Halted, vars

(* A call in progress keeps its process, its frame and its absent page,     *)
(* whatever the others do: only the process itself maps pages in its table. *)
LEMMA CallStep == MTypeOK /\ CallInv /\ ProgramInv /\ MapInv /\ [Next]_vars => CallInv'
<1> SUFFICES ASSUME MTypeOK, CallInv, ProgramInv, MapInv, [Next]_vars PROVE CallInv'
  OBVIOUS
<1> USE DEF frameVars, mapVars, pageVars, procVars, callVars
<1>0. ASSUME UNCHANGED <<call, held, pid, zombie, pt>> PROVE CallInv'
  BY <1>0 DEF CallInv
<1>a. ASSUME NEW p \in Slots, NEW c, c.pc \notin {"filling", "fault"},
             call' = [call EXCEPT ![p] = c], pid[p] # 0, p \notin zombie, held' = [held EXCEPT ![p] = None],
             UNCHANGED <<pid, zombie>>, \A q \in Slots : q # p => UNCHANGED pt[q]
      PROVE  CallInv'
  BY <1>a DEF CallInv, MTypeOK
<1>b. ASSUME NEW p \in Slots PROVE call[p].pc \notin {"filling", "fault"} => held[p] = None
  BY DEF CallInv
<1>1. ASSUME NEW p \in Slots, MmapCheck(p) PROVE CallInv'
  <2>1. PICK r : call' = [call EXCEPT ![p] = [pc |-> "mallock", a |-> r]]
    BY <1>1 DEF MmapCheck
  <2>2. held' = [held EXCEPT ![p] = None] /\ pid[p] # 0 /\ p \notin zombie
        /\ UNCHANGED <<pid, zombie, pt>>
    BY <1>1, <1>b DEF MmapCheck, InUser, MTypeOK
  <2> QED
    BY <1>a, <2>1, <2>2
<1>2. ASSUME NEW p \in Slots, Mallock(p) PROVE CallInv'
  <2>1. CASE Stop("wild")
    BY <1>0, <2>1 DEF Stop
  <2>2. ASSUME NEW e, call' = [call EXCEPT ![p] = [pc |-> "fill", a |-> call[p].a, e |-> e]],
               UNCHANGED <<held, pid, zombie, pt>>
        PROVE  CallInv'
    <3>1. held' = [held EXCEPT ![p] = None] /\ pid[p] # 0 /\ p \notin zombie
      BY <1>2, <1>b, <2>2 DEF Mallock, CallInv, MTypeOK
    <3> QED
      BY <1>a, <2>2, <3>1
  <2> QED
    BY <1>2, <2>1, <2>2 DEF Mallock
<1>3. ASSUME NEW p \in Slots, MmapFill(p) PROVE CallInv'
  <2> DEFINE c == [pc |-> "populate", e |-> call[p].e, i |-> 0, f |-> call[p].a.f,
                   prot |-> call[p].a.prot]
  <2>1. call' = [call EXCEPT ![p] = c] \/ call' = [call EXCEPT ![p] = Idle]
    BY <1>3 DEF MmapFill, Return
  <2>3. c.pc = "populate" /\ Idle.pc = "user"
    BY DEF Idle
  <2>2. held' = [held EXCEPT ![p] = None] /\ pid[p] # 0 /\ p \notin zombie
        /\ UNCHANGED <<pid, zombie, pt>>
    BY <1>3, <1>b DEF MmapFill, CallInv, MTypeOK
  <2> QED
    BY <1>a, <2>1, <2>2, <2>3
<1>4. ASSUME NEW p \in Slots, Populate(p) PROVE CallInv'
  <2>0. call[p].pc = "populate" /\ call[p] \in Calls /\ pid[p] # 0 /\ p \notin zombie
    BY <1>4 DEF Populate, CallInv, MTypeOK
  <2>1. CASE Return(p) /\ UNCHANGED <<held, pid, zombie, pt>>
    <3>1. held' = [held EXCEPT ![p] = None]
      BY <1>b, <2>0, <2>1 DEF MTypeOK
    <3>2. Idle.pc = "user"
      BY DEF Idle
    <3> QED
      BY <1>a, <2>0, <2>1, <3>1, <3>2 DEF Return
  <2>2. ASSUME NEW f \in free, held' = [held EXCEPT ![p] = f],
               call[p].i < mtable[call[p].e].len,
               call' = [call EXCEPT ![p] = AtPage(p, "filling", call[p].i)],
               UNCHANGED <<pid, zombie, pt>>
        PROVE  CallInv'
    <3>1. call[p].e \in Entries /\ call[p].i \in 0 .. Region
      BY <2>0, CallParts
    <3>2. mtable[call[p].e].len \in 0 .. Region
      BY <3>1 DEF MTypeOK, Mappings
    <3>3. call[p].i < Region
      BY <2>2, <3>1, <3>2, MmapAssumption
    <3>4. f # None
      BY MmapAssumption DEF MTypeOK
    <3> QED
      BY <2>0, <2>2, <3>3, <3>4 DEF CallInv, AtPage, MTypeOK
  <2>3. CASE Stop("wild")
    BY <1>0, <2>3 DEF Stop
  <2> QED
    BY <1>4, <2>1, <2>2, <2>3 DEF Populate
<1>5. ASSUME NEW p \in Slots, PopulateMap(p) PROVE CallInv'
  <2>1. ASSUME NEW why, Stop(why) PROVE CallInv'
    BY <1>0, <2>1 DEF Stop
  <2>2. CASE /\ mappages(p, mtable[call[p].e].addr + call[p].i, held[p], call[p].prot)
             /\ held' = [held EXCEPT ![p] = None]
             /\ call' = [call EXCEPT ![p] = AtPage(p, "populate", call[p].i + 1)]
             /\ UNCHANGED <<pid, zombie>>
    <3>1. AtPage(p, "populate", call[p].i + 1).pc = "populate"
      BY DEF AtPage
    <3>2. \A q \in Slots : q # p => UNCHANGED pt[q]
      BY <2>2 DEF mappages, MTypeOK
    <3>3. pid[p] # 0 /\ p \notin zombie
      BY <1>5 DEF PopulateMap, CallInv
    <3> QED
      BY <1>a, <2>2, <3>1, <3>2, <3>3
  <2> QED
    BY <1>5, <2>1, <2>2 DEF PopulateMap
<1>6. ASSUME NEW p \in Slots, munmap(p) PROVE CallInv'
  <2>1. UNCHANGED <<call, held, pid, zombie>> /\ call[p].pc = "user"
    BY <1>6 DEF munmap, InUser
  <2>2. \A q \in Slots : q # p => UNCHANGED pt[q]
    BY <1>6 DEF munmap, MTypeOK
  <2> QED
    BY <2>1, <2>2 DEF CallInv
<1>7. ASSUME NEW p \in Slots, Fault(p) PROVE CallInv'
  <2>0. call[p].pc = "user" /\ pid[p] # 0 /\ p \notin zombie
    BY <1>7 DEF Fault, InUser
  <2>1. CASE Stop("wild")
    BY <1>0, <2>1 DEF Stop
  <2>2. ASSUME NEW v, NEW f, NEW prot, mappages(p, v, f, prot), UNCHANGED <<call, held, pid, zombie>>
        PROVE  CallInv'
    BY <2>0, <2>2 DEF mappages, CallInv, MTypeOK
  <2>3. ASSUME NEW v, NEW e, NEW f \in free, NEW prot, pt[p][v] = None,
               call' = [call EXCEPT ![p] = [pc |-> "fault", v |-> v, e |-> e, prot |-> prot]],
               held' = [held EXCEPT ![p] = f], UNCHANGED <<pt, pid, zombie>>
        PROVE  CallInv'
    <3>1. f # None
      BY MmapAssumption DEF MTypeOK
    <3> QED
      BY <2>0, <2>3, <3>1 DEF CallInv, MTypeOK
  <2> QED
    BY <1>7, <2>1, <2>2, <2>3 DEF Fault
<1>8. ASSUME NEW p \in Slots, FaultRead(p) PROVE CallInv'
  <2>1. ASSUME NEW why, Stop(why) PROVE CallInv'
    BY <1>0, <2>1 DEF Stop
  <2>2. CASE /\ mappages(p, call[p].v, held[p], call[p].prot)
             /\ held' = [held EXCEPT ![p] = None]
             /\ Return(p) /\ UNCHANGED <<pid, zombie>>
    <3>1. Idle.pc = "user"
      BY DEF Idle
    <3>2. \A q \in Slots : q # p => UNCHANGED pt[q]
      BY <2>2 DEF mappages, MTypeOK
    <3>3. pid[p] # 0 /\ p \notin zombie
      BY <1>8 DEF FaultRead, CallInv
    <3> QED
      BY <1>a, <2>2, <3>1, <3>2, <3>3 DEF Return
  <2> QED
    BY <1>8, <2>1, <2>2 DEF FaultRead
<1>9. ASSUME NEW p \in Slots, Write(p) \/ OpenClose(p) PROVE CallInv'
  BY <1>0, <1>9 DEF Write, OpenClose
<1>10. ASSUME NEW p \in Slots, fork(p) PROVE CallInv'
  <2>1. UNCHANGED <<call, held, zombie>>
    BY <1>10 DEF fork
  <2>2. CASE UNCHANGED <<pid, pt>>
    BY <1>0, <2>1, <2>2
  <2>3. ASSUME NEW q \in Slots, NEW t, pid[q] = 0, pid' = [pid EXCEPT ![q] = nextpid],
               pt' = [pt EXCEPT ![q] = t]
        PROVE  CallInv'
    <3>1. call[q].pc = "user"
      BY <2>3 DEF CallInv
    <3> QED
      BY <2>1, <2>3, <3>1 DEF CallInv, MTypeOK
  <2> QED
    BY <1>10, <2>2, <2>3 DEF fork
<1>11. ASSUME NEW p \in Slots, exec(p) PROVE CallInv'
  <2>1. UNCHANGED <<call, held, pid, zombie>> /\ call[p].pc = "user"
    BY <1>11 DEF exec, InUser
  <2>2. \A q \in Slots : q # p => UNCHANGED pt[q]
    BY <1>11 DEF exec, MTypeOK
  <2> QED
    BY <2>1, <2>2 DEF CallInv
<1>12. ASSUME NEW p \in Slots, wait(p) PROVE CallInv'
  <2>1. call[p].pc = "user"
    BY <1>12 DEF wait, CallInv
  <2> QED
    BY <1>12, <2>1 DEF wait, CallInv, MTypeOK
<1>13. ASSUME NEW p \in Slots, exit(p) PROVE CallInv'
  BY <1>13 DEF exit, InUser, CallInv
<1>14. CASE UNCHANGED vars
  BY <1>0, <1>14 DEF vars
<1> QED
  BY <1>1, <1>2, <1>3, <1>4, <1>5, <1>6, <1>7, <1>8, <1>9, <1>10, <1>11, <1>12, <1>13, <1>14
     DEF Next, Halted

(* munmap() and the calls leave a process the pages of its program.         *)
LEMMA ProgramStep == MTypeOK /\ MapInv /\ CallInv /\ ProgramInv /\ [Next]_vars => ProgramInv'
<1> SUFFICES ASSUME MTypeOK, MapInv, CallInv, ProgramInv, [Next]_vars PROVE ProgramInv'
  OBVIOUS
<1> USE DEF frameVars, mapVars, pageVars, procVars, callVars
<1>0. ASSUME UNCHANGED <<pid, pt>> PROVE ProgramInv'
  BY <1>0 DEF ProgramInv
<1>a. ASSUME NEW p \in Slots, NEW v, NEW f \in Frames, NEW prot, mappages(p, v, f, prot),
             pid[p] # 0, UNCHANGED pid
      PROVE  ProgramInv'
  BY <1>a, MmapAssumption, PageFacts DEF mappages, ProgramInv, MTypeOK
<1>b. ASSUME NEW p \in Slots, call[p].pc \in {"filling", "fault"}
      PROVE  held[p] \in Frames /\ pid[p] # 0
  BY <1>b DEF CallInv, MTypeOK
<1>c. ASSUME NEW q \in Slots, NEW g \in Injection(Heap, free)
      PROVE  pt' = [pt EXCEPT ![q] = Program(g)] =>
               \A v \in Heap : pt'[q][v] # None
  <2>1. \A v \in Heap : v \in Pages /\ Program(g)[v] \in Frames
    <3>1. g \in [Heap -> free]
      BY InjectionIs
    <3>2. g \in [Heap -> Frames]
      BY <3>1 DEF MTypeOK
    <3> QED
      BY <3>2, ProgramFrames
  <2> QED
    BY <2>1, MmapAssumption DEF MTypeOK
<1>1. ASSUME NEW p \in Slots, PopulateMap(p) PROVE ProgramInv'
  BY <1>0, <1>1, <1>a, <1>b DEF PopulateMap, Stop
<1>2. ASSUME NEW p \in Slots, FaultRead(p) PROVE ProgramInv'
  BY <1>0, <1>2, <1>a, <1>b DEF FaultRead, Stop
<1>3. ASSUME NEW p \in Slots, Fault(p) PROVE ProgramInv'
  <2>1. pid[p] # 0 /\ free \subseteq Frames
    BY <1>3 DEF Fault, InUser, MTypeOK
  <2> QED
    BY <1>0, <1>3, <1>a, <2>1 DEF Fault, Stop
<1>4. ASSUME NEW p \in Slots, munmap(p) PROVE ProgramInv'
  <2>1. PICK e \in Entries : pt' = [pt EXCEPT ![p] = Unmapped(p, e)]
    BY <1>4 DEF munmap
  <2>2. pid[p] # 0 /\ UNCHANGED pid
    BY <1>4 DEF munmap, InUser
  <2>3. \A v \in Heap : ~Covers(e, v)
    <3>1. mtable[e].addr \in 0 .. Base + Region /\ mtable[e].len \in 0 .. Region
      BY DEF MTypeOK, Mappings
    <3>2. mtable[e].len # 0 => mtable[e].addr >= Base
      BY DEF MapInv
    <3> QED
      BY <3>1, <3>2, MmapAssumption DEF Covers, Heap
  <2>4. \A v \in Heap : v \in Pages /\ Unmapped(p, e)[v] = pt[p][v]
    BY <2>3, PageFacts DEF Unmapped
  <2> QED
    BY <2>1, <2>2, <2>4 DEF ProgramInv, MTypeOK
<1>5. ASSUME NEW p \in Slots, fork(p) PROVE ProgramInv'
  <2>1. ASSUME NEW q \in Slots, NEW g \in Injection(Heap, free),
               pt' = [pt EXCEPT ![q] = Program(g)], pid' = [pid EXCEPT ![q] = nextpid]
        PROVE  ProgramInv'
    BY <1>c, <2>1 DEF ProgramInv, MTypeOK
  <2> QED
    BY <1>0, <1>5, <2>1 DEF fork
<1>6. ASSUME NEW p \in Slots, exec(p) PROVE ProgramInv'
  <2>1. pid[p] # 0 /\ UNCHANGED pid
    BY <1>6 DEF exec, InUser
  <2>2. ASSUME NEW g \in Injection(Heap, free), pt' = [pt EXCEPT ![p] = Program(g)]
        PROVE  ProgramInv'
    BY <1>c, <2>1, <2>2 DEF ProgramInv, MTypeOK
  <2> QED
    BY <1>0, <1>6, <2>1, <2>2 DEF exec
<1>7. ASSUME NEW p \in Slots, wait(p) PROVE ProgramInv'
  BY <1>7 DEF wait, NoPages, ProgramInv, MTypeOK
<1>8. ASSUME NEW p \in Slots, \/ MmapCheck(p) \/ Mallock(p) \/ MmapFill(p) \/ Populate(p)
                               \/ Write(p) \/ OpenClose(p) \/ exit(p)
      PROVE  UNCHANGED <<pid, pt>>
  BY <1>8 DEF MmapCheck, Mallock, MmapFill, Populate, Write, OpenClose, exit, Stop
<1>9. CASE UNCHANGED vars
  BY <1>0, <1>9 DEF vars
<1> QED
  BY <1>0, <1>1, <1>2, <1>3, <1>4, <1>5, <1>6, <1>7, <1>8, <1>9 DEF Next, Halted
-----------------------------------------------------------------------------
(* What moving frames about does to FramesSound.                            *)

(* A frame leaves the free list for a call.                                 *)
LEMMA TakeFrame ==
  ASSUME MTypeOK, FramesSound, NEW p \in Slots, NEW f \in free, held[p] = None,
         free' = free \ {f}, held' = [held EXCEPT ![p] = f], UNCHANGED pt
  PROVE  FramesSound'
<1>1. f \in Frames /\ f # None
  BY MmapAssumption DEF MTypeOK
<1>2. \A q \in Slots : held'[q] = IF q = p THEN f ELSE held[q]
  BY DEF MTypeOK
<1>3. \A q \in Slots : held[q] # f /\ \A v \in Pages : pt[q][v] # f
  BY <1>1 DEF FramesSound
<1>4. \A x \in Frames \ free' : \E q \in Slots : held'[q] = x \/ \E u \in Pages : pt'[q][u] = x
  <2> SUFFICES ASSUME NEW x \in Frames \ free'
               PROVE  \E q \in Slots : held'[q] = x \/ \E u \in Pages : pt[q][u] = x
    OBVIOUS
  <2>1. CASE x = f
    BY <1>2, <2>1
  <2>2. CASE x # f
    <3>1. PICK q \in Slots : held[q] = x \/ \E u \in Pages : pt[q][u] = x
      BY <2>2 DEF FramesSound
    <3>2. x # None
      BY MmapAssumption
    <3> QED
      BY <1>2, <3>1, <3>2
  <2> QED
    BY <2>1, <2>2
<1>5. \A q \in Slots : held'[q] # None =>
        /\ held'[q] \notin free'
        /\ \A r \in Slots : /\ held'[r] = held'[q] => r = q
                            /\ \A u \in Pages : pt'[r][u] # held'[q]
  BY <1>2, <1>3 DEF FramesSound
<1>6. \A q \in Slots, u \in Pages : pt'[q][u] # None =>
        /\ pt'[q][u] \notin free'
        /\ \A r \in Slots, w \in Pages : pt'[r][w] = pt'[q][u] => r = q /\ w = u
  BY DEF FramesSound
<1> QED
  BY <1>4, <1>5, <1>6 DEF FramesSound

(* A call maps its frame at a page that is absent.                          *)
LEMMA MapHeld ==
  ASSUME MTypeOK, FramesSound, NEW p \in Slots, NEW v \in Pages, held[p] # None,
         pt[p][v] = None, pt' = [pt EXCEPT ![p][v] = held[p]],
         held' = [held EXCEPT ![p] = None], UNCHANGED free
  PROVE  FramesSound'
<1>2. \A q \in Slots : held'[q] = IF q = p THEN None ELSE held[q]
  BY DEF MTypeOK
<1>3. \A q \in Slots, u \in Pages : pt'[q][u] = IF q = p /\ u = v THEN held[p] ELSE pt[q][u]
  BY DEF MTypeOK
<1>4. \A f \in Frames \ free' : \E q \in Slots : held'[q] = f \/ \E u \in Pages : pt'[q][u] = f
  <2> SUFFICES ASSUME NEW f \in Frames \ free
               PROVE  \E q \in Slots : held'[q] = f \/ \E u \in Pages : pt'[q][u] = f
    OBVIOUS
  <2>0. f # None
    BY MmapAssumption
  <2>1. PICK q \in Slots : held[q] = f \/ \E u \in Pages : pt[q][u] = f
    BY DEF FramesSound
  <2>2. CASE held[q] = f
    BY <1>2, <1>3, <2>2
  <2>3. ASSUME NEW u \in Pages, pt[q][u] = f PROVE pt'[q][u] = f
    BY <1>3, <2>0, <2>3
  <2> QED
    BY <2>1, <2>2, <2>3
<1>5. \A q \in Slots : held'[q] # None =>
        /\ held'[q] \notin free'
        /\ \A r \in Slots : /\ held'[r] = held'[q] => r = q
                            /\ \A u \in Pages : pt'[r][u] # held'[q]
  BY <1>2, <1>3 DEF FramesSound
<1>6. \A q \in Slots, u \in Pages : pt'[q][u] # None =>
        /\ pt'[q][u] \notin free'
        /\ \A r \in Slots, w \in Pages : pt'[r][w] = pt'[q][u] => r = q /\ w = u
  BY <1>3 DEF FramesSound
<1> QED
  BY <1>4, <1>5, <1>6 DEF FramesSound

(* A frame is mapped from the free list at a page that is absent.           *)
LEMMA MapFree ==
  ASSUME MTypeOK, FramesSound, NEW p \in Slots, NEW v \in Pages, NEW f \in free,
         pt[p][v] = None, pt' = [pt EXCEPT ![p][v] = f], free' = free \ {f}, UNCHANGED held
  PROVE  FramesSound'
<1>1. f \in Frames /\ f # None
  BY MmapAssumption DEF MTypeOK
<1>3. \A q \in Slots, u \in Pages : pt'[q][u] = IF q = p /\ u = v THEN f ELSE pt[q][u]
  BY DEF MTypeOK
<1>2. \A q \in Slots : held[q] # f /\ \A u \in Pages : pt[q][u] # f
  BY <1>1 DEF FramesSound
<1>4. \A x \in Frames \ free' : \E q \in Slots : held'[q] = x \/ \E u \in Pages : pt'[q][u] = x
  <2> SUFFICES ASSUME NEW x \in Frames \ free'
               PROVE  \E q \in Slots : held[q] = x \/ \E u \in Pages : pt'[q][u] = x
    OBVIOUS
  <2>0. x # None
    BY MmapAssumption
  <2>1. CASE x = f
    BY <1>3, <2>1
  <2>2. CASE x # f
    <3>1. PICK q \in Slots : held[q] = x \/ \E u \in Pages : pt[q][u] = x
      BY <2>2 DEF FramesSound
    <3>2. ASSUME NEW u \in Pages, pt[q][u] = x PROVE pt'[q][u] = x
      BY <1>3, <2>0, <3>2
    <3> QED
      BY <3>1, <3>2
  <2> QED
    BY <2>1, <2>2
<1>5. \A q \in Slots : held'[q] # None =>
        /\ held'[q] \notin free'
        /\ \A r \in Slots : /\ held'[r] = held'[q] => r = q
                            /\ \A u \in Pages : pt'[r][u] # held'[q]
  BY <1>2, <1>3 DEF FramesSound
<1>6. \A q \in Slots, u \in Pages : pt'[q][u] # None =>
        /\ pt'[q][u] \notin free'
        /\ \A r \in Slots, w \in Pages : pt'[r][w] = pt'[q][u] => r = q /\ w = u
  BY <1>2, <1>3 DEF FramesSound
<1> QED
  BY <1>4, <1>5, <1>6 DEF FramesSound

(* The frames of some pages of a process are freed and the pages taken off  *)
(* its page table.                                                          *)
LEMMA FreePages ==
  ASSUME MTypeOK, FramesSound, NEW p \in Slots, NEW vs \in SUBSET Pages,
         pt' = [pt EXCEPT ![p] = [v \in Pages |-> IF v \in vs THEN None ELSE pt[p][v]]],
         free' = free \cup FramesOf(p, vs), UNCHANGED held
  PROVE  FramesSound'
<1>1. \A f : f \in FramesOf(p, vs) <=> f # None /\ \E v \in vs : pt[p][v] = f
  BY DEF FramesOf
<1>2. \A q \in Slots, u \in Pages :
        pt'[q][u] = IF q = p /\ u \in vs THEN None ELSE pt[q][u]
  BY DEF MTypeOK
<1>4. \A f \in Frames \ free' : \E q \in Slots : held'[q] = f \/ \E u \in Pages : pt'[q][u] = f
  <2> SUFFICES ASSUME NEW f \in Frames \ free'
               PROVE  \E q \in Slots : held[q] = f \/ \E u \in Pages : pt'[q][u] = f
    OBVIOUS
  <2>0. f # None /\ f \notin free /\ f \notin FramesOf(p, vs)
    BY MmapAssumption
  <2>1. PICK q \in Slots : held[q] = f \/ \E u \in Pages : pt[q][u] = f
    BY <2>0 DEF FramesSound
  <2>2. ASSUME NEW u \in Pages, pt[q][u] = f PROVE pt'[q][u] = f
    BY <1>1, <1>2, <2>0, <2>2
  <2> QED
    BY <2>1, <2>2
<1>5. \A q \in Slots : held'[q] # None =>
        /\ held'[q] \notin free'
        /\ \A r \in Slots : /\ held'[r] = held'[q] => r = q
                            /\ \A u \in Pages : pt'[r][u] # held'[q]
  <2> SUFFICES ASSUME NEW q \in Slots, held[q] # None
               PROVE  /\ held[q] \notin free'
                      /\ \A r \in Slots : /\ held[r] = held[q] => r = q
                                          /\ \A u \in Pages : pt'[r][u] # held[q]
    OBVIOUS
  <2>1. /\ held[q] \notin free
        /\ \A r \in Slots : /\ held[r] = held[q] => r = q
                            /\ \A u \in Pages : pt[r][u] # held[q]
    BY DEF FramesSound
  <2>2. held[q] \notin FramesOf(p, vs)
    BY <1>1, <2>1
  <2> QED
    BY <1>2, <2>1, <2>2
<1>6. \A q \in Slots, u \in Pages : pt'[q][u] # None =>
        /\ pt'[q][u] \notin free'
        /\ \A r \in Slots, w \in Pages : pt'[r][w] = pt'[q][u] => r = q /\ w = u
  <2> SUFFICES ASSUME NEW q \in Slots, NEW u \in Pages, pt'[q][u] # None
               PROVE  /\ pt'[q][u] \notin free'
                      /\ \A r \in Slots, w \in Pages : pt'[r][w] = pt'[q][u] => r = q /\ w = u
    OBVIOUS
  <2>1. pt'[q][u] = pt[q][u] /\ ~(q = p /\ u \in vs)
    BY <1>2
  <2>2. /\ pt[q][u] \notin free
        /\ \A r \in Slots, w \in Pages : pt[r][w] = pt[q][u] => r = q /\ w = u
    BY <2>1 DEF FramesSound
  <2>3. pt[q][u] \notin FramesOf(p, vs)
    BY <1>1, <2>1, <2>2
  <2> QED
    BY <1>2, <2>1, <2>2, <2>3
<1> QED
  BY <1>4, <1>5, <1>6 DEF FramesSound

(* A process gets a new program in frames of the free list, and its old     *)
(* pages are freed.                                                         *)
LEMMA NewProgram ==
  ASSUME MTypeOK, FramesSound, NEW p \in Slots, NEW g \in Injection(Heap, free),
         pt' = [pt EXCEPT ![p] = Program(g)],
         free' = (free \ Range(g)) \cup FramesOf(p, Pages), UNCHANGED held
  PROVE  FramesSound'
<1>a. g \in [Heap -> free] /\ free \subseteq Frames
  BY InjectionIs DEF MTypeOK
<1>b. g \in [Heap -> Frames]
  BY <1>a
<1>0. /\ g \in [Heap -> free] /\ \A u, v \in Heap : g[u] = g[v] => u = v
      /\ free \subseteq Frames /\ None \notin Frames
  BY InjectionIs, MmapAssumption DEF MTypeOK
<1>1. \A f : f \in FramesOf(p, Pages) <=> f # None /\ \E v \in Pages : pt[p][v] = f
  BY DEF FramesOf
<1>2. /\ \A v \in Heap : v \in Pages /\ Program(g)[v] = g[v]
      /\ \A v \in Pages : v \notin Heap => Program(g)[v] = None
      /\ \A f : f \in Range(g) <=> \E v \in Heap : g[v] = f
  BY <1>b, ProgramFrames
<1>3. \A q \in Slots : pt'[q] = IF q = p THEN Program(g) ELSE pt[q]
  BY DEF MTypeOK
<1>4. \A f \in Frames \ free' : \E q \in Slots : held'[q] = f \/ \E u \in Pages : pt'[q][u] = f
  <2> SUFFICES ASSUME NEW f \in Frames \ free'
               PROVE  \E q \in Slots : held[q] = f \/ \E u \in Pages : pt'[q][u] = f
    OBVIOUS
  <2>1. CASE f \in Range(g)
    BY <1>2, <1>3, <2>1
  <2>2. CASE f \notin Range(g)
    <3>1. f # None /\ f \notin free /\ f \notin FramesOf(p, Pages)
      BY <1>0, <2>2
    <3>2. PICK q \in Slots : held[q] = f \/ \E u \in Pages : pt[q][u] = f
      BY <3>1 DEF FramesSound
    <3>3. ASSUME NEW u \in Pages, pt[q][u] = f PROVE pt'[q][u] = f
      BY <1>1, <1>3, <3>1, <3>3
    <3> QED
      BY <3>2, <3>3
  <2> QED
    BY <2>1, <2>2
<1>5. \A q \in Slots : held'[q] # None =>
        /\ held'[q] \notin free'
        /\ \A r \in Slots : /\ held'[r] = held'[q] => r = q
                            /\ \A u \in Pages : pt'[r][u] # held'[q]
  <2> SUFFICES ASSUME NEW q \in Slots, held[q] # None
               PROVE  /\ held[q] \notin free'
                      /\ \A r \in Slots : /\ held[r] = held[q] => r = q
                                          /\ \A u \in Pages : pt'[r][u] # held[q]
    OBVIOUS
  <2>1. /\ held[q] \notin free
        /\ \A r \in Slots : /\ held[r] = held[q] => r = q
                            /\ \A u \in Pages : pt[r][u] # held[q]
    BY DEF FramesSound
  <2>2. held[q] \notin FramesOf(p, Pages)
    BY <1>1, <2>1
  <2>3. \A u \in Pages : Program(g)[u] # held[q]
    BY <1>0, <1>2, <2>1
  <2> QED
    BY <1>3, <2>1, <2>2, <2>3
<1>6. \A q \in Slots, u \in Pages : pt'[q][u] # None =>
        /\ pt'[q][u] \notin free'
        /\ \A r \in Slots, w \in Pages : pt'[r][w] = pt'[q][u] => r = q /\ w = u
  <2> SUFFICES ASSUME NEW q \in Slots, NEW u \in Pages, pt'[q][u] # None
               PROVE  /\ pt'[q][u] \notin free'
                      /\ \A r \in Slots, w \in Pages : pt'[r][w] = pt'[q][u] => r = q /\ w = u
    OBVIOUS
  <2>1. CASE q = p
    <3>1. u \in Heap /\ pt'[q][u] = g[u] /\ g[u] \in free /\ g[u] \in Range(g)
      BY <1>0, <1>2, <1>3, <2>1
    <3>2. \A r \in Slots, w \in Pages : pt[r][w] # g[u]
      BY <1>0, <3>1 DEF FramesSound
    <3>3. g[u] \notin FramesOf(p, Pages)
      BY <1>1, <3>2
    <3>4. \A w \in Pages : Program(g)[w] = g[u] => w = u
      BY <1>0, <1>2, <3>1
    <3> QED
      BY <1>3, <2>1, <3>1, <3>2, <3>3, <3>4
  <2>2. CASE q # p
    <3>1. pt'[q][u] = pt[q][u]
      BY <1>3, <2>2
    <3>2. /\ pt[q][u] \notin free
          /\ \A r \in Slots, w \in Pages : pt[r][w] = pt[q][u] => r = q /\ w = u
      BY <3>1 DEF FramesSound
    <3>3. pt[q][u] \notin FramesOf(p, Pages)
      BY <1>1, <2>2, <3>2
    <3>4. \A w \in Pages : Program(g)[w] # pt[q][u]
      BY <1>0, <1>2, <3>1, <3>2
    <3> QED
      BY <1>3, <3>1, <3>2, <3>3, <3>4
  <2> QED
    BY <2>1, <2>2
<1> QED
  BY <1>4, <1>5, <1>6 DEF FramesSound

(* Every step is one of these moves, or moves no frame.                     *)
LEMMA FramesStep ==
  MTypeOK /\ CallInv /\ ProgramInv /\ FramesSound /\ [Next]_vars => FramesSound'
<1> SUFFICES ASSUME MTypeOK, CallInv, ProgramInv, FramesSound, [Next]_vars PROVE FramesSound'
  OBVIOUS
<1> USE DEF frameVars, mapVars, pageVars, procVars, callVars
<1>0. ASSUME UNCHANGED <<free, held, pt>> PROVE FramesSound'
  BY <1>0 DEF FramesSound
<1>1. ASSUME NEW p \in Slots, Populate(p) PROVE FramesSound'
  <2>1. held[p] = None
    BY <1>1 DEF Populate, CallInv
  <2>2. ASSUME NEW f \in free, kalloc({f}), held' = [held EXCEPT ![p] = f], UNCHANGED pt
        PROVE  FramesSound'
    BY <2>1, <2>2, TakeFrame DEF kalloc
  <2> QED
    BY <1>0, <1>1, <2>2 DEF Populate, Stop
<1>2. ASSUME NEW p \in Slots, PopulateMap(p) PROVE FramesSound'
  <2> DEFINE v == mtable[call[p].e].addr + call[p].i
  <2>1. v \in Pages /\ held[p] # None
    <3>1. call[p] \in Calls /\ call[p].pc = "filling"
      BY <1>2 DEF PopulateMap, MTypeOK
    <3>2. call[p].i \in 0 .. Region /\ call[p].i < Region /\ call[p].e \in Entries /\ held[p] # None
      BY <3>1, CallParts DEF CallInv
    <3>3. mtable[call[p].e] \in Mappings
      BY <3>2 DEF MTypeOK
    <3> QED
      BY <3>2, <3>3, PageFacts
  <2>2. CASE /\ pt[p][v] = None /\ mappages(p, v, held[p], call[p].prot)
             /\ held' = [held EXCEPT ![p] = None] /\ UNCHANGED free
    <3> HIDE DEF v
    <3> QED
      BY <2>1, <2>2, MapHeld DEF mappages
  <2> QED
    BY <1>0, <1>2, <2>2 DEF PopulateMap, Stop
<1>3. ASSUME NEW p \in Slots, munmap(p) PROVE FramesSound'
  <2>1. PICK e \in Entries :
          /\ kfree(FramesOf(p, {u \in Pages : Covers(e, u)}))
          /\ pt' = [pt EXCEPT ![p] = Unmapped(p, e)]
    BY <1>3 DEF munmap
  <2>2. UNCHANGED held
    BY <1>3 DEF munmap
  <2>3. PICK vs \in SUBSET Pages : vs = {u \in Pages : Covers(e, u)}
    OBVIOUS
  <2>4. Unmapped(p, e) = [v \in Pages |-> IF v \in vs THEN None ELSE pt[p][v]]
    BY <2>3 DEF Unmapped
  <2>5. free' = free \cup FramesOf(p, vs)
    BY <2>1, <2>3 DEF kfree
  <2> QED
    BY <2>1, <2>2, <2>4, <2>5, FreePages
<1>4. ASSUME NEW p \in Slots, Fault(p) PROVE FramesSound'
  <2>1. held[p] = None
    BY <1>4 DEF Fault, InUser, CallInv
  <2>2. ASSUME NEW v \in Base .. Base + Region - 1, NEW f \in free, NEW prot,
               pt[p][v] = None, kalloc({f}), mappages(p, v, f, prot), UNCHANGED held
        PROVE  FramesSound'
    <3>1. v \in Pages
      BY PageFacts
    <3> QED
      BY <2>2, <3>1, MapFree DEF kalloc, mappages
  <2>3. ASSUME NEW f \in free, kalloc({f}), held' = [held EXCEPT ![p] = f], UNCHANGED pt
        PROVE  FramesSound'
    BY <2>1, <2>3, TakeFrame DEF kalloc
  <2> QED
    BY <1>0, <1>4, <2>2, <2>3 DEF Fault, Stop
<1>5. ASSUME NEW p \in Slots, FaultRead(p) PROVE FramesSound'
  <2>1. call[p].v \in Pages /\ held[p] # None /\ pt[p][call[p].v] = None
    <3>1. call[p] \in Calls /\ call[p].pc = "fault"
      BY <1>5 DEF FaultRead, MTypeOK
    <3>2. call[p].v \in Base .. Base + Region - 1
      BY <3>1, CallParts
    <3> QED
      BY <3>1, <3>2, PageFacts DEF CallInv
  <2>2. CASE /\ mappages(p, call[p].v, held[p], call[p].prot)
             /\ held' = [held EXCEPT ![p] = None] /\ UNCHANGED free
    BY <2>1, <2>2, MapHeld DEF mappages
  <2> QED
    BY <1>0, <1>5, <2>2 DEF FaultRead, Stop
<1>6. ASSUME NEW p \in Slots, fork(p) PROVE FramesSound'
  <2>1. UNCHANGED held
    BY <1>6 DEF fork
  <2>2. CASE UNCHANGED <<free, pt>>
    BY <1>0, <2>1, <2>2
  <2>3. ASSUME NEW q \in Slots, NEW g \in Injection(Heap, free), pid[q] = 0,
               kalloc(Range(g)), pt' = [pt EXCEPT ![q] = Program(g)]
        PROVE  FramesSound'
    <3>1. FramesOf(q, Pages) = {}
      BY <2>3 DEF FramesOf, ProgramInv
    <3>2. free' = (free \ Range(g)) \cup FramesOf(q, Pages)
      BY <2>3, <3>1 DEF kalloc
    <3> QED
      BY <2>1, <2>3, <3>2, NewProgram
  <2> QED
    BY <1>6, <2>2, <2>3 DEF fork, kallocFails
<1>7. ASSUME NEW p \in Slots, exec(p) PROVE FramesSound'
  <2>1. UNCHANGED held
    BY <1>7 DEF exec
  <2>2. CASE UNCHANGED <<free, pt>>
    BY <1>0, <2>1, <2>2
  <2>3. ASSUME NEW g \in Injection(Heap, free), pt' = [pt EXCEPT ![p] = Program(g)],
               free' = (free \ Range(g)) \cup FramesOf(p, Pages)
        PROVE  FramesSound'
    BY <2>1, <2>3, NewProgram
  <2> QED
    BY <1>7, <2>2, <2>3 DEF exec, kallocFails
<1>8. ASSUME NEW p \in Slots, wait(p) PROVE FramesSound'
  <2>1. NoPages = [v \in Pages |-> IF v \in Pages THEN None ELSE pt[p][v]]
    BY DEF NoPages
  <2> QED
    BY <1>8, <2>1, FreePages DEF wait, kfree
<1>9. ASSUME NEW p \in Slots, \/ MmapCheck(p) \/ Mallock(p) \/ MmapFill(p)
                              \/ Write(p) \/ OpenClose(p) \/ exit(p)
      PROVE  UNCHANGED <<free, held, pt>>
  BY <1>9 DEF MmapCheck, Mallock, MmapFill, Write, OpenClose, exit, Stop
<1>10. CASE UNCHANGED vars
  BY <1>0, <1>10 DEF vars
<1> QED
  BY <1>0, <1>1, <1>2, <1>3, <1>4, <1>5, <1>6, <1>7, <1>8, <1>9, <1>10 DEF Next, Halted

-----------------------------------------------------------------------------
(* What a frame contains.                                                   *)

(* A step keeps CleanInv when every page is clean that was not mapped to    *)
(* the same frame with the same contents before.                            *)
LEMMA CleanChange ==
  ASSUME CleanInv,
         \A p \in Slots, v \in Pages : pt'[p][v] # None =>
           \/ mem'[pt'[p][v]] \in {Zeros, FileBytes} \cup anc'[p]
           \/ /\ pt'[p][v] = pt[p][v] /\ mem'[pt[p][v]] = mem[pt[p][v]]
              /\ anc[p] \subseteq anc'[p],
         \A p \in Slots : held'[p] # None =>
           \/ mem'[held'[p]] \in {Zeros, FileBytes}
           \/ held'[p] = held[p] /\ mem'[held[p]] = mem[held[p]],
         \A p \in Slots : pid'[p] # 0 =>
           \/ pid'[p] \in anc'[p]
           \/ pid'[p] = pid[p] /\ anc[p] \subseteq anc'[p]
  PROVE  CleanInv'
  BY DEF CleanInv, CleanPages

(* A frame that is mapped has been cleared, read from a file or copied from *)
(* a page that was clean for the parent, and a write only reaches the       *)
(* writer's own frames.                                                     *)
LEMMA CleanStep ==
  MTypeOK /\ CallInv /\ ProgramInv /\ FramesSound /\ CleanInv /\ [Next]_vars => CleanInv'
<1> SUFFICES ASSUME MTypeOK, CallInv, ProgramInv, FramesSound, CleanInv, [Next]_vars
             PROVE  CleanInv'
  OBVIOUS
<1> USE DEF frameVars, mapVars, pageVars, procVars, callVars
<1>0. ASSUME UNCHANGED <<mem, held, pt, anc, pid>> PROVE CleanInv'
  BY <1>0 DEF CleanInv, CleanPages
<1>a. \A p \in Slots : /\ held[p] \in Frames \cup {None}
                       /\ \A v \in Pages : pt[p][v] \in Frames \cup {None}
  BY DEF MTypeOK
(* A frame of the free list is cleared.                                     *)
<1>b. ASSUME NEW f \in free
      PROVE  /\ f \in Frames /\ f # None
             /\ \A p \in Slots : held[p] # f /\ \A v \in Pages : pt[p][v] # f
             /\ Zeroed(f)[f] \in {Zeros, FileBytes}
             /\ \A x \in Frames : x # f => Zeroed(f)[x] = mem[x]
  <2>1. f \in Frames /\ f # None
    BY MmapAssumption DEF MTypeOK
  <2>2. \A p \in Slots : held[p] # f /\ \A v \in Pages : pt[p][v] # f
    BY <2>1 DEF FramesSound
  <2>3. Zeroed(f)[f] = Zeros /\ \A x \in Frames : x # f => Zeroed(f)[x] = mem[x]
    BY <2>1 DEF Zeroed, MTypeOK
  <2> QED
    BY <2>1, <2>2, <2>3
<1>c. ASSUME NEW p \in Slots, NEW f \in free, mem' = Zeroed(f),
             held' = [held EXCEPT ![p] = f], UNCHANGED <<pt, anc, pid>>
      PROVE  CleanInv'
  <2>1. \A q \in Slots : held'[q] = IF q = p THEN f ELSE held[q]
    BY <1>c DEF MTypeOK
  <2>2. \A q \in Slots, v \in Pages : pt'[q][v] # None =>
          /\ pt'[q][v] = pt[q][v] /\ mem'[pt[q][v]] = mem[pt[q][v]]
          /\ anc[q] \subseteq anc'[q]
    BY <1>a, <1>b, <1>c
  <2>3. \A q \in Slots : held'[q] # None =>
          \/ mem'[held'[q]] \in {Zeros, FileBytes}
          \/ held'[q] = held[q] /\ mem'[held[q]] = mem[held[q]]
    BY <1>a, <1>b, <1>c, <2>1
  <2> QED
    BY <1>c, <2>2, <2>3, CleanChange
(* A call maps its frame, which may have been read from a file.             *)
<1>d. ASSUME NEW p \in Slots, NEW v \in Pages, held[p] # None,
             \/ mem' = [mem EXCEPT ![held[p]] = FileBytes]
             \/ mem' = mem,
             pt' = [pt EXCEPT ![p][v] = held[p]],
             held' = [held EXCEPT ![p] = None], UNCHANGED <<anc, pid>>
      PROVE  CleanInv'
  <2>1. \A q \in Slots : held'[q] = IF q = p THEN None ELSE held[q]
    BY <1>d DEF MTypeOK
  <2>2. \A q \in Slots, u \in Pages : pt'[q][u] = IF q = p /\ u = v THEN held[p] ELSE pt[q][u]
    BY <1>d DEF MTypeOK
  <2>3. held[p] \in Frames /\ mem[held[p]] \in {Zeros, FileBytes}
    BY <1>a, <1>d DEF CleanInv
  <2>4. /\ mem'[held[p]] \in {Zeros, FileBytes}
        /\ \A x \in Frames : x # held[p] => mem'[x] = mem[x]
    BY <1>d, <2>3 DEF MTypeOK
  <2>5. \A q \in Slots, u \in Pages : pt[q][u] # held[p]
    BY <1>d DEF FramesSound
  <2>6. \A q \in Slots : q # p => held[q] # held[p]
    BY <1>d DEF FramesSound
  <2>7. \A q \in Slots, u \in Pages : pt'[q][u] # None =>
          \/ mem'[pt'[q][u]] \in {Zeros, FileBytes} \cup anc'[q]
          \/ /\ pt'[q][u] = pt[q][u] /\ mem'[pt[q][u]] = mem[pt[q][u]]
             /\ anc[q] \subseteq anc'[q]
    BY <1>a, <1>d, <2>2, <2>4, <2>5
  <2>8. \A q \in Slots : held'[q] # None => held'[q] = held[q] /\ mem'[held[q]] = mem[held[q]]
    BY <1>a, <2>1, <2>4, <2>6
  <2> QED
    BY <1>d, <2>7, <2>8, CleanChange
(* The frames of some pages of a process are freed.                         *)
<1>e. ASSUME NEW p \in Slots, NEW vs \in SUBSET Pages, kfree(FramesOf(p, vs)),
             \A q \in Slots, u \in Pages :
               pt'[q][u] = IF q = p /\ u \in vs THEN None ELSE pt[q][u],
             UNCHANGED held,
             \A q \in Slots : \/ pid'[q] = pid[q] /\ anc'[q] = anc[q]
                              \/ q = p /\ pid'[q] = 0 /\ vs = Pages
      PROVE  CleanInv'
  <2>1. \A f : f \in FramesOf(p, vs) <=> f # None /\ \E v \in vs : pt[p][v] = f
    BY DEF FramesOf
  <2>2. \A x \in Frames : x \notin FramesOf(p, vs) => mem'[x] = mem[x]
    BY <1>e DEF kfree
  <2>3. \A q \in Slots, u \in Pages : pt'[q][u] # None => pt[q][u] \notin FramesOf(p, vs)
    BY <1>e, <2>1 DEF FramesSound
  <2>4. \A q \in Slots : held[q] # None => held[q] \notin FramesOf(p, vs)
    BY <2>1 DEF FramesSound
  <2>5. \A q \in Slots, u \in Pages : pt'[q][u] # None =>
          /\ pt'[q][u] = pt[q][u] /\ mem'[pt[q][u]] = mem[pt[q][u]]
          /\ anc[q] \subseteq anc'[q]
    BY <1>a, <1>e, <2>2, <2>3
  <2>6. \A q \in Slots : held'[q] # None => held'[q] = held[q] /\ mem'[held[q]] = mem[held[q]]
    BY <1>a, <1>e, <2>2, <2>4
  <2>7. \A q \in Slots : pid'[q] # 0 => pid'[q] = pid[q] /\ anc[q] \subseteq anc'[q]
    BY <1>e
  <2> QED
    BY <2>5, <2>6, <2>7, CleanChange
<1>1. ASSUME NEW p \in Slots, Populate(p) PROVE CleanInv'
  BY <1>0, <1>1, <1>c DEF Populate, Stop
<1>2. ASSUME NEW p \in Slots, PopulateMap(p) PROVE CleanInv'
  <2> DEFINE v == mtable[call[p].e].addr + call[p].i
  <2>1. v \in Pages /\ held[p] # None
    <3>1. call[p] \in Calls /\ call[p].pc = "filling"
      BY <1>2 DEF PopulateMap, MTypeOK
    <3>2. call[p].i \in 0 .. Region /\ call[p].i < Region /\ call[p].e \in Entries /\ held[p] # None
      BY <3>1, CallParts DEF CallInv
    <3>3. mtable[call[p].e] \in Mappings
      BY <3>2 DEF MTypeOK
    <3> QED
      BY <3>2, <3>3, PageFacts
  <2>2. CASE /\ \/ mem' = [mem EXCEPT ![held[p]] = FileBytes]
                \/ mem' = mem
             /\ mappages(p, v, held[p], call[p].prot)
             /\ held' = [held EXCEPT ![p] = None] /\ UNCHANGED <<anc, pid>>
    <3> HIDE DEF v
    <3> QED
      BY <1>d, <2>1, <2>2 DEF mappages
  <2> QED
    BY <1>0, <1>2, <2>2 DEF PopulateMap, Stop
<1>3. ASSUME NEW p \in Slots, munmap(p) PROVE CleanInv'
  <2>1. PICK e \in Entries :
          /\ kfree(FramesOf(p, {u \in Pages : Covers(e, u)}))
          /\ pt' = [pt EXCEPT ![p] = Unmapped(p, e)]
    BY <1>3 DEF munmap
  <2>2. UNCHANGED <<held, pid, anc>>
    BY <1>3 DEF munmap
  <2>3. PICK vs \in SUBSET Pages : vs = {u \in Pages : Covers(e, u)}
    OBVIOUS
  <2>4. \A q \in Slots, u \in Pages : pt'[q][u] = IF q = p /\ u \in vs THEN None ELSE pt[q][u]
    BY <2>1, <2>3 DEF Unmapped, MTypeOK
  <2> QED
    BY <1>e, <2>1, <2>2, <2>3, <2>4
<1>4. ASSUME NEW p \in Slots, Fault(p) PROVE CleanInv'
  <2>2. ASSUME NEW v \in Base .. Base + Region - 1, NEW f \in free, NEW prot,
               mem' = Zeroed(f), mappages(p, v, f, prot), UNCHANGED <<held, pid, anc>>
        PROVE  CleanInv'
    <3>1. \A q \in Slots, u \in Pages : pt'[q][u] = IF q = p /\ u = v THEN f ELSE pt[q][u]
      BY <2>2 DEF mappages, MTypeOK
    <3>2. \A q \in Slots, u \in Pages : pt'[q][u] # None =>
            \/ mem'[pt'[q][u]] \in {Zeros, FileBytes} \cup anc'[q]
            \/ /\ pt'[q][u] = pt[q][u] /\ mem'[pt[q][u]] = mem[pt[q][u]]
               /\ anc[q] \subseteq anc'[q]
      BY <1>a, <1>b, <2>2, <3>1
    <3>3. \A q \in Slots : held'[q] # None => held'[q] = held[q] /\ mem'[held[q]] = mem[held[q]]
      BY <1>a, <1>b, <2>2
    <3> QED
      BY <2>2, <3>2, <3>3, CleanChange
  <2> QED
    BY <1>0, <1>4, <1>c, <2>2 DEF Fault, Stop
<1>5. ASSUME NEW p \in Slots, FaultRead(p) PROVE CleanInv'
  <2>1. call[p].v \in Pages /\ held[p] # None
    <3>1. call[p] \in Calls /\ call[p].pc = "fault"
      BY <1>5 DEF FaultRead, MTypeOK
    <3>2. call[p].v \in Base .. Base + Region - 1
      BY <3>1, CallParts
    <3> QED
      BY <3>1, <3>2, PageFacts DEF CallInv
  <2> QED
    BY <1>0, <1>5, <1>d, <2>1 DEF FaultRead, mappages, Stop
<1>6. ASSUME NEW p \in Slots, Write(p) PROVE CleanInv'
  <2>1. PICK v \in Pages : pt[p][v] # None /\ mem' = [mem EXCEPT ![pt[p][v]] = pid[p]]
    BY <1>6 DEF Write, MTypeOK
  <2>2. UNCHANGED <<pt, held, pid, anc>> /\ pid[p] # 0
    BY <1>6 DEF Write, InUser
  <2>3. pid[p] \in anc[p]
    BY <2>2 DEF CleanInv
  <2>4. /\ mem'[pt[p][v]] = pid[p]
        /\ \A x \in Frames : x # pt[p][v] => mem'[x] = mem[x]
    BY <1>a, <2>1 DEF MTypeOK
  <2>5. \A q \in Slots, u \in Pages : pt[q][u] = pt[p][v] => q = p /\ u = v
    BY <2>1 DEF FramesSound
  <2>6. \A q \in Slots : held[q] # None => held[q] # pt[p][v]
    BY DEF FramesSound
  <2>7. \A q \in Slots, u \in Pages : pt'[q][u] # None =>
            \/ mem'[pt'[q][u]] \in {Zeros, FileBytes} \cup anc'[q]
            \/ /\ pt'[q][u] = pt[q][u] /\ mem'[pt[q][u]] = mem[pt[q][u]]
               /\ anc[q] \subseteq anc'[q]
    BY <1>a, <2>2, <2>3, <2>4, <2>5
  <2>8. \A q \in Slots : held'[q] # None => held'[q] = held[q] /\ mem'[held[q]] = mem[held[q]]
    BY <1>a, <2>2, <2>4, <2>6
  <2> QED
    BY <2>2, <2>7, <2>8, CleanChange
<1>7. ASSUME NEW p \in Slots, fork(p) PROVE CleanInv'
  <2>1. UNCHANGED held /\ pid[p] # 0
    BY <1>7 DEF fork, InUser
  <2>2. CASE kallocFails /\ UNCHANGED <<procVars, pageVars>>
    BY <1>0, <2>1, <2>2 DEF kallocFails
  <2>3. ASSUME NEW q \in Slots, NEW g \in Injection(Heap, free), mem' = copyuvm(p, g),
               pt' = [pt EXCEPT ![q] = Program(g)],
               pid' = [pid EXCEPT ![q] = nextpid],
               anc' = [anc EXCEPT ![q] = anc[p] \cup {nextpid}]
        PROVE  CleanInv'
    <3>0. /\ g \in [Heap -> free] /\ free \subseteq Frames /\ None \notin Frames
          /\ g \in [Heap -> Frames]
      <4>1. g \in [Heap -> free] /\ free \subseteq Frames
        BY InjectionIs DEF MTypeOK
      <4> QED
        BY <4>1, MmapAssumption
    <3>1. /\ \A v \in Heap : v \in Pages /\ Program(g)[v] = g[v]
          /\ \A v \in Pages : v \notin Heap => Program(g)[v] = None
          /\ \A f : f \in Range(g) <=> \E v \in Heap : g[v] = f
      BY <3>0, ProgramFrames
    <3>2. \A x \in Frames : x \notin Range(g) => mem'[x] = mem[x]
      BY <2>3 DEF copyuvm
    <3>3. \A x \in Range(g) : \E u \in Heap : mem'[x] = mem[pt[p][u]]
      <4> SUFFICES ASSUME NEW x \in Range(g) PROVE \E u \in Heap : mem'[x] = mem[pt[p][u]]
        OBVIOUS
      <4>1. \E v \in Heap : g[v] = x
        BY <3>1
      <4>2. PICK u \in Heap : u = CHOOSE v \in Heap : g[v] = x
        BY <4>1
      <4>3. x \in Frames
        BY <3>0, <4>1
      <4> QED
        BY <2>3, <4>2, <4>3 DEF copyuvm
    <3>4. \A u \in Heap : mem[pt[p][u]] \in {Zeros, FileBytes} \cup anc[p]
      BY <2>1, <3>1 DEF ProgramInv, CleanInv, CleanPages
    <3>5. \A r \in Slots : /\ pt'[r] = IF r = q THEN Program(g) ELSE pt[r]
                           /\ pid'[r] = IF r = q THEN nextpid ELSE pid[r]
                           /\ anc'[r] = IF r = q THEN anc[p] \cup {nextpid} ELSE anc[r]
      BY <2>3 DEF MTypeOK
    <3>6. \A r \in Slots : /\ held[r] # None => held[r] \notin Range(g)
                           /\ \A u \in Pages : pt[r][u] # None => pt[r][u] \notin Range(g)
      BY <3>0, <3>1 DEF FramesSound
    <3>7. \A r \in Slots, u \in Pages : pt'[r][u] # None =>
            \/ mem'[pt'[r][u]] \in {Zeros, FileBytes} \cup anc'[r]
            \/ /\ pt'[r][u] = pt[r][u] /\ mem'[pt[r][u]] = mem[pt[r][u]]
               /\ anc[r] \subseteq anc'[r]
      <4> SUFFICES ASSUME NEW r \in Slots, NEW u \in Pages, pt'[r][u] # None
                   PROVE  \/ mem'[pt'[r][u]] \in {Zeros, FileBytes} \cup anc'[r]
                          \/ /\ pt'[r][u] = pt[r][u] /\ mem'[pt[r][u]] = mem[pt[r][u]]
                             /\ anc[r] \subseteq anc'[r]
        OBVIOUS
      <4>1. CASE r = q
        <5>1. u \in Heap /\ pt'[r][u] = g[u] /\ g[u] \in Range(g)
          BY <3>1, <3>5, <4>1
        <5>2. PICK w \in Heap : mem'[g[u]] = mem[pt[p][w]]
          BY <3>3, <5>1
        <5> QED
          BY <3>4, <3>5, <4>1, <5>1, <5>2
      <4>2. CASE r # q
        BY <1>a, <3>2, <3>5, <3>6, <4>2
      <4> QED
        BY <4>1, <4>2
    <3>8. \A r \in Slots : held'[r] # None => held'[r] = held[r] /\ mem'[held[r]] = mem[held[r]]
      BY <1>a, <2>1, <3>2, <3>6
    <3>9. \A r \in Slots : pid'[r] # 0 =>
            \/ pid'[r] \in anc'[r]
            \/ pid'[r] = pid[r] /\ anc[r] \subseteq anc'[r]
      BY <3>5
    <3> QED
      BY <3>7, <3>8, <3>9, CleanChange
  <2> QED
    BY <1>7, <2>2, <2>3 DEF fork
<1>8. ASSUME NEW p \in Slots, exec(p) PROVE CleanInv'
  <2>1. UNCHANGED <<held, pid, anc>>
    BY <1>8 DEF exec
  <2>2. CASE kallocFails /\ UNCHANGED pageVars
    BY <1>0, <2>1, <2>2 DEF kallocFails
  <2>3. ASSUME NEW g \in Injection(Heap, free), pt' = [pt EXCEPT ![p] = Program(g)],
               mem' = [f \in Frames |-> IF f \in Range(g) THEN FileBytes
                                        ELSE IF f \in FramesOf(p, Pages) THEN Junk ELSE mem[f]]
        PROVE  CleanInv'
    <3>0. g \in [Heap -> free] /\ free \subseteq Frames
      BY InjectionIs DEF MTypeOK
    <3>a. g \in [Heap -> Frames] /\ None \notin Frames
      BY <3>0, MmapAssumption
    <3>1. /\ \A v \in Heap : v \in Pages /\ Program(g)[v] = g[v]
          /\ \A v \in Pages : v \notin Heap => Program(g)[v] = None
          /\ \A f : f \in Range(g) <=> \E v \in Heap : g[v] = f
      BY <3>a, ProgramFrames
    <3>2. \A f : f \in FramesOf(p, Pages) <=> f # None /\ \E v \in Pages : pt[p][v] = f
      BY DEF FramesOf
    <3>3. \A x \in Frames : /\ x \in Range(g) => mem'[x] = FileBytes
                            /\ x \notin Range(g) \cup FramesOf(p, Pages) => mem'[x] = mem[x]
      BY <2>3
    <3>4. \A r \in Slots : pt'[r] = IF r = p THEN Program(g) ELSE pt[r]
      BY <2>3 DEF MTypeOK
    <3>5. \A r \in Slots : /\ held[r] # None => held[r] \notin Range(g)
                           /\ \A u \in Pages : pt[r][u] # None => pt[r][u] \notin Range(g)
      BY <3>0, <3>1 DEF FramesSound
    <3>6. \A r \in Slots : /\ held[r] # None => held[r] \notin FramesOf(p, Pages)
                           /\ r # p => \A u \in Pages : pt[r][u] # None =>
                                         pt[r][u] \notin FramesOf(p, Pages)
      BY <3>2 DEF FramesSound
    <3>7. \A r \in Slots, u \in Pages : pt'[r][u] # None =>
            \/ mem'[pt'[r][u]] \in {Zeros, FileBytes} \cup anc'[r]
            \/ /\ pt'[r][u] = pt[r][u] /\ mem'[pt[r][u]] = mem[pt[r][u]]
               /\ anc[r] \subseteq anc'[r]
      <4> SUFFICES ASSUME NEW r \in Slots, NEW u \in Pages, pt'[r][u] # None
                   PROVE  \/ mem'[pt'[r][u]] \in {Zeros, FileBytes} \cup anc'[r]
                          \/ /\ pt'[r][u] = pt[r][u] /\ mem'[pt[r][u]] = mem[pt[r][u]]
                             /\ anc[r] \subseteq anc'[r]
        OBVIOUS
      <4>1. CASE r = p
        <5>1. u \in Heap /\ pt'[r][u] = g[u] /\ g[u] \in Range(g) /\ g[u] \in Frames
          BY <3>1, <3>4, <3>a, <4>1
        <5> QED
          BY <3>3, <5>1
      <4>2. CASE r # p
        BY <1>a, <2>1, <3>3, <3>4, <3>5, <3>6, <4>2
      <4> QED
        BY <4>1, <4>2
    <3>8. \A r \in Slots : held'[r] # None => held'[r] = held[r] /\ mem'[held[r]] = mem[held[r]]
      BY <1>a, <2>1, <3>3, <3>5, <3>6
    <3> QED
      BY <2>1, <3>7, <3>8, CleanChange
  <2> QED
    BY <1>8, <2>2, <2>3 DEF exec
<1>9. ASSUME NEW p \in Slots, wait(p) PROVE CleanInv'
  <2>1. \A q \in Slots, u \in Pages : pt'[q][u] = IF q = p /\ u \in Pages THEN None ELSE pt[q][u]
    BY <1>9 DEF wait, NoPages, MTypeOK
  <2>2. \A q \in Slots : \/ pid'[q] = pid[q] /\ anc'[q] = anc[q]
                         \/ q = p /\ pid'[q] = 0
    BY <1>9 DEF wait, MTypeOK
  <2> QED
    BY <1>9, <1>e, <2>1, <2>2 DEF wait
<1>10. ASSUME NEW p \in Slots, \/ MmapCheck(p) \/ Mallock(p) \/ MmapFill(p)
                               \/ OpenClose(p) \/ exit(p)
       PROVE  UNCHANGED <<mem, held, pt, anc, pid>>
  BY <1>10 DEF MmapCheck, Mallock, MmapFill, OpenClose, exit, Stop
<1>11. CASE UNCHANGED vars
  BY <1>0, <1>11 DEF vars
<1> QED
  BY <1>0, <1>1, <1>2, <1>3, <1>4, <1>5, <1>6, <1>7, <1>8, <1>9, <1>10, <1>11 DEF Next, Halted

-----------------------------------------------------------------------------
(* The counter goes down with every frame that leaves the free list and up  *)
(* only with frames that were not on it.                                    *)
LEMMA CountStep ==
  MTypeOK /\ ProgramInv /\ FramesSound /\ CountNotAbove /\ [Next]_vars => CountNotAbove'
<1> SUFFICES ASSUME MTypeOK, ProgramInv, FramesSound, CountNotAbove, [Next]_vars
             PROVE  CountNotAbove'
  OBVIOUS
<1> USE DEF frameVars, mapVars, pageVars, procVars, callVars
<1>0. ASSUME UNCHANGED <<free, freemems>> PROVE CountNotAbove'
  BY <1>0 DEF CountNotAbove
<1>a. \A S \in SUBSET Frames : IsFiniteSet(S) /\ Cardinality(S) \in Nat
  <2> SUFFICES ASSUME NEW S \in SUBSET Frames PROVE IsFiniteSet(S) /\ Cardinality(S) \in Nat
    OBVIOUS
  <2>1. IsFiniteSet(S)
    BY FS_Subset, MmapAssumption
  <2> QED
    BY <2>1, FS_CardinalityType
<1>b. freemems \in Int /\ free \in SUBSET Frames /\ freemems <= Cardinality(free)
  BY DEF MTypeOK, CountNotAbove
<1>c. ASSUME NEW fs \in SUBSET free, kalloc(fs) PROVE CountNotAbove'
  <2>1. fs \in SUBSET Frames /\ free \cap fs = fs
    BY <1>b
  <2>2. Cardinality(free \ fs) = Cardinality(free) - Cardinality(fs)
    BY <1>a, <1>b, <2>1, FS_Difference
  <2> QED
    BY <1>a, <1>b, <1>c, <2>1, <2>2 DEF kalloc, CountNotAbove
<1>d. ASSUME NEW S \in SUBSET Frames, NEW T \in SUBSET Frames, S \cap T = {}
      PROVE  Cardinality(S \cup T) = Cardinality(S) + Cardinality(T)
  <2>1. IsFiniteSet(S) /\ IsFiniteSet(T) /\ Cardinality(S) \in Nat /\ Cardinality(T) \in Nat
    BY <1>a
  <2>2. Cardinality(S \cup T) = Cardinality(S) + Cardinality(T) - Cardinality(S \cap T)
    BY <2>1, FS_Union
  <2>3. Cardinality(S \cap T) = 0
    BY <1>d, FS_EmptySet
  <2> QED
    BY <2>1, <2>2, <2>3
<1>e. ASSUME NEW p \in Slots, NEW vs \in SUBSET Pages
      PROVE  FramesOf(p, vs) \in SUBSET Frames /\ free \cap FramesOf(p, vs) = {}
  BY DEF FramesOf, MTypeOK, FramesSound
<1>f. ASSUME NEW p \in Slots, NEW vs \in SUBSET Pages, kfree(FramesOf(p, vs))
      PROVE  CountNotAbove'
  <2>1. Cardinality(free \cup FramesOf(p, vs)) = Cardinality(free) + Cardinality(FramesOf(p, vs))
    BY <1>b, <1>d, <1>e
  <2> QED
    BY <1>a, <1>b, <1>e, <1>f, <2>1 DEF kfree, CountNotAbove
<1>g. ASSUME NEW g \in Injection(Heap, free) PROVE Range(g) \in SUBSET free
  <2>1. g \in [Heap -> free]
    BY InjectionIs
  <2> QED
    BY <2>1 DEF Range
<1>h. ASSUME kallocFails PROVE CountNotAbove'
  BY <1>a, <1>b, <1>h DEF kallocFails, CountNotAbove
<1>1. ASSUME NEW p \in Slots, Populate(p) PROVE CountNotAbove'
  BY <1>0, <1>1, <1>c DEF Populate, Stop
<1>2. ASSUME NEW p \in Slots, munmap(p) PROVE CountNotAbove'
  BY <1>2, <1>f DEF munmap
<1>3. ASSUME NEW p \in Slots, Fault(p) PROVE CountNotAbove'
  BY <1>0, <1>3, <1>c DEF Fault, Stop
<1>4. ASSUME NEW p \in Slots, fork(p) PROVE CountNotAbove'
  BY <1>4, <1>c, <1>g, <1>h DEF fork
<1>5. ASSUME NEW p \in Slots, exec(p) PROVE CountNotAbove'
  <2>1. ASSUME NEW g \in Injection(Heap, free),
               free' = (free \ Range(g)) \cup FramesOf(p, Pages),
               freemems' = freemems - Cardinality(Range(g)) + Cardinality(FramesOf(p, Pages))
        PROVE  CountNotAbove'
    <3>1. Range(g) \in SUBSET Frames /\ free \cap Range(g) = Range(g)
      BY <1>b, <1>g
    <3>2. Cardinality(free \ Range(g)) = Cardinality(free) - Cardinality(Range(g))
      BY <1>a, <1>b, <3>1, FS_Difference
    <3>3. /\ FramesOf(p, Pages) \in SUBSET Frames
          /\ (free \ Range(g)) \cap FramesOf(p, Pages) = {}
          /\ free \ Range(g) \in SUBSET Frames
      BY <1>b, <1>e
    <3>4. Cardinality(free') = Cardinality(free \ Range(g)) + Cardinality(FramesOf(p, Pages))
      BY <1>d, <2>1, <3>3
    <3>5. /\ Cardinality(free) \in Nat /\ Cardinality(Range(g)) \in Nat
          /\ Cardinality(FramesOf(p, Pages)) \in Nat
      BY <1>a, <1>b, <3>1, <3>3
    <3>6. freemems' <= Cardinality(free')
      BY <1>b, <2>1, <3>2, <3>4, <3>5
    <3> QED
      BY <3>6 DEF CountNotAbove
  <2> QED
    BY <1>5, <1>h, <2>1 DEF exec
<1>6. ASSUME NEW p \in Slots, wait(p) PROVE CountNotAbove'
  BY <1>6, <1>f DEF wait
<1>7. ASSUME NEW p \in Slots, \/ MmapCheck(p) \/ Mallock(p) \/ MmapFill(p) \/ PopulateMap(p)
                              \/ FaultRead(p) \/ Write(p) \/ OpenClose(p) \/ exit(p)
      PROVE  UNCHANGED <<free, freemems>>
  BY <1>7 DEF MmapCheck, Mallock, MmapFill, PopulateMap, FaultRead, Write, OpenClose, exit, Stop
<1>8. CASE UNCHANGED vars
  BY <1>0, <1>8 DEF vars
<1> QED
  BY <1>0, <1>1, <1>2, <1>3, <1>4, <1>5, <1>6, <1>7, <1>8 DEF Next, Halted

-----------------------------------------------------------------------------
(* The invariant and the theorems.                                          *)

(* init alone, with its program.                                            *)
LEMMA MInitInv == Init => MInv
<1> SUFFICES ASSUME Init PROVE MInv
  OBVIOUS
<1>0. /\ freemems = Cardinality(free)
      /\ mtable = [e \in Entries |-> NoMap] /\ using = {}
      /\ pid = [p \in Slots |-> IF p = 1 THEN 1 ELSE 0]
      /\ anc = [p \in Slots |-> IF p = 1 THEN {1} ELSE {}]
      /\ wr = [p \in Slots |-> IF p = 1 THEN Heap ELSE {}]
      /\ call = [p \in Slots |-> Idle] /\ held = [p \in Slots |-> None]
      /\ nextpid = 2 /\ zombie = {}
  BY DEF Init
<1>1. PICK g \in Injection(Heap, Frames) :
        /\ free = Frames \ Range(g)
        /\ mem = [f \in Frames |-> IF f \in Range(g) THEN FileBytes ELSE Junk]
        /\ pt = [p \in Slots |-> IF p = 1 THEN Program(g) ELSE NoPages]
  BY DEF Init
<1>2. g \in [Heap -> Frames] /\ \A u, v \in Heap : g[u] = g[v] => u = v
  BY InjectionIs
<1>3. /\ Program(g) \in [Pages -> Frames \cup {None}]
      /\ \A v \in Heap : v \in Pages /\ Program(g)[v] = g[v]
      /\ \A v \in Pages : v \notin Heap => Program(g)[v] = None
      /\ \A f : f \in Range(g) <=> \E v \in Heap : g[v] = f
  BY <1>2, ProgramFrames
<1>4. NoPages \in [Pages -> Frames \cup {None}] /\ \A v \in Pages : NoPages[v] = None
  BY DEF NoPages
<1>5. 1 \in Slots /\ None \notin Frames
  BY MmapAssumption DEF Slots
<1>6. Cardinality(free) \in Nat
  <2>1. IsFiniteSet(free)
    BY <1>1, FS_Subset, MmapAssumption
  <2> QED
    BY <2>1, FS_CardinalityType
<1>7. MTypeOK
  <2>1. NoMap \in Mappings
    BY MmapAssumption DEF NoMap, Mappings, None
  <2>2. mem \in [Frames -> Int]
    BY <1>1 DEF FileBytes, Junk
  <2>3. wr \in [Slots -> SUBSET Pages]
    BY <1>0, PageFacts
  <2>4. pid \in [Slots -> Nat] /\ anc \in [Slots -> SUBSET Nat]
    <3>1. {1} \in SUBSET Nat /\ {} \in SUBSET Nat
      OBVIOUS
    <3>2. anc \in [Slots -> SUBSET Nat]
      BY <1>0, <3>1
    <3>3. pid \in [Slots -> Nat]
      BY <1>0
    <3> QED
      BY <3>2, <3>3
  <2>5. call \in [Slots -> Calls] /\ held \in [Slots -> Frames \cup {None}]
    BY <1>0, CallStarts
  <2>6. pt \in [Slots -> [Pages -> Frames \cup {None}]]
    BY <1>1, <1>3, <1>4
  <2> QED
    BY <1>0, <1>1, <1>6, <2>1, <2>2, <2>3, <2>4, <2>5, <2>6 DEF MTypeOK
<1>8. MapInv
  BY <1>0 DEF NoMap, MapInv
<1>9. CallInv
  BY <1>0 DEF Idle, CallInv
<1>10. ProgramInv
  <2>1. \A p \in Slots : pid[p] # 0 => p = 1
    BY <1>0
  <2>2. \A v \in Heap : pt[1][v] # None
    BY <1>1, <1>2, <1>3, <1>5
  <2>3. \A p \in Slots : pid[p] = 0 => p # 1
    BY <1>0
  <2>4. \A p \in Slots : p # 1 => \A v \in Pages : pt[p][v] = None
    BY <1>1, <1>4
  <2> QED
    BY <2>1, <2>2, <2>3, <2>4 DEF ProgramInv
<1>11. \A p \in Slots : held[p] = None
  BY <1>0
<1>12. \A p \in Slots, v \in Pages : pt[p][v] # None => p = 1 /\ v \in Heap /\ pt[p][v] = g[v]
  BY <1>1, <1>3, <1>4
<1>13. FramesSound
  <2>1. \A f \in Frames \ free : \E v \in Pages : pt[1][v] = f
    BY <1>1, <1>3, <1>5
  <2>2. \A p \in Slots, v \in Pages : pt[p][v] # None =>
          /\ pt[p][v] \notin free
          /\ \A q \in Slots, u \in Pages : pt[q][u] = pt[p][v] => q = p /\ u = v
    BY <1>1, <1>2, <1>3, <1>12
  <2> QED
    BY <1>5, <1>11, <2>1, <2>2 DEF FramesSound
<1>14. CleanInv
  <2>1. CleanPages
    BY <1>1, <1>2, <1>3, <1>12 DEF CleanPages
  <2>2. \A p \in Slots : pid[p] # 0 => pid[p] \in anc[p]
    BY <1>0
  <2> QED
    BY <1>11, <2>1, <2>2 DEF CleanInv
<1>15. CountNotAbove
  BY <1>0, <1>6 DEF CountNotAbove
<1> QED
  BY <1>7, <1>8, <1>9, <1>10, <1>13, <1>14, <1>15 DEF MInv

(* The seven parts together are inductive.                                  *)
LEMMA MStepInv == MInv /\ [Next]_vars => MInv'
  BY MTypeStep, MapStep, CallStep, ProgramStep, FramesStep, CleanStep, CountStep DEF MInv

(* So they hold in every state.                                             *)
LEMMA MInvHolds == Spec => []MInv
  BY MInitInv, MStepInv, PTL DEF Spec

(* No frame is shared, freed while it is mapped, or lost, whatever the      *)
(* order in which mmap() calls, faults, munmap(), fork(), exec() and exit() *)
(* of the processes interleave.                                             *)
THEOREM FramesInOnePlace == Spec => []FramesSound
<1>1. MInv => FramesSound
  BY DEF MInv
<1> QED
  BY <1>1, MInvHolds, PTL

(* No page shows junk or the data of a process that is not an ancestor.     *)
THEOREM PagesAreClean == Spec => []CleanPages
<1>1. MInv => CleanPages
  BY DEF MInv, CleanInv
<1> QED
  BY <1>1, MInvHolds, PTL

(* freemem() is never above the number of frames on the free list: what     *)
(* failing calls of kalloc() take from it is never given back, but nothing  *)
(* is counted twice.                                                        *)
THEOREM FreememNotAbove == Spec => []CountNotAbove
<1>1. MInv => CountNotAbove
  BY DEF MInv
<1> QED
  BY <1>1, MInvHolds, PTL
=============================================================================
