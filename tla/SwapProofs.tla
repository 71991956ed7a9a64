----------------------------- MODULE SwapProofs -----------------------------
(***************************************************************************)
(* Proofs about Swap, for every number of slots, frames and pages: a frame *)
(* is in at most one place; and as long as no fault has replaced a page,   *)
(* the list of swappable pages is a ring of pages that are mapped where    *)
(* they say, and num_lru_pages exceeds its length.                         *)
(***************************************************************************)
EXTENDS Swap, FiniteSetTheorems, NaturalsInduction, TLAPS

-----------------------------------------------------------------------------
(* The inductive invariant.                                                 *)

Ptrs == Frames \cup {Null, Wild}
NodeType == [next : Ptrs, prev : Ptrs, pgdir : 0 .. NPROC, vaddr : Nat]
LruType == [node : [Frames -> NodeType], head : Frames \cup {Null}, num : Int,
            word : [Slots -> Ptrs], trap : BOOLEAN]

(* A page table: empty, or at least as long as a program.                   *)
Sizes == {0} \cup Image .. MaxSize
IsTable(t) == \E n \in Sizes : t \in [0 .. n - 1 -> Frames]

TypeInv ==
  /\ free \in SUBSET Frames
  /\ DOMAIN pt = Slots /\ \A p \in Slots : IsTable(pt[p])
  /\ Lru \in LruType
  /\ zombie \in SUBSET Slots /\ \A q \in zombie : Used(q)

(* No two pages are in the same frame.                                      *)
Apart(t) ==
  \A p, q \in Slots : \A u \in DOMAIN t[p], v \in DOMAIN t[q] :
    t[p][u] = t[q][v] => p = q /\ u = v

PlacesInv ==
  /\ Apart(pt)
  /\ \A p \in Slots : \A v \in DOMAIN pt[p] : pt[p][v] \notin free

(* The n frames that next leads through from the head and back to it, with  *)
(* prev the other way: s[0], ..., s[n - 1] and s[n] = s[0].                 *)
IsRing(l, s, n) ==
  /\ s[0] = l.head /\ s[n] = l.head
  /\ \A i, j \in 0 .. n - 1 : s[i] = s[j] => i = j
  /\ \A i \in 0 .. n - 1 : l.node[s[i]].next = s[i + 1] /\ l.node[s[i + 1]].prev = s[i]

(* The frame f is where its entry in pages[] says, according to the page    *)
(* tables t, and not a page of q from lo up to hi - 1.                      *)
Placed(x, f, t, q, lo, hi) ==
  /\ x.pgdir \in Slots /\ x.vaddr \in DOMAIN t[x.pgdir] /\ t[x.pgdir][x.vaddr] = f
  /\ ~(x.pgdir = q /\ lo <= x.vaddr /\ x.vaddr < hi)

Good(l, t, q, lo, hi) ==
  l.head # Null =>
    \E n \in Nat \ {0} : \E s \in [0 .. n -> Frames] :
      /\ IsRing(l, s, n) /\ l.num > n
      /\ \A i \in 0 .. n - 1 : Placed(l.node[s[i]], s[i], t, q, lo, hi)

(* No fault has replaced a page, and the kernel runs.                       *)
Calm == Lost = {} /\ halted = ""

RingInv == Calm => Good(Lru, pt, 0, 0, 0)

Inv == TypeInv /\ PlacesInv /\ RingInv

-----------------------------------------------------------------------------
(* Loops.                                                                   *)

(* A nonempty set of numbers has a least member.                            *)
LEMMA LeastNumber ==
  ASSUME NEW S, S \subseteq Nat, S # {}
  PROVE  \E x \in S : \A y \in S : x <= y
<1>1. PICK x \in S : \A y \in S : ~(<<y, x>> \in OpToRel(<, Nat))
  BY NatLessThanWellFounded, WFMin
<1>2. \A y \in S : x <= y
  <2> TAKE y \in S
  <2>1. ~(y < x)
    BY <1>1 DEF OpToRel
  <2> QED BY <2>1
<1> QED BY <1>2

(* The values of a loop from a to hi: x at first, then G of the last one.   *)
LoopValues(T, x, G, a, hi) ==
  {f \in [a .. hi -> T] : \A v \in a .. hi : f[v] = IF v = a THEN x ELSE G[v][f[v - 1]]}

(* Every loop has values: otherwise there would be a first turn without.    *)
LEMMA LoopExists ==
  ASSUME NEW T, NEW x \in T, NEW a \in Int, NEW hi \in Int, a <= hi,
         NEW G \in [a + 1 .. hi -> [T -> T]]
  PROVE  LoopValues(T, x, G, a, hi) # {}
<1> DEFINE B == {k \in Nat : a + k <= hi /\ LoopValues(T, x, G, a, a + k) = {}}
<1>1. B = {}
  <2> SUFFICES ASSUME B # {} PROVE FALSE
    OBVIOUS
  <2>1. PICK k \in B : \A m \in B : k <= m
    BY LeastNumber
  <2>2. CASE k = 0
    <3> DEFINE f == [v \in a .. a |-> x]
    <3>1. f \in LoopValues(T, x, G, a, a + 0)
      BY DEF LoopValues
    <3> QED
      BY <2>1, <2>2, <3>1
  <2>3. CASE k # 0
    <3>1. k - 1 \in Nat /\ a + (k - 1) <= hi /\ k - 1 \notin B
      BY <2>1, <2>3
    <3>2. PICK g : g \in LoopValues(T, x, G, a, a + (k - 1))
      BY <3>1
    <3>3. PICK b \in a + 1 .. hi : b = a + k
      BY <2>1, <2>3
    <3>4. /\ g \in [a .. b - 1 -> T]
          /\ \A v \in a .. b - 1 : g[v] = IF v = a THEN x ELSE G[v][g[v - 1]]
      <4>1. a + (k - 1) = b - 1
        BY <2>1, <3>3
      <4> QED
        BY <3>2, <4>1 DEF LoopValues
    <3> DEFINE h == [v \in a .. b |-> IF v = b THEN G[b][g[b - 1]] ELSE g[v]]
    <3>5. h \in [a .. b -> T]
      <4>1. G[b] \in [T -> T] /\ g[b - 1] \in T
        BY <3>3, <3>4
      <4> QED
        BY <3>3, <3>4, <4>1
    <3>6. ASSUME NEW v \in a .. b PROVE h[v] = IF v = a THEN x ELSE G[v][h[v - 1]]
      <4>1. CASE v = b
        BY <3>3, <4>1
      <4>2. CASE v # b
        <5>1. v \in a .. b - 1 /\ (v # a => v - 1 \in a .. b - 1 /\ v - 1 # b)
          BY <4>2
        <5> QED
          BY <3>4, <4>2, <5>1
      <4> QED
        BY <4>1, <4>2
    <3> HIDE DEF h
    <3>7. h \in LoopValues(T, x, G, a, a + k)
      BY <3>3, <3>5, <3>6 DEF LoopValues
    <3> QED
      BY <2>1, <3>7
  <2> QED
    BY <2>2, <2>3
<1>2. PICK k \in Nat : a + k = hi
  <2>1. hi - a \in Nat /\ a + (hi - a) = hi
    OBVIOUS
  <2> QED
    BY <2>1
<1>3. k \notin B
  BY <1>1
<1> QED
  BY <1>2, <1>3

-----------------------------------------------------------------------------
(* The operations on the ring keep its type.                                *)

(* The constants as numbers; pointers that are null or wild are no frames.  *)
LEMMA Numbers ==
  /\ NPROC \in Nat \ {0} /\ NFRAME \in Nat \ {0} /\ Image \in Nat \ {0, 1}
  /\ MaxSize \in Nat /\ Image <= NFRAME /\ Image <= MaxSize
  /\ \A f \in Frames : f \in Nat /\ f # Null /\ f # Wild /\ f \in Ptrs
  /\ \A p \in Slots : p \in Nat /\ p # 0 /\ p \in 0 .. NPROC
  /\ Null \in Ptrs /\ Wild \in Ptrs /\ Null # Wild
<1>1. /\ NPROC \in Nat \ {0} /\ NFRAME \in Nat \ {0} /\ Image \in Nat \ {0, 1}
      /\ MaxSize \in Nat /\ Image <= NFRAME /\ Image <= MaxSize
  BY SwapAssumption
<1>2. ASSUME NEW f \in Frames PROVE f \in Nat /\ f # Null /\ f # Wild /\ f \in Ptrs
  BY <1>1 DEF Frames, Null, Wild, Ptrs
<1>3. ASSUME NEW p \in Slots PROVE p \in Nat /\ p # 0 /\ p \in 0 .. NPROC
  BY <1>1 DEF Slots
<1>4. Null \in Ptrs /\ Wild \in Ptrs /\ Null # Wild
  BY DEF Null, Wild, Ptrs
<1> QED
  BY <1>1, <1>2, <1>3, <1>4

(* The fields of what the code has made of the ring.                        *)
LEMMA LruParts ==
  ASSUME NEW l \in LruType
  PROVE  /\ l.node \in [Frames -> NodeType] /\ l.head \in Ptrs
         /\ l.head \in Frames \cup {Null} /\ l.num \in Int /\ l.word \in [Slots -> Ptrs]
         /\ \A f \in Frames : /\ l.node[f].next \in Ptrs /\ l.node[f].prev \in Ptrs
                              /\ l.node[f].pgdir \in 0 .. NPROC /\ l.node[f].vaddr \in Nat
BY Numbers DEF LruType, NodeType, Ptrs

(* An entry of pages[].                                                     *)
LEMMA NodeFields ==
  ASSUME NEW a \in Ptrs, NEW b \in Ptrs, NEW c \in 0 .. NPROC, NEW d \in Nat
  PROVE  /\ [next |-> a, prev |-> b, pgdir |-> c, vaddr |-> d] \in NodeType
         /\ NoNode \in NodeType
BY Numbers DEF NodeType, NoNode, Null

(* x->next = y                                                              *)
LEMMA SetNextIs ==
  ASSUME NEW l \in LruType, NEW x \in Ptrs, NEW y \in Ptrs
  PROVE  /\ SetNext(l, x, y) \in LruType
         /\ SetNext(l, x, y).head = l.head /\ SetNext(l, x, y).num = l.num
         /\ \A f \in Frames :
              /\ SetNext(l, x, y).node[f].next = IF f = x THEN y ELSE l.node[f].next
              /\ SetNext(l, x, y).node[f].prev = l.node[f].prev
              /\ SetNext(l, x, y).node[f].pgdir = l.node[f].pgdir
              /\ SetNext(l, x, y).node[f].vaddr = l.node[f].vaddr
<1>1. CASE x \in Frames
  <2>1. PICK m : m = [l.node EXCEPT ![x].next = y]
    OBVIOUS
  <2>2. m \in [Frames -> NodeType]
    BY <1>1, <2>1, LruParts DEF NodeType
  <2>3. SetNext(l, x, y) = [l EXCEPT !.node = m]
    BY <1>1, <2>1 DEF SetNext, LruType
  <2>4. /\ [l EXCEPT !.node = m] \in LruType /\ [l EXCEPT !.node = m].node = m
        /\ [l EXCEPT !.node = m].head = l.head /\ [l EXCEPT !.node = m].num = l.num
    BY <2>2 DEF LruType
  <2>5. ASSUME NEW f \in Frames
        PROVE  /\ m[f].next = IF f = x THEN y ELSE l.node[f].next
               /\ m[f].prev = l.node[f].prev /\ m[f].pgdir = l.node[f].pgdir
               /\ m[f].vaddr = l.node[f].vaddr
    BY <1>1, <2>1, LruParts DEF NodeType
  <2> QED
    BY <2>3, <2>4, <2>5
<1>2. CASE x \notin Frames
  BY <1>2 DEF SetNext, LruType
<1> QED
  BY <1>1, <1>2

(* x->prev = y; through a null pointer it writes to the program.            *)
LEMMA SetPrevIs ==
  ASSUME NEW l \in LruType, NEW p \in Slots, NEW x \in Ptrs, NEW y \in Ptrs
  PROVE  /\ SetPrev(l, p, x, y) \in LruType
         /\ SetPrev(l, p, x, y).head = l.head /\ SetPrev(l, p, x, y).num = l.num
         /\ \A f \in Frames :
              /\ SetPrev(l, p, x, y).node[f].prev = IF f = x THEN y ELSE l.node[f].prev
              /\ SetPrev(l, p, x, y).node[f].next = l.node[f].next
              /\ SetPrev(l, p, x, y).node[f].pgdir = l.node[f].pgdir
              /\ SetPrev(l, p, x, y).node[f].vaddr = l.node[f].vaddr
<1>1. CASE x \in Frames
  <2>1. PICK m : m = [l.node EXCEPT ![x].prev = y]
    OBVIOUS
  <2>2. m \in [Frames -> NodeType]
    BY <1>1, <2>1, LruParts DEF NodeType
  <2>3. SetPrev(l, p, x, y) = [l EXCEPT !.node = m]
    BY <1>1, <2>1 DEF SetPrev, LruType
  <2>4. /\ [l EXCEPT !.node = m] \in LruType /\ [l EXCEPT !.node = m].node = m
        /\ [l EXCEPT !.node = m].head = l.head /\ [l EXCEPT !.node = m].num = l.num
    BY <2>2 DEF LruType
  <2>5. ASSUME NEW f \in Frames
        PROVE  /\ m[f].prev = IF f = x THEN y ELSE l.node[f].prev
               /\ m[f].next = l.node[f].next /\ m[f].pgdir = l.node[f].pgdir
               /\ m[f].vaddr = l.node[f].vaddr
    BY <1>1, <2>1, LruParts DEF NodeType
  <2> QED
    BY <2>3, <2>4, <2>5
<1>2. CASE x \notin Frames /\ x # Wild
  <2>1. PICK m : m = [l.word EXCEPT ![p] = y]
    OBVIOUS
  <2>2. m \in [Slots -> Ptrs]
    BY <2>1, LruParts
  <2>3. SetPrev(l, p, x, y) = [l EXCEPT !.word = m]
    BY <1>2, <2>1 DEF SetPrev, LruType
  <2>4. /\ [l EXCEPT !.word = m] \in LruType /\ [l EXCEPT !.word = m].node = l.node
        /\ [l EXCEPT !.word = m].head = l.head /\ [l EXCEPT !.word = m].num = l.num
    BY <2>2 DEF LruType
  <2> QED
    BY <1>2, <2>3, <2>4
<1>3. CASE x = Wild
  BY <1>3, Numbers DEF SetPrev, LruType
<1> QED
  BY <1>1, <1>2, <1>3

(* prev, read through a null pointer as well.                               *)
LEMMA PrevOfType ==
  ASSUME NEW l \in LruType, NEW p \in Slots, NEW x \in Ptrs
  PROVE  PrevOf(l, p, x) \in Ptrs
BY LruParts DEF PrevOf

(* The links m, made from the links k by putting f between last and head.   *)
Appended(m, k, h, last, f) ==
  \A g \in Frames :
    /\ m[g].next = IF g = last THEN f ELSE IF g = f THEN h ELSE k[g].next
    /\ m[g].prev = IF g = h THEN f ELSE IF g = f THEN last ELSE k[g].prev
    /\ g # f => m[g].pgdir = k[g].pgdir /\ m[g].vaddr = k[g].vaddr

(* append_lru() where there is a head: the page comes before it.            *)
LEMMA AppendIs ==
  ASSUME NEW l \in LruType, NEW p \in Slots, NEW q \in Slots, NEW v \in Nat,
         NEW f \in Frames
  PROVE  /\ append_lru(l, p, q, v, f) \in LruType
         /\ append_lru(l, p, q, v, f).num = l.num + 1
         /\ append_lru(l, p, q, v, f).node[f].pgdir = q
         /\ append_lru(l, p, q, v, f).node[f].vaddr = v
         /\ l.num = 1 => /\ append_lru(l, p, q, v, f).head = f
                         /\ append_lru(l, p, q, v, f).node[f].next = f
                         /\ append_lru(l, p, q, v, f).node[f].prev = f
         /\ l.num # 1 => append_lru(l, p, q, v, f).head = l.head
         /\ l.num # 1 /\ l.head \in Frames =>
              Appended(append_lru(l, p, q, v, f).node, l.node, l.head,
                       l.node[l.head].prev, f)
<1>1. PICK last \in Ptrs : last = PrevOf(l, p, l.head)
  BY LruParts, PrevOfType
<1>2. PICK x : x = [next |-> l.head, prev |-> last, pgdir |-> q, vaddr |-> v]
  OBVIOUS
<1>3. x \in NodeType /\ x.next = l.head /\ x.prev = last /\ x.pgdir = q /\ x.vaddr = v
  BY <1>1, <1>2, NodeFields, LruParts, Numbers
<1>4. PICK new : new = [l EXCEPT !.node[f] = x, !.num = @ + 1]
  OBVIOUS
<1>5. /\ new \in LruType /\ new.head = l.head /\ new.num = l.num + 1
      /\ new.node = [l.node EXCEPT ![f] = x]
  <2>1. [l.node EXCEPT ![f] = x] \in [Frames -> NodeType] /\ l.num + 1 \in Int
    BY <1>3, LruParts
  <2>2. new = [l EXCEPT !.node = [l.node EXCEPT ![f] = x], !.num = l.num + 1]
    BY <1>4
  <2> QED
    BY <2>1, <2>2 DEF LruType
<1>6. \A g \in Frames : new.node[g] = IF g = f THEN x ELSE l.node[g]
  BY <1>5, LruParts
<1>7. append_lru(l, p, q, v, f) =
        IF l.num = 1
        THEN [new EXCEPT !.head = f, !.node[f].next = f, !.node[f].prev = f]
        ELSE SetPrev(SetNext(new, last, f), p, l.head, f)
  BY <1>1, <1>2, <1>4 DEF append_lru
<1>8. CASE l.num = 1
  <2>1. PICK y : y = [x EXCEPT !.next = f, !.prev = f]
    OBVIOUS
  <2>2. y \in NodeType /\ y.next = f /\ y.prev = f /\ y.pgdir = q /\ y.vaddr = v
    BY <1>3, <2>1, Numbers DEF NodeType
  <2>3. PICK m : m = [new.node EXCEPT ![f] = y]
    OBVIOUS
  <2>4. m \in [Frames -> NodeType] /\ m[f] = y
    BY <1>5, <2>2, <2>3, LruParts
  <2>5. new.node[f] = x /\ new \in LruType /\ f \in Frames \cup {Null}
    BY <1>5, <1>6
  <2>6. PICK z : z = [new EXCEPT !.head = f, !.node[f].next = f, !.node[f].prev = f]
    OBVIOUS
  <2>7. z.head = f /\ z.num = new.num /\ z.node = [new.node EXCEPT ![f] = y]
    BY <1>3, <2>1, <2>5, <2>6 DEF LruType, NodeType
  <2>8. z \in LruType
    BY <2>3, <2>4, <2>5, <2>6, <2>7 DEF LruType
  <2>9. append_lru(l, p, q, v, f) = z
    BY <1>7, <1>8, <2>6
  <2> QED
    BY <1>5, <1>8, <2>2, <2>3, <2>4, <2>7, <2>8, <2>9
<1>9. CASE l.num # 1
  <2>0. f \in Ptrs /\ l.head \in Ptrs /\ new \in LruType
    BY <1>5, Numbers, LruParts
  <2>1. PICK a : a = SetNext(new, last, f)
    OBVIOUS
  <2>2. PICK b : b = SetPrev(a, p, l.head, f)
    OBVIOUS
  <2>3. append_lru(l, p, q, v, f) = b
    BY <1>7, <1>9, <2>1, <2>2
  <2>4. /\ a \in LruType /\ a.head = new.head /\ a.num = new.num
        /\ \A g \in Frames :
             /\ a.node[g].next = IF g = last THEN f ELSE new.node[g].next
             /\ a.node[g].prev = new.node[g].prev
             /\ a.node[g].pgdir = new.node[g].pgdir /\ a.node[g].vaddr = new.node[g].vaddr
    <3>1. /\ SetNext(new, last, f) \in LruType
          /\ SetNext(new, last, f).head = new.head /\ SetNext(new, last, f).num = new.num
      BY <2>0, SetNextIs
    <3>2. ASSUME NEW g \in Frames
          PROVE /\ SetNext(new, last, f).node[g].next = IF g = last THEN f ELSE new.node[g].next
                /\ SetNext(new, last, f).node[g].prev = new.node[g].prev
                /\ SetNext(new, last, f).node[g].pgdir = new.node[g].pgdir
                /\ SetNext(new, last, f).node[g].vaddr = new.node[g].vaddr
      BY <2>0, SetNextIs
    <3> QED
      BY <2>1, <3>1, <3>2
  <2>5. /\ b \in LruType /\ b.head = a.head /\ b.num = a.num
        /\ \A g \in Frames :
             /\ b.node[g].prev = IF g = l.head THEN f ELSE a.node[g].prev
             /\ b.node[g].next = a.node[g].next
             /\ b.node[g].pgdir = a.node[g].pgdir /\ b.node[g].vaddr = a.node[g].vaddr
    <3>1. a \in LruType
      BY <2>4
    <3>2. PICK h \in Ptrs : h = l.head
      BY <2>0
    <3>3. /\ SetPrev(a, p, h, f) \in LruType
          /\ SetPrev(a, p, h, f).head = a.head /\ SetPrev(a, p, h, f).num = a.num
      BY <2>0, <3>1, SetPrevIs
    <3>4. ASSUME NEW g \in Frames
          PROVE /\ SetPrev(a, p, h, f).node[g].prev = IF g = h THEN f ELSE a.node[g].prev
                /\ SetPrev(a, p, h, f).node[g].next = a.node[g].next
                /\ SetPrev(a, p, h, f).node[g].pgdir = a.node[g].pgdir
                /\ SetPrev(a, p, h, f).node[g].vaddr = a.node[g].vaddr
      BY <2>0, <3>1, SetPrevIs
    <3> QED
      BY <2>2, <3>2, <3>3, <3>4
  <2>6. l.head \in Frames => last = l.node[l.head].prev
    BY <1>1 DEF PrevOf
  <2>7. Appended(b.node, l.node, l.head, last, f)
    BY <1>3, <1>6, <2>4, <2>5 DEF Appended
  <2>8. b.node[f].pgdir = q /\ b.node[f].vaddr = v
    BY <1>3, <1>6, <2>4, <2>5
  <2> QED
    BY <1>5, <1>9, <2>3, <2>4, <2>5, <2>6, <2>7, <2>8
<1> QED
  BY <1>8, <1>9

(* The links m, made from the links k by taking f out between y and x.      *)
Popped(m, k, x, y, f) ==
  \A g \in Frames : g # f =>
    /\ m[g].next = IF g = y THEN x ELSE k[g].next
    /\ m[g].prev = IF g = x THEN y ELSE k[g].prev
    /\ m[g].pgdir = k[g].pgdir /\ m[g].vaddr = k[g].vaddr

(* pop_lru() of the head and of another page.                               *)
LEMMA PopIs ==
  ASSUME NEW l \in LruType, NEW p \in Slots, NEW f \in Frames
  PROVE  /\ pop_lru(l, p, f) \in LruType /\ pop_lru(l, p, f).num = l.num - 1
         /\ pop_lru(l, p, f).head = IF f = l.head THEN Null ELSE l.head
         /\ f # l.head =>
              Popped(pop_lru(l, p, f).node, l.node, l.node[f].next, l.node[f].prev, f)
<1>1. CASE f = l.head
  <2>1. PICK z : z = [l EXCEPT !.head = Null, !.num = @ - 1]
    OBVIOUS
  <2>2. l.num - 1 \in Int /\ Null \in Frames \cup {Null}
    BY LruParts
  <2>3. z.head = Null /\ z.num = l.num - 1 /\ z \in LruType
    BY <2>1, <2>2 DEF LruType
  <2> QED
    BY <1>1, <2>1, <2>3 DEF pop_lru
<1>2. CASE f # l.head
  <2>1. PICK n \in NodeType : n = l.node[f]
    BY LruParts
  <2>2. n.next \in Ptrs /\ n.prev \in Ptrs
    BY DEF NodeType
  <2>3. PICK a : a = SetNext(l, n.prev, n.next)
    OBVIOUS
  <2>4. PICK b : b = SetPrev(a, p, n.next, n.prev)
    OBVIOUS
  <2>5. /\ a \in LruType /\ a.head = l.head /\ a.num = l.num
        /\ \A g \in Frames :
             /\ a.node[g].next = IF g = n.prev THEN n.next ELSE l.node[g].next
             /\ a.node[g].prev = l.node[g].prev
             /\ a.node[g].pgdir = l.node[g].pgdir /\ a.node[g].vaddr = l.node[g].vaddr
    BY <2>2, <2>3, SetNextIs
  <2>6. /\ b \in LruType /\ b.head = l.head /\ b.num = l.num
        /\ \A g \in Frames :
             /\ b.node[g].prev = IF g = n.next THEN n.prev ELSE a.node[g].prev
             /\ b.node[g].next = a.node[g].next
             /\ b.node[g].pgdir = a.node[g].pgdir /\ b.node[g].vaddr = a.node[g].vaddr
    BY <2>2, <2>4, <2>5, SetPrevIs
  <2>7. pop_lru(l, p, f) = [b EXCEPT !.node[f] = NoNode, !.num = @ - 1]
    BY <1>2, <2>1, <2>3, <2>4 DEF pop_lru
  <2>8. PICK m : m = [b.node EXCEPT ![f] = NoNode]
    OBVIOUS
  <2>9. NoNode \in NodeType
    BY Numbers DEF NoNode, NodeType, Null
  <2>10. m \in [Frames -> NodeType] /\ \A g \in Frames : g # f => m[g] = b.node[g]
    BY <2>6, <2>8, <2>9, LruParts
  <2>11. b.num - 1 \in Int /\ b.node \in [Frames -> NodeType]
    BY <2>6, LruParts
  <2>12. PICK z : z = [b EXCEPT !.node[f] = NoNode, !.num = @ - 1]
    OBVIOUS
  <2>13. z.node = m /\ z.num = b.num - 1 /\ z.head = b.head
    BY <2>6, <2>8, <2>12 DEF LruType
  <2>14. z \in LruType
    BY <2>6, <2>8, <2>10, <2>11, <2>12 DEF LruType
  <2>15. pop_lru(l, p, f) = z
    BY <2>7, <2>12
  <2> QED
    <3>1. Popped(m, l.node, n.next, n.prev, f)
      BY <2>5, <2>6, <2>10 DEF Popped
    <3> QED
      BY <1>2, <2>1, <2>5, <2>6, <2>13, <2>14, <2>15, <3>1
<1> QED
  BY <1>1, <1>2

(* What deallocuvm() does to the ring for one page.                         *)
LEMMA DropType ==
  ASSUME NEW l \in LruType, NEW p \in Slots, NEW q, NEW v, NEW f \in Frames
  PROVE  Drop(l, p, q, v, f) \in LruType
BY PopIs DEF Drop
-----------------------------------------------------------------------------
(* What the recursive definitions compute, turn by turn.                    *)

(* The walk along next.                                                     *)
LEMMA AtIs ==
  ASSUME NEW l \in LruType
  PROVE  \E a \in [0 .. NFRAME -> Ptrs] :
           /\ \A k \in 0 .. NFRAME : At(l, k) = a[k]
           /\ a[0] = l.head
           /\ \A k \in 1 .. NFRAME :
                a[k] = IF a[k - 1] \in Frames THEN l.node[a[k - 1]].next ELSE Null
<1> DEFINE A == CHOOSE at : at = [i \in 0 .. NFRAME |->
                  IF i = 0 THEN l.head
                  ELSE IF at[i - 1] \in Frames THEN l.node[at[i - 1]].next ELSE Null]
<1>1. \A k : At(l, k) = A[k]
  BY DEF At
<1> DEFINE F == [x \in Ptrs |-> IF x \in Frames THEN l.node[x].next ELSE Null]
<1>2. F \in [Ptrs -> Ptrs]
  BY LruParts, Numbers
<1> DEFINE G == [k \in 0 + 1 .. NFRAME |-> F]
<1>3. G \in [0 + 1 .. NFRAME -> [Ptrs -> Ptrs]]
  BY <1>2
<1>4. l.head \in Ptrs /\ 0 \in Int /\ NFRAME \in Int /\ 0 <= NFRAME
  BY LruParts, Numbers
<1>5. LoopValues(Ptrs, l.head, G, 0, NFRAME) # {}
  <2> HIDE DEF G
  <2> QED
    BY <1>3, <1>4, LoopExists
<1>6. PICK h : h \in LoopValues(Ptrs, l.head, G, 0, NFRAME)
  BY <1>5
<1>7. /\ h \in [0 .. NFRAME -> Ptrs]
      /\ \A v \in 0 .. NFRAME : h[v] = IF v = 0 THEN l.head ELSE G[v][h[v - 1]]
  BY <1>6 DEF LoopValues
<1>8. ASSUME NEW v \in 0 .. NFRAME
      PROVE  h[v] = IF v = 0 THEN l.head
                    ELSE IF h[v - 1] \in Frames THEN l.node[h[v - 1]].next ELSE Null
  <2>1. CASE v # 0
    <3>1. v \in 0 + 1 .. NFRAME /\ v - 1 \in 0 .. NFRAME
      BY <2>1, <1>4
    <3>2. h[v - 1] \in Ptrs
      BY <3>1, <1>7
    <3>3. h[v] = F[h[v - 1]]
      BY <3>1, <2>1, <1>7
    <3> QED
      BY <3>2, <3>3, <2>1
  <2> QED
    BY <2>1, <1>7
<1>9. h = [i \in 0 .. NFRAME |->
             IF i = 0 THEN l.head
             ELSE IF h[i - 1] \in Frames THEN l.node[h[i - 1]].next ELSE Null]
  BY <1>7, <1>8
<1>10. A = [i \in 0 .. NFRAME |->
             IF i = 0 THEN l.head
             ELSE IF A[i - 1] \in Frames THEN l.node[A[i - 1]].next ELSE Null]
  BY <1>9, Zenon
<1> HIDE DEF A, G, F
<1>11. \A k \in 0 .. NFRAME :
         A[k] = IF k = 0 THEN l.head
                ELSE IF A[k - 1] \in Frames THEN l.node[A[k - 1]].next ELSE Null
  BY <1>10
<1>12. ASSUME NEW k \in 0 .. NFRAME PROVE A[k] \in Ptrs
  <2>1. CASE k = 0
    BY <1>4, <1>11, <2>1
  <2>2. CASE k # 0
    BY <1>11, <2>2, LruParts, Numbers
  <2> QED
    BY <2>1, <2>2
<1>13. A \in [0 .. NFRAME -> Ptrs]
  <2>1. A = [i \in 0 .. NFRAME |-> A[i]]
    BY <1>10
  <2> QED
    BY <1>12, <2>1
<1>14. \A k \in 1 .. NFRAME : k \in 0 .. NFRAME /\ k # 0
  BY <1>4
<1>15. 0 \in 0 .. NFRAME
  BY <1>4
<1> QED
  BY <1>1, <1>11, <1>13, <1>14, <1>15

(* The turns of deallocuvm()'s loop over the pages.                         *)
Drops(l, p, q, t, lo, hi) ==
  {a \in [lo - 1 .. hi -> LruType] :
     /\ a[lo - 1] = l /\ DropAll(l, p, q, t, lo, hi) = a[hi]
     /\ \A v \in lo .. hi : a[v] = Drop(a[v - 1], p, q, v, t[v])}

(* The loop of deallocuvm() runs to its end.                                *)
LEMMA DropAllIs ==
  ASSUME NEW l \in LruType, NEW p \in Slots, NEW q, NEW t,
         NEW lo \in Int, NEW hi \in Int, lo - 1 <= hi,
         \A v \in lo .. hi : t[v] \in Frames
  PROVE  Drops(l, p, q, t, lo, hi) # {}
<1> DEFINE A == CHOOSE step : step = [v \in lo - 1 .. hi |->
                  IF v < lo THEN l ELSE Drop(step[v - 1], p, q, v, t[v])]
<1>1. DropAll(l, p, q, t, lo, hi) = A[hi]
  BY DEF DropAll
<1> DEFINE G == [v \in (lo - 1) + 1 .. hi |-> [x \in LruType |-> Drop(x, p, q, v, t[v])]]
<1>2. G \in [(lo - 1) + 1 .. hi -> [LruType -> LruType]]
  <2>1. (lo - 1) + 1 = lo
    OBVIOUS
  <2>2. ASSUME NEW v \in (lo - 1) + 1 .. hi, NEW x \in LruType
        PROVE  Drop(x, p, q, v, t[v]) \in LruType
    <3>1. t[v] \in Frames
      BY <2>1
    <3> QED
      BY <3>1, DropType
  <2> QED
    BY <2>2
<1>3. LoopValues(LruType, l, G, lo - 1, hi) # {}
  <2> HIDE DEF G
  <2>1. lo - 1 \in Int
    OBVIOUS
  <2> QED
    BY <1>2, <2>1, LoopExists
<1>4. PICK h : h \in LoopValues(LruType, l, G, lo - 1, hi)
  BY <1>3
<1>5. /\ h \in [lo - 1 .. hi -> LruType]
      /\ \A v \in lo - 1 .. hi : h[v] = IF v = lo - 1 THEN l ELSE G[v][h[v - 1]]
  BY <1>4 DEF LoopValues
<1>6. ASSUME NEW v \in lo - 1 .. hi
      PROVE  h[v] = IF v < lo THEN l ELSE Drop(h[v - 1], p, q, v, t[v])
  <2>1. CASE v < lo
    <3>1. v = lo - 1
      BY <2>1
    <3> QED
      BY <1>5, <2>1, <3>1
  <2>2. CASE ~(v < lo)
    <3>1. v # lo - 1 /\ v \in (lo - 1) + 1 .. hi /\ v - 1 \in lo - 1 .. hi
      BY <2>2
    <3>2. h[v - 1] \in LruType /\ h[v] = G[v][h[v - 1]]
      BY <1>5, <3>1
    <3>3. G[v][h[v - 1]] = Drop(h[v - 1], p, q, v, t[v])
      BY <3>1, <3>2
    <3> QED
      BY <2>2, <3>2, <3>3
  <2> QED
    BY <2>1, <2>2
<1>7. h = [v \in lo - 1 .. hi |-> IF v < lo THEN l ELSE Drop(h[v - 1], p, q, v, t[v])]
  BY <1>5, <1>6
<1>8. A = [v \in lo - 1 .. hi |-> IF v < lo THEN l ELSE Drop(A[v - 1], p, q, v, t[v])]
  BY <1>7, Zenon
<1> HIDE DEF A, G
<1>9. \A v \in lo - 1 .. hi : A[v] = IF v < lo THEN l ELSE Drop(A[v - 1], p, q, v, t[v])
  BY <1>8
<1> DEFINE B == {k \in Nat : (lo - 1) + k <= hi /\ A[(lo - 1) + k] \notin LruType}
<1>10. B = {}
  <2> SUFFICES ASSUME B # {} PROVE FALSE
    OBVIOUS
  <2>1. PICK k \in B : \A m \in B : k <= m
    BY LeastNumber
  <2>2. CASE k = 0
    <3>1. A[lo - 1] = l
      <4>1. lo - 1 \in lo - 1 .. hi /\ lo - 1 < lo
        OBVIOUS
      <4> QED
        BY <1>9, <4>1
    <3>2. (lo - 1) + 0 = lo - 1
      OBVIOUS
    <3> QED
      BY <2>1, <2>2, <3>1, <3>2
  <2>3. CASE k # 0
    <3>1. PICK v \in lo .. hi : v = (lo - 1) + k
      BY <2>1, <2>3
    <3>2. k - 1 \in Nat /\ (lo - 1) + (k - 1) = v - 1 /\ v - 1 <= hi /\ k - 1 \notin B
      BY <2>1, <2>3, <3>1
    <3>3. A[v - 1] \in LruType
      BY <3>2
    <3>4. A[v] = Drop(A[v - 1], p, q, v, t[v])
      <4>1. v \in lo - 1 .. hi /\ ~(v < lo)
        OBVIOUS
      <4> QED
        BY <1>9, <4>1
    <3> QED
      BY <2>1, <3>1, <3>3, <3>4, DropType
  <2> QED
    BY <2>2, <2>3
<1>11. \A v \in lo - 1 .. hi : A[v] \in LruType
  <2> TAKE v \in lo - 1 .. hi
  <2>1. v - (lo - 1) \in Nat /\ (lo - 1) + (v - (lo - 1)) = v /\ v <= hi
    OBVIOUS
  <2>2. v - (lo - 1) \notin B
    BY <1>10
  <2> QED
    BY <2>1, <2>2
<1>12. A \in [lo - 1 .. hi -> LruType]
  <2>1. A = [v \in lo - 1 .. hi |-> A[v]]
    BY <1>8
  <2> QED
    BY <1>11, <2>1
<1>13. A[lo - 1] = l
  <2>1. lo - 1 \in lo - 1 .. hi /\ lo - 1 < lo
    OBVIOUS
  <2> QED
    BY <1>9, <2>1
<1>14. \A v \in lo .. hi : A[v] = Drop(A[v - 1], p, q, v, t[v])
  <2> TAKE v \in lo .. hi
  <2>1. v \in lo - 1 .. hi /\ ~(v < lo)
    OBVIOUS
  <2> QED
    BY <1>9, <2>1
<1> QED
  BY <1>1, <1>12, <1>13, <1>14 DEF Drops

(* The turns of copyuvm()'s loop over the pages.                            *)
Copies(l, p, q, m) ==
  {a \in [0 .. m -> LruType] :
     /\ a[0] = l /\ CopyAll(l, p, q, m) = a[m]
     /\ \A k \in 1 .. m : a[k] = append_lru(a[k - 1], p, q, k - 1, Nth(k - 1))}

(* The loop of copyuvm() runs to its end.                                   *)
LEMMA CopyAllIs ==
  ASSUME NEW l \in LruType, NEW p \in Slots, NEW q \in Slots, NEW m \in Nat,
         \A k \in 0 .. m - 1 : Nth(k) \in Frames
  PROVE  Copies(l, p, q, m) # {}
<1> DEFINE A == CHOOSE step : step = [k \in 0 .. m |->
                  IF k = 0 THEN l ELSE append_lru(step[k - 1], p, q, k - 1, Nth(k - 1))]
<1>1. CopyAll(l, p, q, m) = A[m]
  BY DEF CopyAll
<1> DEFINE G == [k \in 0 + 1 .. m |->
                   [x \in LruType |-> append_lru(x, p, q, k - 1, Nth(k - 1))]]
<1>0. ASSUME NEW k \in 1 .. m, NEW x \in LruType
      PROVE  append_lru(x, p, q, k - 1, Nth(k - 1)) \in LruType
  <2>1. k - 1 \in Nat /\ k - 1 \in 0 .. m - 1
    OBVIOUS
  <2>2. Nth(k - 1) \in Frames
    BY <2>1
  <2> QED
    BY <2>1, <2>2, AppendIs
<1>2. G \in [0 + 1 .. m -> [LruType -> LruType]]
  BY <1>0
<1>3. LoopValues(LruType, l, G, 0, m) # {}
  <2> HIDE DEF G
  <2>1. 0 \in Int /\ m \in Int /\ 0 <= m
    OBVIOUS
  <2> QED
    BY <1>2, <2>1, LoopExists
<1>4. PICK h : h \in LoopValues(LruType, l, G, 0, m)
  BY <1>3
<1>5. /\ h \in [0 .. m -> LruType]
      /\ \A v \in 0 .. m : h[v] = IF v = 0 THEN l ELSE G[v][h[v - 1]]
  BY <1>4 DEF LoopValues
<1>6. ASSUME NEW k \in 0 .. m
      PROVE  h[k] = IF k = 0 THEN l ELSE append_lru(h[k - 1], p, q, k - 1, Nth(k - 1))
  <2>1. CASE k = 0
    BY <1>5, <2>1
  <2>2. CASE k # 0
    <3>1. k \in 0 + 1 .. m /\ k - 1 \in 0 .. m
      BY <2>2
    <3>2. h[k - 1] \in LruType /\ h[k] = G[k][h[k - 1]]
      BY <1>5, <2>2, <3>1
    <3>3. G[k][h[k - 1]] = append_lru(h[k - 1], p, q, k - 1, Nth(k - 1))
      BY <3>1, <3>2
    <3> QED
      BY <2>2, <3>2, <3>3
  <2> QED
    BY <2>1, <2>2
<1>7. h = [k \in 0 .. m |->
             IF k = 0 THEN l ELSE append_lru(h[k - 1], p, q, k - 1, Nth(k - 1))]
  BY <1>5, <1>6
<1>8. A = [k \in 0 .. m |->
             IF k = 0 THEN l ELSE append_lru(A[k - 1], p, q, k - 1, Nth(k - 1))]
  BY <1>7, Zenon
<1> HIDE DEF A, G
<1>9. \A k \in 0 .. m :
        A[k] = IF k = 0 THEN l ELSE append_lru(A[k - 1], p, q, k - 1, Nth(k - 1))
  BY <1>8
<1> DEFINE B == {k \in 0 .. m : A[k] \notin LruType}
<1>10. B = {}
  <2> SUFFICES ASSUME B # {} PROVE FALSE
    OBVIOUS
  <2>1. PICK k \in B : \A j \in B : k <= j
    <3>1. B \subseteq Nat
      OBVIOUS
    <3> QED
      BY <3>1, LeastNumber
  <2>2. k # 0
    BY <1>9, <2>1
  <2>3. k \in 1 .. m /\ k - 1 \in 0 .. m /\ k - 1 \notin B
    BY <2>1, <2>2
  <2>4. A[k - 1] \in LruType
    BY <2>3
  <2>5. A[k] = append_lru(A[k - 1], p, q, k - 1, Nth(k - 1))
    BY <1>9, <2>2, <2>1
  <2> QED
    BY <1>0, <2>1, <2>3, <2>4, <2>5
<1>11. A \in [0 .. m -> LruType]
  <2>1. A = [v \in 0 .. m |-> A[v]]
    BY <1>8
  <2> QED
    BY <1>10, <2>1
<1>12. A[0] = l
  BY <1>9
<1>13. \A k \in 1 .. m : A[k] = append_lru(A[k - 1], p, q, k - 1, Nth(k - 1))
  <2> TAKE k \in 1 .. m
  <2>1. k \in 0 .. m /\ k # 0
    OBVIOUS
  <2> QED
    BY <1>9, <2>1
<1> QED
  BY <1>1, <1>11, <1>12, <1>13 DEF Copies
-----------------------------------------------------------------------------
(* Rings.                                                                   *)

(* A ring has no more pages than there are frames.                          *)
LEMMA RingSize ==
  ASSUME NEW l, NEW n \in Nat \ {0}, NEW s \in [0 .. n -> Frames], IsRing(l, s, n)
  PROVE  n <= NFRAME
<1> SUFFICES ASSUME ~(n <= NFRAME) PROVE FALSE
  OBVIOUS
<1>1. NFRAME \in Nat /\ NFRAME < n
  BY Numbers
<1>2. IsFiniteSet(0 .. n - 1) /\ Cardinality(0 .. n - 1) = n
  <2>1. 0 \in Int /\ n - 1 \in Int /\ ~(0 > n - 1) /\ (n - 1) - 0 + 1 = n
    OBVIOUS
  <2> QED
    BY <2>1, FS_Interval
<1>3. IsFiniteSet(Frames) /\ Cardinality(Frames) = NFRAME
  <2>1. 1 \in Int /\ NFRAME \in Int /\ ~(1 > NFRAME) /\ NFRAME - 1 + 1 = NFRAME
    BY Numbers
  <2> QED
    BY <2>1, FS_Interval DEF Frames
<1> DEFINE g == [i \in 0 .. n - 1 |-> s[i]]
<1>4. g \in [0 .. n - 1 -> Frames]
  OBVIOUS
<1>5. \E i, j \in 0 .. n - 1 : i # j /\ g[i] = g[j]
  <2> HIDE DEF g
  <2> QED
    BY <1>1, <1>2, <1>3, <1>4, FS_PigeonHole
<1> QED
  BY <1>5 DEF IsRing

(* Following next from the head goes round the ring.                        *)
LEMMA RingWalk ==
  ASSUME NEW l \in LruType, NEW n \in Nat \ {0}, NEW s \in [0 .. n -> Frames],
         IsRing(l, s, n)
  PROVE  /\ \A k \in 0 .. n - 1 : At(l, k) = s[k]
         /\ \A k \in 0 .. NFRAME : \E i \in 0 .. n - 1 : At(l, k) = s[i]
<1>1. PICK a \in [0 .. NFRAME -> Ptrs] :
        /\ \A k \in 0 .. NFRAME : At(l, k) = a[k]
        /\ a[0] = l.head
        /\ \A k \in 1 .. NFRAME :
             a[k] = IF a[k - 1] \in Frames THEN l.node[a[k - 1]].next ELSE Null
  BY AtIs
<1>2. n <= NFRAME /\ NFRAME \in Nat
  BY RingSize, Numbers
<1>3. s[0] = a[0] /\ s[n] = a[0] /\ \A i \in 0 .. n - 1 : l.node[s[i]].next = s[i + 1]
  BY <1>1 DEF IsRing
<1>4. \A k \in 0 .. n - 1 : a[k] = s[k]
  <2> DEFINE B == {k \in 0 .. n - 1 : a[k] # s[k]}
  <2> SUFFICES ASSUME B # {} PROVE FALSE
    OBVIOUS
  <2>1. PICK k \in B : \A j \in B : k <= j
    <3>1. B \subseteq Nat
      OBVIOUS
    <3> QED
      BY <3>1, LeastNumber
  <2>2. k # 0
    BY <1>3, <2>1
  <2>3. k \in 1 .. NFRAME /\ k - 1 \in 0 .. n - 1 /\ k - 1 \notin B /\ k - 1 + 1 = k
    BY <1>2, <2>1, <2>2
  <2>4. a[k - 1] = s[k - 1] /\ s[k - 1] \in Frames
    BY <2>3
  <2>5. a[k] = l.node[a[k - 1]].next
    BY <1>1, <2>3, <2>4
  <2> QED
    BY <1>3, <2>1, <2>3, <2>4, <2>5
<1>5. \A k \in 0 .. NFRAME : \E i \in 0 .. n - 1 : a[k] = s[i]
  <2> DEFINE B == {k \in 0 .. NFRAME : ~ \E i \in 0 .. n - 1 : a[k] = s[i]}
  <2> SUFFICES ASSUME B # {} PROVE FALSE
    OBVIOUS
  <2>1. PICK k \in B : \A j \in B : k <= j
    <3>1. B \subseteq Nat
      BY <1>2
    <3> QED
      BY <3>1, LeastNumber
  <2>2. k # 0
    <3>1. 0 \in 0 .. n - 1
      OBVIOUS
    <3> QED
      BY <1>3, <2>1, <3>1
  <2>3. k \in 1 .. NFRAME /\ k - 1 \in 0 .. NFRAME /\ k - 1 \notin B
    BY <1>2, <2>1, <2>2
  <2>4. PICK i \in 0 .. n - 1 : a[k - 1] = s[i]
    BY <2>3
  <2>5. a[k] = s[i + 1]
    <3>1. s[i] \in Frames
      OBVIOUS
    <3> QED
      BY <1>1, <1>3, <2>3, <2>4, <3>1
  <2>6. CASE i + 1 = n
    <3>1. 0 \in 0 .. n - 1 /\ a[k] = s[0]
      BY <1>3, <2>5, <2>6
    <3> QED
      BY <2>1, <3>1
  <2>7. CASE i + 1 # n
    <3>1. i + 1 \in 0 .. n - 1
      BY <2>7
    <3> QED
      BY <2>1, <2>5, <3>1
  <2> QED
    BY <2>6, <2>7
<1>6. \A k \in 0 .. n - 1 : k \in 0 .. NFRAME
  BY <1>2
<1> QED
  BY <1>1, <1>4, <1>5, <1>6

(* deallocuvm() meets exactly the pages of the ring.                        *)
LEMMA RingSearch ==
  ASSUME NEW l \in LruType, NEW n \in Nat \ {0}, NEW s \in [0 .. n -> Frames],
         IsRing(l, s, n), NEW q, NEW v
  PROVE  InRing(l, q, v) <=> \E i \in 0 .. n - 1 : /\ l.node[s[i]].pgdir = q
                                                    /\ l.node[s[i]].vaddr = v
<1>1. n <= NFRAME /\ NFRAME \in Nat
  BY RingSize, Numbers
<1>2. ASSUME InRing(l, q, v)
      PROVE  \E i \in 0 .. n - 1 : l.node[s[i]].pgdir = q /\ l.node[s[i]].vaddr = v
  <2>1. PICK k \in 0 .. NFRAME - 1 : /\ l.node[At(l, k)].pgdir = q
                                     /\ l.node[At(l, k)].vaddr = v
    BY <1>2 DEF InRing
  <2>2. k \in 0 .. NFRAME
    BY <1>1
  <2>3. PICK i \in 0 .. n - 1 : At(l, k) = s[i]
    BY <2>2, RingWalk
  <2> QED
    BY <2>1, <2>3
<1>3. ASSUME NEW i \in 0 .. n - 1, l.node[s[i]].pgdir = q, l.node[s[i]].vaddr = v
      PROVE  InRing(l, q, v)
  <2>1. \A k \in 0 .. n - 1 : At(l, k) = s[k]
    BY RingWalk
  <2>2. i \in 0 .. NFRAME - 1
    BY <1>1
  <2>3. ASSUME NEW k \in 0 .. i PROVE At(l, k) \in Frames
    <3>1. k \in 0 .. n - 1 /\ k \in 0 .. n
      OBVIOUS
    <3> QED
      BY <2>1, <3>1
  <2>4. ASSUME NEW k \in 1 .. i PROVE At(l, k) # l.head
    <3>1. k \in 0 .. n - 1 /\ 0 \in 0 .. n - 1 /\ k # 0
      OBVIOUS
    <3>2. s[k] # s[0] /\ s[0] = l.head
      BY <3>1 DEF IsRing
    <3> QED
      BY <2>1, <3>1, <3>2
  <2>5. l.node[At(l, i)].pgdir = q /\ l.node[At(l, i)].vaddr = v
    BY <1>3, <2>1
  <2> QED
    BY <2>2, <2>3, <2>4, <2>5 DEF InRing
<1> QED
  BY <1>2, <1>3

(* Without a head it meets none.                                            *)
LEMMA NoRing ==
  ASSUME NEW l \in LruType, l.head = Null, NEW q, NEW v
  PROVE  ~InRing(l, q, v)
<1> SUFFICES ASSUME InRing(l, q, v) PROVE FALSE
  OBVIOUS
<1>1. PICK k \in 0 .. NFRAME - 1 : \A i \in 0 .. k : At(l, i) \in Frames
  BY DEF InRing
<1>2. 0 \in 0 .. k /\ 0 \in 0 .. NFRAME
  BY Numbers
<1>3. At(l, 0) = Null
  BY <1>2, AtIs
<1> QED
  BY <1>1, <1>2, <1>3, Numbers
(* Only the first and the last of the n + 1 pages coincide.                 *)
LEMMA RingApart ==
  ASSUME NEW l, NEW n \in Nat \ {0}, NEW s \in [0 .. n -> Frames], IsRing(l, s, n),
         NEW i \in 0 .. n, NEW j \in 0 .. n, i < j, i # 0 \/ j # n
  PROVE  s[i] # s[j]
<1>1. CASE j # n
  BY <1>1 DEF IsRing
<1>2. CASE j = n
  <2>1. i \in 0 .. n - 1 /\ 0 \in 0 .. n - 1 /\ i # 0
    BY <1>2
  <2>2. s[j] = s[0]
    BY <1>2 DEF IsRing
  <2> QED
    BY <2>1, <2>2 DEF IsRing
<1> QED
  BY <1>1, <1>2

(* A witness of a good ring.                                                *)
LEMMA GoodRing ==
  ASSUME NEW l, NEW t, NEW q, NEW lo, NEW hi,
         NEW n \in Nat \ {0}, NEW s \in [0 .. n -> Frames], IsRing(l, s, n), l.num > n,
         \A i \in 0 .. n - 1 : Placed(l.node[s[i]], s[i], t, q, lo, hi)
  PROVE  Good(l, t, q, lo, hi)
BY DEF Good

(* Page v of q enters the ring in front of the head.                        *)
LEMMA AppendGood ==
  ASSUME NEW l \in LruType, NEW p \in Slots, NEW q \in Slots, NEW t, Apart(t),
         NEW v \in Nat, NEW hi \in Int, v < hi, v \in DOMAIN t[q],
         NEW f \in Frames, f = t[q][v], Good(l, t, q, v, hi)
  PROVE  Good(append_lru(l, p, q, v, f), t, q, v + 1, hi)
<1> DEFINE r == append_lru(l, p, q, v, f)
<1> SUFFICES Good(r, t, q, v + 1, hi)
  OBVIOUS
<1>1. /\ r \in LruType /\ r.num = l.num + 1 /\ l.num \in Int
      /\ r.node[f].pgdir = q /\ r.node[f].vaddr = v
      /\ l.num = 1 => r.head = f /\ r.node[f].next = f /\ r.node[f].prev = f
      /\ l.num # 1 => r.head = l.head
  <2>1. l.num \in Int
    BY LruParts
  <2> QED
    BY <2>1, AppendIs
<1>2. Placed(r.node[f], f, t, q, v + 1, hi)
  BY <1>1 DEF Placed
<1>3. CASE l.head = Null
  <2>1. CASE l.num = 1
    <3> DEFINE s == [i \in 0 .. 1 |-> f]
    <3>1. s \in [0 .. 1 -> Frames] /\ s[0] = f /\ s[1] = f
      OBVIOUS
    <3> HIDE DEF s, r
    <3>2. \A i \in 0 .. 1 - 1 : i = 0 /\ i + 1 = 1
      OBVIOUS
    <3>3. IsRing(r, s, 1)
      BY <1>1, <2>1, <3>1, <3>2 DEF IsRing
    <3>4. r.num > 1
      BY <1>1, <2>1
    <3>5. \A i \in 0 .. 1 - 1 : Placed(r.node[s[i]], s[i], t, q, v + 1, hi)
      BY <1>2, <3>1, <3>2
    <3>6. 1 \in Nat \ {0}
      OBVIOUS
    <3> QED
      BY <3>1, <3>3, <3>4, <3>5, <3>6, GoodRing
  <2>2. CASE l.num # 1
    BY <1>1, <1>3, <2>2 DEF Good
  <2> QED
    BY <2>1, <2>2
<1>4. CASE l.head # Null
  <2>1. PICK n \in Nat \ {0} : \E s \in [0 .. n -> Frames] :
          /\ IsRing(l, s, n) /\ l.num > n
          /\ \A i \in 0 .. n - 1 : Placed(l.node[s[i]], s[i], t, q, v, hi)
    BY <1>4 DEF Good
  <2>2. PICK s \in [0 .. n -> Frames] :
          /\ IsRing(l, s, n) /\ l.num > n
          /\ \A i \in 0 .. n - 1 : Placed(l.node[s[i]], s[i], t, q, v, hi)
    BY <2>1
  <2>3. l.num # 1 /\ r.num > n + 1
    BY <1>1, <2>2
  <2>4. /\ s[0] = l.head /\ s[n] = l.head /\ l.head \in Frames
        /\ \A i \in 0 .. n - 1 : l.node[s[i]].next = s[i + 1] /\ l.node[s[i + 1]].prev = s[i]
    <3>1. s[0] \in Frames
      OBVIOUS
    <3> QED
      BY <2>2, <3>1 DEF IsRing
  <2>5. l.node[l.head].prev = s[n - 1]
    <3>1. n - 1 \in 0 .. n - 1 /\ (n - 1) + 1 = n
      OBVIOUS
    <3>2. l.node[s[(n - 1) + 1]].prev = s[n - 1]
      BY <2>4, <3>1
    <3> QED
      BY <2>4, <3>1, <3>2
  <2>6. \A g \in Frames :
          /\ r.node[g].next = IF g = s[n - 1] THEN f
                              ELSE IF g = f THEN l.head ELSE l.node[g].next
          /\ r.node[g].prev = IF g = l.head THEN f
                              ELSE IF g = f THEN s[n - 1] ELSE l.node[g].prev
          /\ g # f => r.node[g].pgdir = l.node[g].pgdir /\ r.node[g].vaddr = l.node[g].vaddr
    <3>1. l.num # 1 /\ l.head \in Frames
      BY <2>3, <2>4
    <3>2. Appended(r.node, l.node, l.head, l.node[l.head].prev, f)
      BY <3>1, AppendIs
    <3> QED
      BY <2>5, <3>2 DEF Appended
  <2> HIDE DEF r
  <2>7. ASSUME NEW i \in 0 .. n - 1 PROVE s[i] # f /\ s[i] \in Frames
    <3>1. Placed(l.node[s[i]], s[i], t, q, v, hi) /\ s[i] \in Frames
      BY <2>2
    <3>2. l.node[s[i]].vaddr \in Nat
      BY <3>1, LruParts
    <3> QED
      BY <3>1, <3>2 DEF Placed, Apart
  <2> DEFINE u == [i \in 0 .. n + 1 |-> IF i < n THEN s[i] ELSE IF i = n THEN f ELSE l.head]
  <2>8. u \in [0 .. n + 1 -> Frames] /\ u[n] = f /\ u[n + 1] = l.head
        /\ \A i \in 0 .. n - 1 : u[i] = s[i]
    BY <2>4
  <2> HIDE DEF u
  <2>9. IsRing(r, u, n + 1)
    <3>1. u[0] = r.head /\ u[n + 1] = r.head
      <4>1. 0 \in 0 .. n - 1
        OBVIOUS
      <4> QED
        BY <1>1, <2>3, <2>4, <2>8, <4>1
    <3>2. ASSUME NEW i \in 0 .. (n + 1) - 1, NEW j \in 0 .. (n + 1) - 1, u[i] = u[j]
          PROVE  i = j
      <4>1. (i = n \/ i \in 0 .. n - 1) /\ (j = n \/ j \in 0 .. n - 1)
        OBVIOUS
      <4>2. \A a, b \in 0 .. n - 1 : s[a] = s[b] => a = b
        BY <2>2 DEF IsRing
      <4> QED
        BY <2>7, <2>8, <3>2, <4>1, <4>2
    <3>3. ASSUME NEW i \in 0 .. (n + 1) - 1
          PROVE  r.node[u[i]].next = u[i + 1] /\ r.node[u[i + 1]].prev = u[i]
      <4>1. CASE i = n
        <5>1. u[i] = f /\ u[i + 1] = l.head /\ f # s[n - 1] /\ f # l.head
          <6>1. n - 1 \in 0 .. n - 1 /\ 0 \in 0 .. n - 1
            OBVIOUS
          <6> QED
            BY <2>4, <2>7, <2>8, <4>1, <6>1
        <5> QED
          BY <2>4, <2>6, <5>1
      <4>2. CASE i = n - 1
        <5>1. i \in 0 .. n - 1 /\ i + 1 = n /\ 0 \in 0 .. n - 1
          BY <4>2
        <5>2. u[i] = s[n - 1] /\ u[i + 1] = f /\ f # l.head /\ s[n - 1] \in Frames
          BY <2>4, <2>7, <2>8, <4>2, <5>1
        <5> QED
          BY <2>6, <5>2
      <4>3. CASE i # n /\ i # n - 1
        <5>1. i \in 0 .. n - 1 /\ i + 1 \in 0 .. n - 1 /\ i < n - 1 /\ n - 1 \in 0 .. n
              /\ 0 \in 0 .. n /\ 0 < i + 1 /\ i + 1 # n /\ i \in 0 .. n /\ i + 1 \in 0 .. n
          BY <4>3
        <5>2. s[i] # s[n - 1]
          BY <2>2, <5>1, RingApart
        <5>3. s[0] # s[i + 1]
          BY <2>2, <5>1, RingApart
        <5>4. /\ s[i] # f /\ s[i + 1] # f /\ s[i] \in Frames /\ s[i + 1] \in Frames
              /\ u[i] = s[i] /\ u[i + 1] = s[i + 1]
          BY <2>7, <2>8, <5>1
        <5>5. l.node[s[i]].next = s[i + 1] /\ l.node[s[i + 1]].prev = s[i]
          BY <2>4, <5>1
        <5> QED
          BY <2>4, <2>6, <5>2, <5>3, <5>4, <5>5
      <4> QED
        BY <4>1, <4>2, <4>3
    <3> QED
      BY <3>1, <3>2, <3>3 DEF IsRing
  <2>10. ASSUME NEW i \in 0 .. (n + 1) - 1
         PROVE  Placed(r.node[u[i]], u[i], t, q, v + 1, hi)
    <3>1. CASE i = n
      BY <1>2, <2>8, <3>1
    <3>2. CASE i # n
      <4>1. i \in 0 .. n - 1
        BY <3>2
      <4>2. u[i] = s[i] /\ s[i] # f /\ s[i] \in Frames
        BY <2>7, <2>8, <4>1
      <4>3. r.node[s[i]].pgdir = l.node[s[i]].pgdir /\ r.node[s[i]].vaddr = l.node[s[i]].vaddr
        BY <2>6, <4>2
      <4>4. Placed(l.node[s[i]], s[i], t, q, v, hi) /\ l.node[s[i]].vaddr \in Nat
        BY <2>2, <4>1, <4>2, LruParts
      <4> QED
        BY <4>2, <4>3, <4>4 DEF Placed
    <3> QED
      BY <3>1, <3>2
  <2>11. n + 1 \in Nat \ {0}
    OBVIOUS
  <2> QED
    BY <2>3, <2>8, <2>9, <2>10, <2>11, GoodRing
<1> QED
  BY <1>3, <1>4

(* What freeing page v of q makes of the ring.                              *)
LEMMA DropGood ==
  ASSUME NEW l \in LruType, NEW p \in Slots, NEW q \in Slots, NEW t, Apart(t),
         NEW v \in Nat, NEW lo \in Int, lo <= v, v \in DOMAIN t[q],
         NEW f \in Frames, f = t[q][v], Good(l, t, q, lo, v)
  PROVE  Good(Drop(l, p, q, v, f), t, q, lo, v + 1)
<1>1. CASE l.head = Null
  <2>1. Drop(l, p, q, v, f) = l
    BY <1>1, NoRing DEF Drop
  <2> QED
    BY <1>1, <2>1 DEF Good
<1>2. CASE l.head # Null
  <2>1. PICK n \in Nat \ {0} : \E s \in [0 .. n -> Frames] :
          /\ IsRing(l, s, n) /\ l.num > n
          /\ \A i \in 0 .. n - 1 : Placed(l.node[s[i]], s[i], t, q, lo, v)
    BY <1>2 DEF Good
  <2>2. PICK s \in [0 .. n -> Frames] :
          /\ IsRing(l, s, n) /\ l.num > n
          /\ \A i \in 0 .. n - 1 : Placed(l.node[s[i]], s[i], t, q, lo, v)
    BY <2>1
  <2>3. \A i \in 0 .. n - 1 : s[i] \in Frames /\ l.node[s[i]].vaddr \in Nat
    BY LruParts
  <2>4. /\ s[0] = l.head /\ s[n] = l.head /\ l.num \in Int
        /\ \A i \in 0 .. n - 1 : l.node[s[i]].next = s[i + 1] /\ l.node[s[i + 1]].prev = s[i]
    BY <2>2, LruParts DEF IsRing
  <2>5. ASSUME NEW i \in 0 .. n - 1, s[i] # f
        PROVE  Placed(l.node[s[i]], s[i], t, q, lo, v + 1)
    <3>1. Placed(l.node[s[i]], s[i], t, q, lo, v) /\ l.node[s[i]].vaddr \in Nat
      BY <2>2, <2>3
    <3> QED
      BY <2>5, <3>1 DEF Placed
  <2>6. CASE ~InRing(l, q, v)
    <3>1. Drop(l, p, q, v, f) = l
      BY <2>6 DEF Drop
    <3>2. \A i \in 0 .. n - 1 : ~(l.node[s[i]].pgdir = q /\ l.node[s[i]].vaddr = v)
      BY <2>2, <2>6, RingSearch
    <3>3. ASSUME NEW i \in 0 .. n - 1
          PROVE  Placed(l.node[s[i]], s[i], t, q, lo, v + 1)
      <4>1. Placed(l.node[s[i]], s[i], t, q, lo, v) /\ l.node[s[i]].vaddr \in Nat
        BY <2>2, <2>3
      <4> QED
        BY <3>2, <4>1 DEF Placed
    <3> QED
      BY <2>2, <3>1, <3>3, GoodRing
  <2>7. CASE InRing(l, q, v) /\ f = l.head
    <3>1. PICK r : r = pop_lru(l, p, f)
      OBVIOUS
    <3>2. r \in LruType /\ r.head = Null
      BY <2>7, <3>1, PopIs
    <3>3. pop_lru(r, p, f).head = Null
      <4>1. f # r.head
        BY <3>2, Numbers
      <4> QED
        BY <3>2, <4>1, PopIs
    <3>4. Drop(l, p, q, v, f) = pop_lru(r, p, f)
      BY <2>7, <3>1 DEF Drop
    <3> QED
      BY <3>3, <3>4 DEF Good
  <2>8. CASE InRing(l, q, v) /\ f # l.head
    <3>1. PICK r : r = pop_lru(l, p, f)
      OBVIOUS
    <3>2. Drop(l, p, q, v, f) = r
      BY <2>8, <3>1 DEF Drop
    <3>3. r \in LruType /\ r.num = l.num - 1 /\ r.head = l.head
      BY <2>8, <3>1, PopIs
    <3>4. Popped(r.node, l.node, l.node[f].next, l.node[f].prev, f)
      BY <2>8, <3>1, PopIs
    <3>5. PICK j \in 0 .. n - 1 : l.node[s[j]].pgdir = q /\ l.node[s[j]].vaddr = v
      BY <2>2, <2>8, RingSearch
    <3>6. s[j] = f
      <4>1. Placed(l.node[s[j]], s[j], t, q, lo, v)
        BY <2>2
      <4> QED
        BY <3>5, <4>1 DEF Placed
    <3>7. j \in 1 .. n - 1
      BY <2>4, <2>8, <3>6
    <3>8. l.node[f].next = s[j + 1] /\ l.node[f].prev = s[j - 1]
      <4>1. j - 1 \in 0 .. n - 1 /\ (j - 1) + 1 = j
        BY <3>7
      <4>2. l.node[s[(j - 1) + 1]].prev = s[j - 1]
        BY <2>4, <4>1
      <4> QED
        BY <2>4, <3>6, <4>1, <4>2
    <3>9. \A g \in Frames : g # f =>
            /\ r.node[g].next = IF g = s[j - 1] THEN s[j + 1] ELSE l.node[g].next
            /\ r.node[g].prev = IF g = s[j + 1] THEN s[j - 1] ELSE l.node[g].prev
            /\ r.node[g].pgdir = l.node[g].pgdir /\ r.node[g].vaddr = l.node[g].vaddr
      BY <3>4, <3>8 DEF Popped
    <3>10. PICK m \in Nat \ {0} : m = n - 1
      BY <3>7
    <3> DEFINE u == [i \in 0 .. m |-> IF i < j THEN s[i] ELSE s[i + 1]]
    <3>11. /\ u \in [0 .. m -> Frames]
           /\ \A i \in 0 .. m : i < j => u[i] = s[i]
           /\ \A i \in 0 .. m : ~(i < j) => u[i] = s[i + 1]
      BY <3>10
    <3> HIDE DEF u
    <3>12. \A a, b \in 0 .. n : a < b /\ (a # 0 \/ b # n) => s[a] # s[b]
      BY <2>2, RingApart
    <3>13. \A i \in 0 .. n : i # j => s[i] # f
      BY <3>6, <3>7, <3>12
    <3>14. ASSUME NEW i \in 0 .. m - 1
           PROVE  /\ u[i] \in Frames /\ u[i] # f
                  /\ Placed(l.node[u[i]], u[i], t, q, lo, v + 1)
      <4>1. CASE i < j
        <5>1. i \in 0 .. n - 1 /\ i \in 0 .. n /\ i # j /\ i \in 0 .. m
          BY <3>10, <4>1
        <5> QED
          BY <2>3, <2>5, <3>11, <3>13, <4>1, <5>1
      <4>2. CASE ~(i < j)
        <5>1. i + 1 \in 0 .. n - 1 /\ i + 1 \in 0 .. n /\ i + 1 # j /\ i \in 0 .. m
          BY <3>10, <4>2
        <5> QED
          BY <2>3, <2>5, <3>11, <3>13, <4>2, <5>1
      <4> QED
        BY <4>1, <4>2
    <3>15. IsRing(r, u, m)
      <4>1. u[0] = r.head /\ u[m] = r.head
        <5>1. 0 \in 0 .. m /\ 0 < j /\ m \in 0 .. m /\ ~(m < j) /\ m + 1 = n
          BY <3>7, <3>10
        <5> QED
          BY <2>4, <3>3, <3>11, <5>1
      <4>2. ASSUME NEW a \in 0 .. m - 1, NEW b \in 0 .. m - 1, a < b PROVE u[a] # u[b]
        <5>1. CASE b < j
          BY <3>10, <3>11, <3>12, <4>2, <5>1
        <5>2. CASE ~(b < j) /\ a < j
          <6>1. a \in 0 .. n /\ b + 1 \in 0 .. n /\ a < b + 1 /\ b + 1 # n
                /\ a \in 0 .. m /\ b \in 0 .. m
            BY <3>10, <4>2
          <6> QED
            BY <3>11, <3>12, <5>2, <6>1
        <5>3. CASE ~(b < j) /\ ~(a < j)
          <6>1. a + 1 \in 0 .. n /\ b + 1 \in 0 .. n /\ a + 1 < b + 1 /\ a + 1 # 0
                /\ a \in 0 .. m /\ b \in 0 .. m
            BY <3>10, <4>2
          <6> QED
            BY <3>11, <3>12, <5>3, <6>1
        <5> QED
          BY <5>1, <5>2, <5>3
      <4>3. \A a, b \in 0 .. m - 1 : u[a] = u[b] => a = b
        <5>1. \A a, b \in 0 .. m - 1 : a = b \/ a < b \/ b < a
          OBVIOUS
        <5> QED
          BY <4>2, <5>1
      <4>4. ASSUME NEW i \in 0 .. m - 1
            PROVE  r.node[u[i]].next = u[i + 1] /\ r.node[u[i + 1]].prev = u[i]
        <5>0. i \in 0 .. m /\ i + 1 \in 0 .. m /\ j \in 1 .. m
          BY <3>7, <3>10
        <5>1. CASE i + 1 < j
          <6>1. /\ i \in 0 .. n - 1 /\ i \in 0 .. n /\ i + 1 \in 0 .. n /\ i # j /\ i + 1 # j
                /\ j - 1 \in 0 .. n /\ j + 1 \in 0 .. n /\ i < j - 1 /\ i + 1 < j + 1
                /\ j - 1 # n /\ i + 1 # 0 /\ i < j
            BY <3>7, <3>10, <5>1
          <6>2. u[i] = s[i] /\ u[i + 1] = s[i + 1]
            BY <3>11, <5>0, <5>1, <6>1
          <6>3. s[i] # f /\ s[i + 1] # f /\ s[i] # s[j - 1] /\ s[i + 1] # s[j + 1]
                /\ s[i] \in Frames /\ s[i + 1] \in Frames
            BY <3>12, <3>13, <6>1
          <6>4. l.node[s[i]].next = s[i + 1] /\ l.node[s[i + 1]].prev = s[i]
            BY <2>4, <6>1
          <6> QED
            BY <3>9, <6>2, <6>3, <6>4
        <5>2. CASE i + 1 = j
          <6>1. /\ i = j - 1 /\ i \in 0 .. n /\ j + 1 \in 0 .. n /\ i # j /\ j + 1 # j
                /\ i < j /\ ~(i + 1 < j) /\ (i + 1) + 1 = j + 1
            BY <3>7, <5>2
          <6>2. u[i] = s[j - 1] /\ u[i + 1] = s[j + 1]
            BY <3>11, <5>0, <6>1
          <6>3. s[j - 1] # f /\ s[j + 1] # f /\ s[j - 1] \in Frames /\ s[j + 1] \in Frames
            BY <3>13, <6>1
          <6> QED
            BY <3>9, <6>2, <6>3
        <5>3. CASE i + 1 > j
          <6>0. PICK k \in 0 .. n - 1 : k = i + 1
            BY <3>10
          <6>1. /\ k \in 0 .. n /\ k + 1 \in 0 .. n /\ k # j /\ k + 1 # j
                /\ j - 1 \in 0 .. n /\ j + 1 \in 0 .. n /\ j - 1 < k /\ j + 1 < k + 1
                /\ k # n /\ j + 1 # 0 /\ ~(i < j) /\ ~(i + 1 < j) /\ (i + 1) + 1 = k + 1
            BY <3>7, <3>10, <5>3, <6>0
          <6>2. u[i] = s[k] /\ u[i + 1] = s[k + 1]
            BY <3>11, <5>0, <6>0, <6>1
          <6>3. s[k] # f /\ s[k + 1] # f /\ s[k] # s[j - 1] /\ s[k + 1] # s[j + 1]
                /\ s[k] \in Frames /\ s[k + 1] \in Frames
            BY <3>12, <3>13, <6>1
          <6>4. l.node[s[k]].next = s[k + 1] /\ l.node[s[k + 1]].prev = s[k]
            BY <2>4, <6>1
          <6> QED
            BY <3>9, <6>2, <6>3, <6>4
        <5> QED
          BY <5>1, <5>2, <5>3
      <4> QED
        BY <4>1, <4>3, <4>4 DEF IsRing
    <3>16. ASSUME NEW i \in 0 .. m - 1
           PROVE  Placed(r.node[u[i]], u[i], t, q, lo, v + 1)
      <4>1. /\ r.node[u[i]].pgdir = l.node[u[i]].pgdir
            /\ r.node[u[i]].vaddr = l.node[u[i]].vaddr
        BY <3>9, <3>14
      <4> QED
        BY <3>14, <4>1 DEF Placed
    <3>17. r.num > m
      BY <2>2, <2>4, <3>3, <3>10
    <3> QED
      BY <3>2, <3>11, <3>15, <3>16, <3>17, GoodRing
  <2> QED
    BY <2>6, <2>7, <2>8
<1> QED
  BY <1>1, <1>2

-----------------------------------------------------------------------------
(* The loops over the pages.                                                *)

(* deallocuvm() of pages lo to hi leaves none of them in the ring.          *)
LEMMA DropAllGood ==
  ASSUME NEW l \in LruType, NEW p \in Slots, NEW q \in Slots, NEW t, Apart(t),
         NEW lo \in Nat, NEW hi \in Int, lo - 1 <= hi,
         \A v \in lo .. hi : v \in DOMAIN t[q] /\ t[q][v] \in Frames
  PROVE  /\ DropAll(l, p, q, t[q], lo, hi) \in LruType
         /\ Good(l, t, q, lo, lo) => Good(DropAll(l, p, q, t[q], lo, hi), t, q, lo, hi + 1)
<1>1. PICK a \in [lo - 1 .. hi -> LruType] :
        /\ a[lo - 1] = l /\ DropAll(l, p, q, t[q], lo, hi) = a[hi]
        /\ \A v \in lo .. hi : a[v] = Drop(a[v - 1], p, q, v, t[q][v])
  <2>1. lo \in Int /\ \A v \in lo .. hi : t[q][v] \in Frames
    OBVIOUS
  <2> QED
    <3>1. PICK w : w = t[q]
      OBVIOUS
    <3>2. Drops(l, p, q, w, lo, hi) # {}
      BY <2>1, <3>1, DropAllIs
    <3>3. PICK a : a \in Drops(l, p, q, w, lo, hi)
      BY <3>2
    <3> QED
      BY <3>1, <3>3 DEF Drops
<1>2. hi \in lo - 1 .. hi
  OBVIOUS
<1>3. ASSUME Good(l, t, q, lo, lo) PROVE Good(a[hi], t, q, lo, hi + 1)
  <2> DEFINE B == {k \in Nat : lo + k <= hi + 1 /\ ~Good(a[lo + k - 1], t, q, lo, lo + k)}
  <2>1. B = {}
    <3> SUFFICES ASSUME B # {} PROVE FALSE
      OBVIOUS
    <3>1. PICK k \in B : \A m \in B : k <= m
      BY LeastNumber
    <3>2. k # 0
      <4>1. lo + 0 = lo /\ lo + 0 - 1 = lo - 1
        OBVIOUS
      <4> QED
        BY <1>1, <1>3, <3>1, <4>1
    <3>3. PICK v \in lo .. hi : v = lo + k - 1
      BY <3>1, <3>2
    <3>4. /\ k - 1 \in Nat /\ lo + (k - 1) <= hi + 1 /\ k - 1 \notin B
          /\ lo + (k - 1) - 1 = v - 1 /\ lo + (k - 1) = v
          /\ lo + k - 1 = v /\ lo + k = v + 1
      <4>1. k \in Nat /\ k # 0
        BY <3>1, <3>2
      <4>2. k - 1 \notin B
        <5> HIDE DEF B
        <5> QED
          BY <3>1, <4>1
      <4> HIDE DEF B
      <4> QED
        BY <3>3, <4>1, <4>2
    <3>5. Good(a[v - 1], t, q, lo, v)
      <4>1. Good(a[lo + (k - 1) - 1], t, q, lo, lo + (k - 1))
        BY <3>4
      <4> QED
        BY <3>4, <4>1
    <3>6. a[v - 1] \in LruType /\ v \in Nat /\ lo <= v /\ lo \in Int
      <4>1. v - 1 \in lo - 1 .. hi /\ v \in Nat /\ lo <= v /\ lo \in Int
        OBVIOUS
      <4> QED
        BY <4>1
    <3>7. v \in DOMAIN t[q] /\ t[q][v] \in Frames
      OBVIOUS
    <3>8. Good(Drop(a[v - 1], p, q, v, t[q][v]), t, q, lo, v + 1)
      BY <3>5, <3>6, <3>7, DropGood
    <3>9. Good(a[v], t, q, lo, v + 1)
      BY <1>1, <3>8
    <3> QED
      BY <3>1, <3>4, <3>9
  <2>2. /\ hi + 1 - lo \in Nat /\ lo + (hi + 1 - lo) <= hi + 1
        /\ lo + (hi + 1 - lo) = hi + 1 /\ lo + (hi + 1 - lo) - 1 = hi
    OBVIOUS
  <2>3. hi + 1 - lo \notin B
    BY <2>1
  <2> QED
    BY <2>2, <2>3
<1> QED
  BY <1>1, <1>2, <1>3

(* copyuvm() keeps a ring of placed pages, page after page.                 *)
LEMMA CopyAllGood ==
  ASSUME NEW l \in LruType, NEW p \in Slots, NEW q \in Slots, NEW t, Apart(t),
         NEW m \in Nat,
         \A k \in 0 .. m - 1 : k \in DOMAIN t[q] /\ t[q][k] = Nth(k) /\ Nth(k) \in Frames
  PROVE  /\ CopyAll(l, p, q, m) \in LruType
         /\ Good(l, t, q, 0, m) => Good(CopyAll(l, p, q, m), t, q, m, m)
<1>1. PICK a \in [0 .. m -> LruType] :
        /\ a[0] = l /\ CopyAll(l, p, q, m) = a[m]
        /\ \A k \in 1 .. m : a[k] = append_lru(a[k - 1], p, q, k - 1, Nth(k - 1))
  <2>1. \A k \in 0 .. m - 1 : Nth(k) \in Frames
    OBVIOUS
  <2> QED
    <3>1. Copies(l, p, q, m) # {}
      BY <2>1, CopyAllIs
    <3>2. PICK a : a \in Copies(l, p, q, m)
      BY <3>1
    <3> QED
      BY <3>2 DEF Copies
<1>2. m \in 0 .. m
  OBVIOUS
<1>3. ASSUME Good(l, t, q, 0, m) PROVE Good(a[m], t, q, m, m)
  <2> DEFINE B == {k \in 0 .. m : ~Good(a[k], t, q, k, m)}
  <2>1. B = {}
    <3> SUFFICES ASSUME B # {} PROVE FALSE
      OBVIOUS
    <3>1. PICK k \in B : \A j \in B : k <= j
      <4>1. B \subseteq Nat
        OBVIOUS
      <4> QED
        BY <4>1, LeastNumber
    <3>2. k # 0
      BY <1>1, <1>3, <3>1
    <3>3. PICK v \in 0 .. m - 1 : v = k - 1
      BY <3>1, <3>2
    <3>4. v \in 0 .. m /\ v \notin B /\ k = v + 1 /\ k \in 1 .. m /\ v \in Nat /\ v < m /\ m \in Int
      BY <3>1, <3>2, <3>3
    <3>5. Good(a[v], t, q, v, m) /\ a[v] \in LruType
      BY <1>1, <3>4
    <3>6. v \in DOMAIN t[q] /\ t[q][v] = Nth(v) /\ Nth(v) \in Frames
      OBVIOUS
    <3>7. Good(append_lru(a[v], p, q, v, Nth(v)), t, q, v + 1, m)
      BY <3>4, <3>5, <3>6, AppendGood
    <3>8. a[k] = append_lru(a[v], p, q, v, Nth(v))
      BY <1>1, <3>3, <3>4
    <3> QED
      BY <3>1, <3>4, <3>7, <3>8
  <2> QED
    BY <1>2, <2>1
<1> QED
  BY <1>1, <1>2, <1>3

(* The same ring; other words of the programs may differ.                   *)
SameRing(k, l) == k.node = l.node /\ k.head = l.head /\ k.num = l.num

(* A ring stays good where the page tables change so that each of its pages *)
(* stays placed.                                                            *)
LEMMA GoodMove ==
  ASSUME NEW l, NEW k, SameRing(k, l), NEW t, NEW q, NEW lo, NEW hi, NEW u,
         NEW q2, NEW lo2, NEW hi2,
         Good(l, t, q, lo, hi),
         \A x \in Frames : Placed(l.node[x], x, t, q, lo, hi)
                             => Placed(l.node[x], x, u, q2, lo2, hi2)
  PROVE  Good(k, u, q2, lo2, hi2)
<1>0. k.node = l.node /\ k.head = l.head /\ k.num = l.num
  BY DEF SameRing
<1> SUFFICES ASSUME k.head # Null PROVE Good(k, u, q2, lo2, hi2)
  BY DEF Good
<1>1. PICK n \in Nat \ {0} : \E s \in [0 .. n -> Frames] :
        /\ IsRing(l, s, n) /\ l.num > n
        /\ \A i \in 0 .. n - 1 : Placed(l.node[s[i]], s[i], t, q, lo, hi)
  BY <1>0 DEF Good
<1>2. PICK s \in [0 .. n -> Frames] :
        /\ IsRing(l, s, n) /\ l.num > n
        /\ \A i \in 0 .. n - 1 : Placed(l.node[s[i]], s[i], t, q, lo, hi)
  BY <1>1
<1>3. IsRing(k, s, n) /\ k.num > n
  BY <1>0, <1>2 DEF IsRing
<1>4. ASSUME NEW i \in 0 .. n - 1 PROVE Placed(k.node[s[i]], s[i], u, q2, lo2, hi2)
  <2>1. s[i] \in Frames /\ Placed(l.node[s[i]], s[i], t, q, lo, hi)
    BY <1>2
  <2> QED
    BY <1>0, <2>1
<1> QED
  BY <1>3, <1>4, GoodRing

-----------------------------------------------------------------------------
(* The free list.                                                           *)

(* The place of a frame on the free list.                                   *)
Rank(f) == Cardinality({g \in free : g < f})

(* The free list has an end.                                                *)
LEMMA FreeFinite ==
  ASSUME free \in SUBSET Frames
  PROVE  IsFiniteSet(free) /\ Cardinality(free) \in Nat
<1>1. IsFiniteSet(Frames)
  <2>1. 1 \in Int /\ NFRAME \in Int
    BY Numbers
  <2> QED
    BY <2>1, FS_Interval DEF Frames
<1>2. IsFiniteSet(free)
  BY <1>1, FS_Subset
<1> QED
  BY <1>2, FS_CardinalityType

(* A place on the free list.                                                *)
LEMMA RankBelow ==
  ASSUME free \in SUBSET Frames, NEW f \in free
  PROVE  Rank(f) \in 0 .. Cardinality(free) - 1
<1> DEFINE S == {g \in free : g < f}
<1>1. f \in Nat
  BY Numbers
<1>2. S \in SUBSET free /\ f \notin S
  BY <1>1
<1>3. IsFiniteSet(free) /\ Cardinality(free) \in Nat
  BY FreeFinite
<1>4. IsFiniteSet(S) /\ Cardinality(S) <= Cardinality(free)
      /\ (Cardinality(free) = Cardinality(S) => free = S)
  <2> HIDE DEF S
  <2> QED
    BY <1>2, <1>3, FS_Subset
<1>5. Cardinality(S) \in Nat
  BY <1>4, FS_CardinalityType
<1>6. Cardinality(S) # Cardinality(free)
  BY <1>2, <1>4
<1>7. Rank(f) = Cardinality(S)
  BY DEF Rank
<1> HIDE DEF S
<1> QED
  BY <1>3, <1>4, <1>5, <1>6, <1>7

(* Places are different.                                                    *)
LEMMA RankOrder ==
  ASSUME free \in SUBSET Frames, NEW f \in free, NEW h \in free, f < h
  PROVE  Rank(f) < Rank(h)
<1> DEFINE S == {g \in free : g < f}
           T == {g \in free : g < h}
<1>1. f \in Nat /\ h \in Nat /\ \A g \in free : g \in Nat
  BY Numbers
<1>2. S \in SUBSET T /\ f \in T /\ f \notin S /\ T \in SUBSET free
  <2>1. ASSUME NEW g \in free, g < f PROVE g < h
    BY <1>1, <2>1
  <2>2. ~(f < f)
    BY <1>1
  <2> QED
    BY <2>1, <2>2
<1>3. Rank(f) = Cardinality(S) /\ Rank(h) = Cardinality(T)
  BY DEF Rank
<1> HIDE DEF S, T
<1>4. IsFiniteSet(T)
  BY <1>2, FreeFinite, FS_Subset
<1>5. IsFiniteSet(S) /\ Cardinality(S) <= Cardinality(T)
      /\ (Cardinality(T) = Cardinality(S) => T = S)
  BY <1>2, <1>4, FS_Subset
<1>6. Cardinality(S) \in Nat /\ Cardinality(T) \in Nat
  BY <1>4, <1>5, FS_CardinalityType
<1>7. Cardinality(T) # Cardinality(S)
  BY <1>2, <1>5
<1> QED
  BY <1>3, <1>5, <1>6, <1>7

(* The k-th frame of the list, if the list is that long.                    *)
LEMMA NthIs ==
  ASSUME free \in SUBSET Frames, NEW k \in Nat, k < Cardinality(free)
  PROVE  Nth(k) \in free /\ Rank(Nth(k)) = k
<1>1. IsFiniteSet(free) /\ Cardinality(free) \in Nat
  BY FreeFinite
<1> DEFINE c == Cardinality(free)
           r == [f \in free |-> Rank(f)]
<1>2. r \in [free -> 0 .. c - 1]
  BY RankBelow
<1>3. \A f, h \in free : r[f] = r[h] => f = h
  <2> SUFFICES ASSUME NEW f \in free, NEW h \in free, f # h PROVE r[f] # r[h]
    OBVIOUS
  <2>1. f \in Nat /\ h \in Nat
    BY Numbers
  <2>2. Rank(f) \in Nat /\ Rank(h) \in Nat
    BY RankBelow, <1>1
  <2>3. CASE f < h
    BY <2>2, <2>3, RankOrder
  <2>4. CASE h < f
    BY <2>2, <2>4, RankOrder
  <2> QED
    BY <2>1, <2>3, <2>4
<1>4. r \in Injection(free, 0 .. c - 1)
  <2> HIDE DEF r, c
  <2> QED
    BY <1>2, <1>3 DEF Injection, IsInjective
<1>5. IsFiniteSet(0 .. c - 1) /\ Cardinality(0 .. c - 1) = c
  <2>1. 0 \in Int /\ c - 1 \in Int /\ (0 > c - 1 <=> c = 0) /\ (c - 1) - 0 + 1 = c
    BY <1>1
  <2> QED
    BY <1>1, <2>1, FS_Interval
<1>6. r \in Surjection(free, 0 .. c - 1)
  <2>1. Cardinality(free) = Cardinality(0 .. c - 1)
    BY <1>5
  <2> HIDE DEF r, c
  <2> QED
    BY <1>4, <1>5, <2>1, FS_Injection
<1>7. k \in 0 .. c - 1
  BY <1>1
<1>8. \E f \in free : r[f] = k
  <2> HIDE DEF r, c
  <2> QED
    BY <1>6, <1>7 DEF Surjection
<1>9. \E f \in free : Cardinality({g \in free : g < f}) = k
  BY <1>8 DEF Rank
<1>10. Nth(k) \in free /\ Cardinality({g \in free : g < Nth(k)}) = k
  BY <1>9 DEF Nth
<1> QED
  BY <1>10 DEF Rank

(* The first n frames: all different, and no longer on the list once given. *)
LEMMA NthGiven ==
  ASSUME free \in SUBSET Frames, NEW n \in Nat, n <= Cardinality(free)
  PROVE  /\ \A k \in 0 .. n - 1 : /\ Nth(k) \in free /\ Nth(k) \in Frames
                                  /\ Nth(k) \in Given(n)
         /\ \A j, k \in 0 .. n - 1 : Nth(j) = Nth(k) => j = k
         /\ Given(n) \subseteq free
<1>1. Cardinality(free) \in Nat
  BY FreeFinite
<1>2. ASSUME NEW k \in 0 .. n - 1 PROVE Nth(k) \in free /\ Rank(Nth(k)) = k
  <2>1. k \in Nat /\ k < Cardinality(free)
    BY <1>1
  <2> QED
    BY <2>1, NthIs
<1>3. ASSUME NEW k \in 0 .. n - 1 PROVE Nth(k) \in Given(n)
  <2>1. k < n
    OBVIOUS
  <2> QED
    BY <1>2, <2>1 DEF Given, Rank
<1>4. Given(n) \subseteq free
  BY DEF Given
<1> QED
  BY <1>2, <1>3, <1>4

(* kalloc() takes the first frame.                                          *)
LEMMA FirstFree ==
  ASSUME free \in SUBSET Frames, free # {}
  PROVE  Nth(0) \in free /\ Nth(0) \in Frames /\ Nth(0) \in Given(1) /\ Given(1) \subseteq free
<1>1. Cardinality(free) \in Nat /\ Cardinality(free) # 0
  BY FreeFinite, FS_EmptySet
<1>2. 1 \in Nat /\ 1 <= Cardinality(free) /\ 0 \in 0 .. 1 - 1
  BY <1>1
<1> QED
  BY <1>2, NthGiven

-----------------------------------------------------------------------------
(* Page tables.                                                             *)

(* The number of pages is the size of the process.                          *)
LEMMA TableSize ==
  ASSUME NEW t, IsTable(t)
  PROVE  /\ Cardinality(DOMAIN t) \in Sizes /\ Cardinality(DOMAIN t) \in Nat
         /\ t \in [0 .. Cardinality(DOMAIN t) - 1 -> Frames]
         /\ DOMAIN t # {} => Image <= Cardinality(DOMAIN t) /\ Cardinality(DOMAIN t) <= MaxSize
<1>1. PICK n \in Sizes : t \in [0 .. n - 1 -> Frames]
  BY DEF IsTable
<1>2. n \in Nat /\ (n # 0 => Image <= n /\ n <= MaxSize)
  BY Numbers DEF Sizes
<1>3. Cardinality(0 .. n - 1) = n
  <2>1. 0 \in Int /\ n - 1 \in Int /\ (0 > n - 1 <=> n = 0) /\ (n - 1) - 0 + 1 = n
    BY <1>2
  <2> QED
    BY <1>2, <2>1, FS_Interval
<1>4. DOMAIN t = 0 .. n - 1
  BY <1>1
<1>5. Cardinality(DOMAIN t) = n
  BY <1>3, <1>4
<1>6. DOMAIN t # {} => n # 0
  <2>1. 0 .. 0 - 1 = {}
    OBVIOUS
  <2> QED
    BY <1>4, <2>1
<1> QED
  BY <1>1, <1>2, <1>5, <1>6

(* An unused slot has no pages.                                             *)
LEMMA NoTable ==
  IsTable(<< >>) /\ DOMAIN << >> = {}
<1>1. 0 .. 0 - 1 = {} /\ 0 \in Sizes
  BY DEF Sizes
<1>2. << >> \in [{} -> Frames]
  OBVIOUS
<1>3. << >> \in [0 .. 0 - 1 -> Frames]
  BY <1>1, <1>2
<1> QED
  BY <1>1, <1>2, <1>3 DEF IsTable

(* The pages of a slot in a state.                                          *)
LEMMA Pages ==
  ASSUME TypeInv, NEW p \in Slots
  PROVE  /\ IsTable(pt[p]) /\ Cardinality(DOMAIN pt[p]) \in Nat
         /\ DOMAIN pt[p] = 0 .. Cardinality(DOMAIN pt[p]) - 1
         /\ \A v \in DOMAIN pt[p] : pt[p][v] \in Frames /\ v \in Nat
         /\ Used(p) => /\ Image <= Cardinality(DOMAIN pt[p])
                       /\ Cardinality(DOMAIN pt[p]) <= MaxSize
<1>1. IsTable(pt[p])
  BY DEF TypeInv
<1>2. PICK t : t = pt[p]
  OBVIOUS
<1>3. /\ Cardinality(DOMAIN t) \in Nat /\ t \in [0 .. Cardinality(DOMAIN t) - 1 -> Frames]
      /\ DOMAIN t # {} => Image <= Cardinality(DOMAIN t) /\ Cardinality(DOMAIN t) <= MaxSize
  BY <1>1, <1>2, TableSize
<1>4. DOMAIN t = 0 .. Cardinality(DOMAIN t) - 1
  BY <1>3
<1>5. \A v \in DOMAIN t : t[v] \in Frames /\ v \in Nat
  <2> TAKE v \in DOMAIN t
  <2>1. v \in 0 .. Cardinality(DOMAIN t) - 1
    BY <1>4
  <2> QED
    BY <1>3, <2>1
<1> QED
  BY <1>1, <1>2, <1>3, <1>4, <1>5 DEF Used

(* The lost frames are neither free nor mapped.                             *)
LEMMA LostIs ==
  Lost = {f \in Frames : f \notin free /\ \A p \in Slots : \A v \in DOMAIN pt[p] : pt[p][v] # f}
BY DEF Lost, FramesOf

(* One process gets another page table w, of frames it had or free ones.    *)
LEMMA Replace ==
  ASSUME TypeInv, PlacesInv, NEW p \in Slots, NEW w, IsTable(w),
         pt' = [pt EXCEPT ![p] = w],
         \A u, v \in DOMAIN w : w[u] = w[v] => u = v,
         \A v \in DOMAIN w : w[v] \notin free' /\ w[v] \in free \cup FramesOf(pt[p]),
         free' \subseteq free \cup FramesOf(pt[p])
  PROVE  /\ free' \in SUBSET Frames
         /\ DOMAIN pt' = Slots /\ \A q \in Slots : IsTable(pt'[q])
         /\ \A q \in Slots : pt'[q] = IF q = p THEN w ELSE pt[q]
         /\ PlacesInv' /\ Apart(pt')
         /\ Lost' = {} => Lost = {}
<1>1. DOMAIN pt' = Slots /\ \A q \in Slots : pt'[q] = IF q = p THEN w ELSE pt[q]
  BY DEF TypeInv
<1>2. \A f : f \in FramesOf(pt[p]) <=> \E v \in DOMAIN pt[p] : pt[p][v] = f
  BY DEF FramesOf
<1>3. free' \in SUBSET Frames
  BY <1>2, Pages DEF TypeInv
<1>4. ASSUME NEW q \in Slots, q # p, NEW v \in DOMAIN pt[q]
      PROVE  pt[q][v] \notin free \cup FramesOf(pt[p])
  BY <1>2, <1>4 DEF PlacesInv, Apart
<1>5. Apart(pt')
  <2> SUFFICES ASSUME NEW q \in Slots, NEW r \in Slots, NEW u \in DOMAIN pt'[q],
                      NEW v \in DOMAIN pt'[r], pt'[q][u] = pt'[r][v]
               PROVE  q = r /\ u = v
    BY DEF Apart
  <2>1. CASE q = p /\ r = p
    BY <1>1, <2>1
  <2>2. CASE q = p /\ r # p
    BY <1>1, <1>4, <2>2
  <2>3. CASE q # p /\ r = p
    BY <1>1, <1>4, <2>3
  <2>4. CASE q # p /\ r # p
    BY <1>1, <2>4 DEF PlacesInv, Apart
  <2> QED
    BY <2>1, <2>2, <2>3, <2>4
<1>6. ASSUME NEW q \in Slots, NEW v \in DOMAIN pt'[q] PROVE pt'[q][v] \notin free'
  <2>1. CASE q = p
    BY <1>1, <2>1
  <2>2. CASE q # p
    BY <1>1, <1>4, <2>2
  <2> QED
    BY <2>1, <2>2
<1>7. ASSUME Lost' = {} PROVE Lost = {}
  <2>1. ASSUME NEW f \in Frames PROVE f \in free \/ \E q \in Slots : \E v \in DOMAIN pt[q] : pt[q][v] = f
    <3>1. f \in free' \/ \E q \in Slots : \E v \in DOMAIN pt'[q] : pt'[q][v] = f
      BY <1>7 DEF Lost, FramesOf
    <3>2. CASE f \in free'
      BY <1>2, <3>2
    <3>3. CASE \E q \in Slots : \E v \in DOMAIN pt'[q] : pt'[q][v] = f
      <4>1. PICK q \in Slots : \E v \in DOMAIN pt'[q] : pt'[q][v] = f
        BY <3>3
      <4>2. PICK v \in DOMAIN pt'[q] : pt'[q][v] = f
        BY <4>1
      <4>3. CASE q = p
        BY <1>1, <1>2, <4>2, <4>3
      <4>4. CASE q # p
        BY <1>1, <4>2, <4>4
      <4> QED
        BY <4>3, <4>4
    <3> QED
      BY <3>1, <3>2, <3>3
  <2> QED
    BY <2>1, LostIs
<1>8. \A q \in Slots : IsTable(pt'[q])
  BY <1>1 DEF TypeInv
<1> QED
  BY <1>1, <1>3, <1>5, <1>6, <1>7, <1>8 DEF PlacesInv

-----------------------------------------------------------------------------
(* Each step keeps the invariant.                                           *)

(* The ring after a step that sets it.                                      *)
LEMMA LruNext ==
  ASSUME NEW r \in LruType, SetLru(r)
  PROVE  Lru' \in LruType /\ SameRing(Lru', r)
BY DEF SetLru, Lru, LruType, SameRing

(* The ring after a step that leaves it alone.                              *)
LEMMA LruSame ==
  ASSUME UNCHANGED lruVars
  PROVE  Lru' = Lru
BY DEF lruVars, Lru

(* A process that runs.                                                     *)
LEMMA RunsIs ==
  ASSUME NEW p \in Slots, Runs(p)
  PROVE  halted = "" /\ Used(p) /\ p \notin zombie
BY DEF Runs

(* The kernel stops, or nothing happens.                                    *)
LEMMA StopInv ==
  ASSUME Inv, UNCHANGED <<free, pt, lruVars, zombie>>, halted' # "" \/ halted' = halted
  PROVE  Inv'
<1>1. Lru' = Lru
  BY LruSame
<1>2. TypeInv'
  BY <1>1 DEF Inv, TypeInv, Used
<1>3. PlacesInv'
  BY DEF Inv, PlacesInv
<1>4. RingInv'
  BY <1>1 DEF Inv, RingInv, Calm, Lost
<1> QED
  BY <1>2, <1>3, <1>4 DEF Inv

(* A panic.                                                                 *)
LEMMA StopKeeps ==
  ASSUME Inv, NEW why, why # "", Stop(why)
  PROVE  Inv'
BY StopInv DEF Stop

(* reclaim() stops the kernel.                                              *)
LEMMA ReclaimKeeps ==
  ASSUME Inv, reclaim
  PROVE  Inv'
BY StopKeeps DEF reclaim

(* A step that changes nothing.                                             *)
LEMMA StutterKeeps ==
  ASSUME Inv, UNCHANGED vars
  PROVE  Inv'
BY StopInv DEF vars

(* allocuvm(): the new page is the first free frame.                        *)
LEMMA GrowKeeps ==
  ASSUME Inv, NEW p \in Slots, Grow(p)
  PROVE  Inv'
<1>1. CASE free = {} /\ reclaim
  BY <1>1, ReclaimKeeps
<1>2. CASE UNCHANGED vars
  BY <1>2, StutterKeeps
<1>3. CASE /\ free # {} /\ Cardinality(DOMAIN pt[p]) < MaxSize
           /\ pt' = [pt EXCEPT ![p] = [v \in 0 .. Cardinality(DOMAIN pt[p]) |->
                       IF v \in DOMAIN pt[p] THEN pt[p][v] ELSE Nth(0)]]
           /\ free' = free \ Given(1)
           /\ UNCHANGED <<lruVars, zombie, calls, halted>>
  <2>1. TypeInv /\ PlacesInv /\ RingInv /\ halted = "" /\ Used(p)
    BY RunsIs DEF Inv, Grow
  <2>2. PICK n \in Nat : n = Cardinality(DOMAIN pt[p])
    BY <2>1, Pages
  <2>3. /\ DOMAIN pt[p] = 0 .. n - 1 /\ Image <= n /\ n < MaxSize
        /\ \A v \in DOMAIN pt[p] : pt[p][v] \in Frames
    BY <1>3, <2>1, <2>2, Pages
  <2>4. Nth(0) \in free /\ Nth(0) \in Frames /\ Nth(0) \in Given(1) /\ Given(1) \subseteq free
    BY <1>3, <2>1, FirstFree DEF TypeInv
  <2>5. PICK w : w = [v \in 0 .. n |-> IF v \in DOMAIN pt[p] THEN pt[p][v] ELSE Nth(0)]
    OBVIOUS
  <2>6. /\ DOMAIN w = 0 .. n /\ \A v \in DOMAIN pt[p] : v \in DOMAIN w /\ w[v] = pt[p][v]
        /\ w[n] = Nth(0) /\ \A v \in DOMAIN w : v # n => v \in DOMAIN pt[p]
    BY <2>3, <2>5
  <2>7. IsTable(w)
    <3>1. n + 1 \in Sizes /\ 0 .. n = 0 .. (n + 1) - 1
      BY <2>3, Numbers DEF Sizes
    <3>2. w \in [0 .. n -> Frames]
      BY <2>3, <2>4, <2>5
    <3> QED
      BY <3>1, <3>2 DEF IsTable
  <2>8. pt' = [pt EXCEPT ![p] = w]
    BY <1>3, <2>2, <2>5
  <2>9. \A v \in DOMAIN pt[p] : pt[p][v] \notin free
    BY <2>1 DEF PlacesInv
  <2>10. \A u, v \in DOMAIN pt[p] : pt[p][u] = pt[p][v] => u = v
    BY <2>1 DEF PlacesInv, Apart
  <2>11. ASSUME NEW u \in DOMAIN w, NEW v \in DOMAIN w, w[u] = w[v] PROVE u = v
    BY <2>4, <2>6, <2>9, <2>10, <2>11
  <2>12. ASSUME NEW v \in DOMAIN w
         PROVE  w[v] \notin free' /\ w[v] \in free \cup FramesOf(pt[p])
    <3>1. CASE v = n
      BY <1>3, <2>4, <2>6, <3>1
    <3>2. CASE v # n
      BY <1>3, <2>6, <2>9, <3>2 DEF FramesOf
    <3> QED
      BY <3>1, <3>2
  <2>13. free' \subseteq free \cup FramesOf(pt[p])
    BY <1>3
  <2>14. /\ free' \in SUBSET Frames
         /\ DOMAIN pt' = Slots /\ \A q \in Slots : IsTable(pt'[q])
         /\ \A q \in Slots : pt'[q] = IF q = p THEN w ELSE pt[q]
         /\ PlacesInv' /\ (Lost' = {} => Lost = {})
    BY <2>1, <2>7, <2>8, <2>11, <2>12, <2>13, Replace
  <2>15. Lru' = Lru
    BY <1>3, LruSame
  <2>16. TypeInv'
    <3>1. \A q \in zombie : q \in Slots /\ DOMAIN pt[q] # {}
      BY <2>1 DEF TypeInv, Used
    <3>2. DOMAIN w # {}
      BY <2>2, <2>6
    <3>3. \A q \in zombie' : Used(q)'
      BY <1>3, <2>14, <3>1, <3>2 DEF Used
    <3> QED
      BY <1>3, <2>1, <2>14, <2>15, <3>3 DEF TypeInv
  <2>17. RingInv'
    <3> SUFFICES ASSUME Lost' = {} PROVE Good(Lru, pt', 0, 0, 0)
      BY <2>15 DEF RingInv, Calm
    <3>1. Good(Lru, pt, 0, 0, 0)
      BY <2>1, <2>14 DEF RingInv, Calm
    <3>2. \A x \in Frames : Placed(Lru.node[x], x, pt, 0, 0, 0)
                              => Placed(Lru.node[x], x, pt', 0, 0, 0)
      BY <2>6, <2>14 DEF Placed
    <3> QED
      BY <3>1, <3>2, GoodMove DEF SameRing
  <2> QED
    BY <2>14, <2>16, <2>17 DEF Inv
<1> QED
  BY <1>1, <1>2, <1>3 DEF Grow

(* What DropAll() makes of the ring of a state, whatever words it differs   *)
(* in, when it drops the pages of q from lo on.                             *)
LEMMA DropPages ==
  ASSUME Inv, NEW p \in Slots, NEW q \in Slots,
         NEW n \in Nat, DOMAIN pt[q] = 0 .. n - 1, NEW lo \in Nat, lo <= n,
         NEW l \in LruType, SameRing(l, Lru)
  PROVE  LET r == DropAll(l, p, q, pt[q], lo, n - 1)
         IN  r \in LruType /\ (Calm => Good(r, pt, q, lo, n))
<1>1. TypeInv /\ Apart(pt)
  BY DEF Inv, PlacesInv
<1>2. \A v \in DOMAIN pt[q] : pt[q][v] \in Frames
  BY <1>1, Pages
<1>3. n - 1 \in Int /\ lo - 1 <= n - 1 /\ n - 1 + 1 = n
      /\ \A v \in lo .. n - 1 : v \in DOMAIN pt[q] /\ pt[q][v] \in Frames
  <2>1. n - 1 \in Int /\ lo - 1 <= n - 1 /\ n - 1 + 1 = n /\ lo .. n - 1 \subseteq 0 .. n - 1
    OBVIOUS
  <2> QED
    BY <1>2, <2>1
<1>4. PICK r : r = DropAll(l, p, q, pt[q], lo, n - 1)
  OBVIOUS
<1>5. r \in LruType /\ (Good(l, pt, q, lo, lo) => Good(r, pt, q, lo, n - 1 + 1))
  BY <1>1, <1>3, <1>4, DropAllGood
<1>6. ASSUME Calm PROVE Good(l, pt, q, lo, lo)
  <2>1. Good(Lru, pt, 0, 0, 0)
    BY <1>6 DEF Inv, RingInv
  <2>2. PICK k \in LruType : k = Lru
    BY <1>1 DEF TypeInv
  <2>3. ASSUME NEW x \in Frames, Placed(k.node[x], x, pt, 0, 0, 0)
        PROVE  Placed(k.node[x], x, pt, q, lo, lo)
    <3>1. PICK y : y = k.node[x]
      OBVIOUS
    <3>2. y.vaddr \in Nat
      BY <3>1, LruParts
    <3>3. ~(lo <= y.vaddr /\ y.vaddr < lo)
      BY <3>2
    <3> QED
      BY <2>3, <3>1, <3>3 DEF Placed
  <2>4. Good(k, pt, 0, 0, 0) /\ SameRing(l, k)
    BY <2>1, <2>2
  <2> QED
    BY <2>3, <2>4, GoodMove
<1> QED
  BY <1>3, <1>4, <1>5, <1>6

(* The pages of the ring stay where they are, when a page table q gets has  *)
(* what is left of the old one.                                             *)
LEMMA RingKept ==
  ASSUME NEW r, NEW k, SameRing(k, r),
         NEW q \in Slots, NEW t, NEW u, NEW lo \in Nat, NEW hi \in Nat,
         Good(r, t, q, lo, hi), r \in LruType,
         \A v \in DOMAIN t[q] : v < lo \/ v >= hi => v \in DOMAIN u[q] /\ u[q][v] = t[q][v],
         \A s \in Slots : s # q => u[s] = t[s]
  PROVE  Good(k, u, 0, 0, 0)
<1>1. ASSUME NEW x \in Frames, Placed(r.node[x], x, t, q, lo, hi)
      PROVE  Placed(r.node[x], x, u, 0, 0, 0)
  <2>1. r.node[x].vaddr \in Nat
    BY LruParts
  <2>2. r.node[x].pgdir \in Slots /\ r.node[x].vaddr \in DOMAIN t[r.node[x].pgdir]
        /\ t[r.node[x].pgdir][r.node[x].vaddr] = x /\ r.node[x].pgdir # 0
    BY <1>1, Numbers DEF Placed
  <2>3. CASE r.node[x].pgdir # q
    BY <2>2, <2>3 DEF Placed
  <2>4. CASE r.node[x].pgdir = q
    <3>1. r.node[x].vaddr < lo \/ r.node[x].vaddr >= hi
      BY <1>1, <2>1, <2>4 DEF Placed
    <3> QED
      BY <2>2, <2>4, <3>1 DEF Placed
  <2> QED
    BY <2>3, <2>4
<1> QED
  BY <1>1, GoodMove

(* deallocuvm() of the last page.                                           *)
LEMMA ShrinkKeeps ==
  ASSUME Inv, NEW p \in Slots, Shrink(p)
  PROVE  Inv'
<1>1. TypeInv /\ PlacesInv /\ RingInv /\ halted = "" /\ Used(p) /\ Lru \in LruType
  BY RunsIs DEF Inv, Shrink, TypeInv
<1>2. PICK n \in Nat : n = Cardinality(DOMAIN pt[p])
  BY <1>1, Pages
<1>3. /\ DOMAIN pt[p] = 0 .. n - 1 /\ Image <= n /\ n <= MaxSize /\ n > Image
      /\ \A v \in DOMAIN pt[p] : pt[p][v] \in Frames
  BY <1>1, <1>2, Pages DEF Shrink
<1>4. PICK v \in Nat : v = n - 1
  BY <1>3, Numbers
<1>5. v \in DOMAIN pt[p] /\ Image <= v /\ v <= MaxSize /\ n = v + 1 /\ v <= n
  BY <1>3, <1>4, Numbers
<1>6. PICK r : r = DropAll(Lru, p, p, pt[p], v, n - 1)
  OBVIOUS
<1>7. r \in LruType /\ (Calm => Good(r, pt, p, v, n))
  <2>1. SameRing(Lru, Lru)
    BY DEF SameRing
  <2> QED
    BY <1>1, <1>3, <1>5, <1>6, <2>1, DropPages
<1>8. PICK w : w = Restrict(pt[p], DOMAIN pt[p] \ {v})
  OBVIOUS
<1>9. DOMAIN w = DOMAIN pt[p] \ {v} /\ \A u \in DOMAIN w : w[u] = pt[p][u] /\ u \in DOMAIN pt[p]
  BY <1>8 DEF Restrict
<1>10. /\ SetLru(r) /\ free' = free \cup {pt[p][v]}
       /\ pt' = [pt EXCEPT ![p] = w] /\ UNCHANGED zombie
  BY <1>2, <1>4, <1>6, <1>8 DEF Shrink
<1>11. IsTable(w)
  <2>1. DOMAIN pt[p] \ {v} = 0 .. v - 1
    BY <1>3, <1>4
  <2>2. w = [u \in 0 .. v - 1 |-> pt[p][u]]
    BY <1>8, <2>1 DEF Restrict
  <2>3. w \in [0 .. v - 1 -> Frames] /\ v \in Sizes
    BY <1>3, <1>5, <1>9, <2>1, <2>2, Numbers DEF Sizes
  <2> QED
    BY <2>3 DEF IsTable
<1>12. \A u \in DOMAIN pt[p] : pt[p][u] \notin free
  BY <1>1 DEF PlacesInv
<1>13. \A u, x \in DOMAIN pt[p] : pt[p][u] = pt[p][x] => u = x
  BY <1>1 DEF PlacesInv, Apart
<1>14. \A u, x \in DOMAIN w : w[u] = w[x] => u = x
  BY <1>9, <1>13
<1>15. ASSUME NEW u \in DOMAIN w
       PROVE  w[u] \notin free' /\ w[u] \in free \cup FramesOf(pt[p])
  BY <1>5, <1>9, <1>10, <1>12, <1>13 DEF FramesOf
<1>16. free' \subseteq free \cup FramesOf(pt[p])
  BY <1>5, <1>10 DEF FramesOf
<1>17. /\ free' \in SUBSET Frames
       /\ DOMAIN pt' = Slots /\ \A q \in Slots : IsTable(pt'[q])
       /\ \A q \in Slots : pt'[q] = IF q = p THEN w ELSE pt[q]
       /\ PlacesInv' /\ (Lost' = {} => Lost = {})
  BY <1>1, <1>10, <1>11, <1>14, <1>15, <1>16, Replace
<1>18. Lru' \in LruType /\ SameRing(Lru', r)
  BY <1>7, <1>10, LruNext
<1>19. TypeInv'
  <2>1. \A q \in zombie : q \in Slots /\ DOMAIN pt[q] # {}
    BY <1>1 DEF TypeInv, Used
  <2>2. DOMAIN w # {}
    <3>1. 0 \in 0 .. n - 1 /\ 0 # v
      BY <1>3, <1>4, Numbers
    <3> QED
      BY <1>3, <1>9, <3>1
  <2>3. \A q \in zombie' : Used(q)'
    BY <1>10, <1>17, <2>1, <2>2 DEF Used
  <2> QED
    BY <1>1, <1>10, <1>17, <1>18, <2>3 DEF TypeInv
<1>20. RingInv'
  <2> SUFFICES ASSUME Lost' = {} PROVE Good(Lru', pt', 0, 0, 0)
    BY DEF RingInv, Calm
  <2>1. Good(r, pt, p, v, n)
    BY <1>1, <1>7, <1>17 DEF Calm
  <2>2. \A u \in DOMAIN pt[p] : u < v \/ u >= n => u \in DOMAIN pt'[p] /\ pt'[p][u] = pt[p][u]
    <3> TAKE u \in DOMAIN pt[p]
    <3>1. u < v \/ u >= n => u # v
      BY <1>4
    <3> QED
      BY <1>9, <1>17, <3>1
  <2>3. \A s \in Slots : s # p => pt'[s] = pt[s]
    BY <1>17
  <2> QED
    BY <1>7, <1>18, <2>1, <2>2, <2>3, RingKept
<1> QED
  BY <1>17, <1>19, <1>20 DEF Inv

(* A table of n pages in frames that are given from the free list.          *)
IsNew(w, n) ==
  /\ IsTable(w) /\ DOMAIN w = 0 .. n - 1
  /\ \A u, v \in DOMAIN w : w[u] = w[v] => u = v
  /\ \A v \in DOMAIN w : w[v] \in free /\ w[v] \in Given(n)
  /\ \A p \in Slots : \A v \in DOMAIN pt[p] : pt[p][v] \notin free

(* The first n frames of the free list as a page table.                     *)
LEMMA NewTable ==
  ASSUME TypeInv, PlacesInv, NEW n \in Sizes, n <= Cardinality(free)
  PROVE  IsNew([v \in 0 .. n - 1 |-> Nth(v)], n)
<1>1. n \in Nat /\ free \in SUBSET Frames
  BY Numbers DEF Sizes, TypeInv
<1>2. /\ \A k \in 0 .. n - 1 : Nth(k) \in free /\ Nth(k) \in Frames /\ Nth(k) \in Given(n)
      /\ \A j, k \in 0 .. n - 1 : Nth(j) = Nth(k) => j = k
  BY <1>1, NthGiven
<1>3. PICK w : w = [v \in 0 .. n - 1 |-> Nth(v)]
  OBVIOUS
<1>4. w \in [0 .. n - 1 -> Frames] /\ DOMAIN w = 0 .. n - 1
  BY <1>2, <1>3
<1>5. IsNew(w, n)
  BY <1>2, <1>3, <1>4 DEF IsNew, IsTable, PlacesInv
<1> QED
  BY <1>3, <1>5

(* exec(): new pages for old ones.                                          *)
LEMMA ExecKeeps ==
  ASSUME Inv, NEW p \in Slots, Exec(p)
  PROVE  Inv'
<1>1. CASE Cardinality(free) < Image /\ reclaim
  BY <1>1, ReclaimKeeps
<1>2. CASE /\ Cardinality(free) >= Image
           /\ LET new == [v \in 0 .. Image - 1 |-> Nth(v)]
              IN /\ SetLru(DropAll([Lru EXCEPT !.word[p] = Wild], p, p, pt[p],
                                   0, Cardinality(DOMAIN pt[p]) - 1))
                 /\ free' = (free \ Given(Image)) \cup FramesOf(pt[p])
                 /\ pt' = [pt EXCEPT ![p] = new]
           /\ calls' = calls + 1 /\ UNCHANGED zombie
  <2>1. TypeInv /\ PlacesInv /\ RingInv /\ Used(p) /\ Lru \in LruType
    BY RunsIs DEF Inv, Exec, TypeInv
  <2>2. PICK n \in Nat : n = Cardinality(DOMAIN pt[p])
    BY <2>1, Pages
  <2>3. DOMAIN pt[p] = 0 .. n - 1
    BY <2>1, <2>2, Pages
  <2>4. PICK l : l = [Lru EXCEPT !.word[p] = Wild]
    OBVIOUS
  <2>5. l \in LruType /\ SameRing(l, Lru)
    <3>1. [Lru.word EXCEPT ![p] = Wild] \in [Slots -> Ptrs]
      BY <2>1, LruParts, Numbers
    <3> QED
      BY <2>1, <2>4, <3>1 DEF LruType, SameRing
  <2>6. PICK r : r = DropAll(l, p, p, pt[p], 0, n - 1)
    OBVIOUS
  <2>7. 0 \in Nat /\ 0 <= n
    OBVIOUS
  <2>8. r \in LruType /\ (Calm => Good(r, pt, p, 0, n))
    BY <2>3, <2>5, <2>6, <2>7, DropPages
  <2>9. PICK w : w = [v \in 0 .. Image - 1 |-> Nth(v)]
    OBVIOUS
  <2>10. /\ SetLru(r) /\ free' = (free \ Given(Image)) \cup FramesOf(pt[p])
         /\ pt' = [pt EXCEPT ![p] = w] /\ UNCHANGED zombie
    BY <1>2, <2>2, <2>4, <2>6, <2>9
  <2>11. Image \in Sizes /\ Image <= Cardinality(free)
    <3>1. Cardinality(free) \in Nat
      BY <2>1, FreeFinite DEF TypeInv
    <3> QED
      BY <1>2, <3>1, Numbers DEF Sizes
  <2>12. /\ IsTable(w) /\ DOMAIN w = 0 .. Image - 1
         /\ \A u, v \in DOMAIN w : w[u] = w[v] => u = v
         /\ \A v \in DOMAIN w : w[v] \in free /\ w[v] \in Given(Image)
         /\ \A q \in Slots : \A v \in DOMAIN pt[q] : pt[q][v] \notin free
    <3>1. IsNew(w, Image)
      BY <2>1, <2>9, <2>11, NewTable
    <3> QED
      BY <3>1 DEF IsNew
  <2>13. ASSUME NEW v \in DOMAIN w
         PROVE  w[v] \notin free' /\ w[v] \in free \cup FramesOf(pt[p])
    BY <2>10, <2>12 DEF FramesOf
  <2>14. free' \subseteq free \cup FramesOf(pt[p])
    BY <2>10
  <2>15. /\ free' \in SUBSET Frames
         /\ DOMAIN pt' = Slots /\ \A q \in Slots : IsTable(pt'[q])
         /\ \A q \in Slots : pt'[q] = IF q = p THEN w ELSE pt[q]
         /\ PlacesInv' /\ (Lost' = {} => Lost = {})
    BY <2>1, <2>10, <2>12, <2>13, <2>14, Replace
  <2>16. Lru' \in LruType /\ SameRing(Lru', r)
    BY <2>8, <2>10, LruNext
  <2>17. TypeInv'
    <3>1. \A q \in zombie : q \in Slots /\ DOMAIN pt[q] # {}
      BY <2>1 DEF TypeInv, Used
    <3>2. DOMAIN w # {}
      <4>1. 0 \in 0 .. Image - 1
        BY Numbers
      <4> QED
        BY <2>12, <4>1
    <3>3. \A q \in zombie' : Used(q)'
      BY <2>10, <2>15, <3>1, <3>2 DEF Used
    <3> QED
      BY <2>1, <2>10, <2>15, <2>16, <3>3 DEF TypeInv
  <2>18. RingInv'
    <3> SUFFICES ASSUME Lost' = {} PROVE Good(Lru', pt', 0, 0, 0)
      BY DEF RingInv, Calm
    <3>1. Good(r, pt, p, 0, n)
      BY <2>8, <2>15, RunsIs DEF Exec, Calm
    <3>2. \A u \in DOMAIN pt[p] : u < 0 \/ u >= n => u \in DOMAIN pt'[p] /\ pt'[p][u] = pt[p][u]
      BY <2>3
    <3>3. \A s \in Slots : s # p => pt'[s] = pt[s]
      BY <2>15
    <3> QED
      BY <2>7, <2>8, <2>16, <3>1, <3>2, <3>3, RingKept
  <2> QED
    BY <2>15, <2>17, <2>18 DEF Inv
<1> QED
  BY <1>1, <1>2 DEF Exec

(* exit() keeps its pages for wait().                                       *)
LEMMA ExitKeeps ==
  ASSUME Inv, NEW p \in Slots, Exit(p)
  PROVE  Inv'
<1>1. TypeInv /\ PlacesInv /\ RingInv /\ Used(p)
  BY RunsIs DEF Inv, Exit
<1>2. UNCHANGED <<free, pt, lruVars, halted>> /\ zombie' = zombie \cup {p}
  BY DEF Exit
<1>3. Lru' = Lru
  BY <1>2, LruSame
<1>4. TypeInv'
  BY <1>1, <1>2, <1>3 DEF TypeInv, Used
<1>5. PlacesInv'
  BY <1>1, <1>2 DEF PlacesInv
<1>6. RingInv'
  BY <1>1, <1>2, <1>3 DEF RingInv, Calm, Lost
<1> QED
  BY <1>4, <1>5, <1>6 DEF Inv

(* wait(): the pages of the child are freed.                                *)
LEMMA WaitKeeps ==
  ASSUME Inv, NEW p \in Slots, Wait(p)
  PROVE  Inv'
<1>1. TypeInv /\ PlacesInv /\ RingInv /\ Lru \in LruType
  BY DEF Inv, TypeInv
<1>2. PICK q \in zombie :
        /\ SetLru([DropAll(Lru, p, q, pt[q], 0, Cardinality(DOMAIN pt[q]) - 1)
                     EXCEPT !.word[q] = Wild])
        /\ free' = free \cup FramesOf(pt[q])
        /\ pt' = [pt EXCEPT ![q] = << >>]
        /\ zombie' = zombie \ {q}
  BY DEF Wait
<1>3. q \in Slots
  BY <1>1 DEF TypeInv
<1>4. PICK n \in Nat : n = Cardinality(DOMAIN pt[q])
  BY <1>1, <1>3, Pages
<1>5. DOMAIN pt[q] = 0 .. n - 1 /\ 0 \in Nat /\ 0 <= n
  BY <1>1, <1>3, <1>4, Pages
<1>6. PICK l : l = DropAll(Lru, p, q, pt[q], 0, n - 1)
  OBVIOUS
<1>7. l \in LruType /\ (Calm => Good(l, pt, q, 0, n))
  <2>1. SameRing(Lru, Lru)
    BY DEF SameRing
  <2> QED
    BY <1>1, <1>3, <1>5, <1>6, <2>1, DropPages
<1>8. PICK r : r = [l EXCEPT !.word[q] = Wild]
  OBVIOUS
<1>9. r \in LruType /\ SameRing(r, l)
  <2>1. [l.word EXCEPT ![q] = Wild] \in [Slots -> Ptrs]
    BY <1>3, <1>7, LruParts, Numbers
  <2> QED
    BY <1>3, <1>7, <1>8, <2>1 DEF LruType, SameRing
<1>10. Lru' \in LruType /\ SameRing(Lru', r)
  <2>1. SetLru(r)
    BY <1>2, <1>4, <1>6, <1>8
  <2> QED
    BY <1>9, <2>1, LruNext
<1>11. PICK w : w = << >>
  OBVIOUS
<1>12. IsTable(w) /\ DOMAIN w = {} /\ pt' = [pt EXCEPT ![q] = w]
  BY <1>2, <1>11, NoTable
<1>13. /\ free' \in SUBSET Frames
       /\ DOMAIN pt' = Slots /\ \A s \in Slots : IsTable(pt'[s])
       /\ \A s \in Slots : pt'[s] = IF s = q THEN w ELSE pt[s]
       /\ PlacesInv' /\ (Lost' = {} => Lost = {})
  <2>1. free' \subseteq free \cup FramesOf(pt[q])
    BY <1>2
  <2>2. /\ \A u, v \in DOMAIN w : w[u] = w[v] => u = v
        /\ \A v \in DOMAIN w : w[v] \notin free' /\ w[v] \in free \cup FramesOf(pt[q])
    BY <1>12
  <2> QED
    BY <1>1, <1>3, <1>12, <2>1, <2>2, Replace
<1>14. TypeInv'
  <2>1. \A s \in zombie : s \in Slots /\ DOMAIN pt[s] # {}
    BY <1>1 DEF TypeInv, Used
  <2>2. \A s \in zombie' : Used(s)'
    BY <1>2, <1>13, <2>1 DEF Used
  <2> QED
    BY <1>1, <1>2, <1>13, <1>10, <2>2 DEF TypeInv
<1>15. RingInv'
  <2> SUFFICES ASSUME Lost' = {} PROVE Good(Lru', pt', 0, 0, 0)
    BY DEF RingInv, Calm
  <2>1. Good(l, pt, q, 0, n)
    BY <1>7, <1>13, RunsIs DEF Wait, Calm
  <2>2. \A u \in DOMAIN pt[q] : u < 0 \/ u >= n => u \in DOMAIN pt'[q] /\ pt'[q][u] = pt[q][u]
    BY <1>5
  <2>3. \A s \in Slots : s # q => pt'[s] = pt[s]
    BY <1>13
  <2>4. SameRing(Lru', l)
    BY <1>9, <1>10 DEF SameRing
  <2>5. l \in LruType /\ 0 \in Nat
    BY <1>7
  <2> QED
    BY <1>3, <2>1, <2>2, <2>3, <2>4, <2>5, RingKept
<1> QED
  BY <1>13, <1>14, <1>15 DEF Inv

(* The page tables with the copy of m pages as the table of q.              *)
IsCopy(t, q, m) == t = [pt EXCEPT ![q] = [v \in 0 .. m - 1 |-> Nth(v)]]

Copied(t, p, q, m) ==
  /\ Apart(t) /\ DOMAIN t[q] = 0 .. m - 1
  /\ \A v \in 0 .. m - 1 : t[q][v] \in Frames
  /\ \A s \in Slots : s # q => t[s] = pt[s]
  /\ CopyAll(Lru, p, q, m) \in LruType
  /\ Calm => Good(CopyAll(Lru, p, q, m), t, q, m, m)

(* copyuvm() enters the copies in the ring.                                 *)
LEMMA CopyPages ==
  ASSUME Inv, NEW p \in Slots, NEW q \in Slots, ~Used(q),
         NEW m \in Nat, m <= Cardinality(free), NEW t, IsCopy(t, q, m)
  PROVE  Copied(t, p, q, m)
<1>1. TypeInv /\ PlacesInv /\ Lru \in LruType /\ free \in SUBSET Frames /\ DOMAIN pt[q] = {}
  BY DEF Inv, TypeInv, Used
<1>2. /\ \A k \in 0 .. m - 1 : Nth(k) \in free /\ Nth(k) \in Frames
      /\ \A j, k \in 0 .. m - 1 : Nth(j) = Nth(k) => j = k
  BY <1>1, NthGiven
<1>3. /\ \A s \in Slots : s # q => t[s] = pt[s]
      /\ t[q] = [v \in 0 .. m - 1 |-> Nth(v)]
  BY <1>1 DEF TypeInv, IsCopy
<1>4. DOMAIN t[q] = 0 .. m - 1 /\ \A v \in 0 .. m - 1 : t[q][v] = Nth(v)
  BY <1>3
<1>5. Apart(t)
  <2> SUFFICES ASSUME NEW r \in Slots, NEW s \in Slots, NEW u \in DOMAIN t[r],
                      NEW v \in DOMAIN t[s], t[r][u] = t[s][v]
               PROVE  r = s /\ u = v
    BY DEF Apart
  <2>1. \A x \in Slots : \A y \in DOMAIN pt[x] : pt[x][y] \notin free
    BY <1>1 DEF PlacesInv
  <2>2. CASE r = q /\ s = q
    BY <1>2, <1>4, <2>2
  <2>3. CASE r = q /\ s # q
    BY <1>2, <1>3, <1>4, <2>1, <2>3
  <2>4. CASE r # q /\ s = q
    BY <1>2, <1>3, <1>4, <2>1, <2>4
  <2>5. CASE r # q /\ s # q
    BY <1>1, <1>3, <2>5 DEF PlacesInv, Apart
  <2> QED
    BY <2>2, <2>3, <2>4, <2>5
<1>6. \A k \in 0 .. m - 1 : k \in DOMAIN t[q] /\ t[q][k] = Nth(k) /\ Nth(k) \in Frames
  BY <1>2, <1>4
<1>7. PICK k \in LruType : k = Lru
  BY <1>1
<1>8. /\ CopyAll(k, p, q, m) \in LruType
      /\ Good(k, t, q, 0, m) => Good(CopyAll(k, p, q, m), t, q, m, m)
  BY <1>5, <1>6, CopyAllGood
<1>9. ASSUME Calm PROVE Good(k, t, q, 0, m)
  <2>1. Good(k, pt, 0, 0, 0)
    BY <1>7, <1>9 DEF Inv, RingInv
  <2>2. SameRing(k, k)
    BY DEF SameRing
  <2>3. ASSUME NEW x \in Frames, Placed(k.node[x], x, pt, 0, 0, 0)
        PROVE  Placed(k.node[x], x, t, q, 0, m)
    <3>1. k.node[x].pgdir # q
      BY <1>1, <2>3 DEF Placed
    <3> QED
      BY <1>3, <2>3, <3>1 DEF Placed
  <2> QED
    BY <2>1, <2>2, <2>3, GoodMove
<1> QED
  BY <1>2, <1>3, <1>4, <1>5, <1>7, <1>8, <1>9 DEF Copied

(* fork() with enough memory.                                               *)
LEMMA ForkDone ==
  ASSUME Inv, NEW p \in Slots, Runs(p), NEW q \in Slots, ~Used(q),
         Cardinality(DOMAIN pt[p]) <= Cardinality(free),
         SetLru([CopyAll(Lru, p, q, Cardinality(DOMAIN pt[p])) EXCEPT !.word[q] = word[p]]),
         free' = free \ Given(Cardinality(DOMAIN pt[p])),
         pt' = [pt EXCEPT ![q] = [v \in 0 .. Cardinality(DOMAIN pt[p]) - 1 |-> Nth(v)]],
         UNCHANGED zombie
  PROVE  Inv'
<1>1. TypeInv /\ PlacesInv /\ Lru \in LruType
  BY DEF Inv, TypeInv
<1>2. PICK n \in Nat : n = Cardinality(DOMAIN pt[p])
  BY <1>1, Pages
<1>3. n \in Sizes /\ n <= Cardinality(free)
  <2>1. IsTable(pt[p])
    BY <1>1, Pages
  <2> QED
    BY <1>2, <2>1, TableSize
<1>4. PICK w : w = [v \in 0 .. n - 1 |-> Nth(v)]
  OBVIOUS
<1>5. PICK l : l = CopyAll(Lru, p, q, n)
  OBVIOUS
<1>6. PICK r : r = [l EXCEPT !.word[q] = word[p]]
  OBVIOUS
<1>7. SetLru(r) /\ free' = free \ Given(n) /\ pt' = [pt EXCEPT ![q] = w]
  BY <1>2, <1>4, <1>5, <1>6
<1>8. /\ l \in LruType /\ DOMAIN pt'[q] = 0 .. n - 1
      /\ Calm => Good(l, pt', q, n, n)
  <2>1. PICK t : t = pt'
    OBVIOUS
  <2>2. IsCopy(t, q, n)
    BY <1>4, <1>7, <2>1 DEF IsCopy
  <2>3. Copied(t, p, q, n)
    BY <1>3, <2>2, CopyPages
  <2> QED
    BY <1>5, <2>1, <2>3 DEF Copied
<1>9. r \in LruType /\ SameRing(r, l)
  <2>1. word[p] \in Ptrs
    <3>1. Lru.word = word
      BY DEF Lru
    <3> QED
      BY <1>1, <3>1, LruParts
  <2>2. [l.word EXCEPT ![q] = word[p]] \in [Slots -> Ptrs]
    BY <1>8, <2>1, LruParts
  <2> QED
    BY <1>6, <1>8, <2>2 DEF LruType, SameRing
<1>10. Lru' \in LruType /\ SameRing(Lru', r)
  BY <1>7, <1>9, LruNext
<1>11. IsNew(w, n)
  BY <1>1, <1>3, <1>4, NewTable
<1>12. /\ free' \in SUBSET Frames
       /\ DOMAIN pt' = Slots /\ \A s \in Slots : IsTable(pt'[s])
       /\ \A s \in Slots : pt'[s] = IF s = q THEN w ELSE pt[s]
       /\ PlacesInv' /\ (Lost' = {} => Lost = {})
  <2>1. IsTable(w) /\ \A u, v \in DOMAIN w : w[u] = w[v] => u = v
    BY <1>11 DEF IsNew
  <2>2. \A v \in DOMAIN w : w[v] \notin free' /\ w[v] \in free \cup FramesOf(pt[q])
    BY <1>7, <1>11 DEF IsNew
  <2>3. free' \subseteq free \cup FramesOf(pt[q])
    BY <1>7
  <2> QED
    BY <1>1, <1>7, <2>1, <2>2, <2>3, Replace
<1>13. TypeInv'
  <2>1. \A s \in zombie : s \in Slots /\ DOMAIN pt[s] # {}
    BY <1>1 DEF TypeInv, Used
  <2>2. \A s \in zombie : s # q
    BY <2>1 DEF Used
  <2>3. \A s \in zombie' : Used(s)'
    BY <1>12, <2>1, <2>2 DEF Used
  <2> QED
    BY <1>1, <1>10, <1>12, <2>3 DEF TypeInv
<1>14. RingInv'
  <2> SUFFICES ASSUME Lost' = {} PROVE Good(Lru', pt', 0, 0, 0)
    BY DEF RingInv, Calm
  <2>1. Good(l, pt', q, n, n)
    BY <1>8, <1>12, RunsIs DEF Calm
  <2>2. PICK t : t = pt'
    OBVIOUS
  <2>3. SameRing(Lru', l)
    BY <1>9, <1>10 DEF SameRing
  <2>4. l \in LruType /\ Good(l, t, q, n, n)
    BY <1>8, <2>1, <2>2
  <2>5. Good(Lru', t, 0, 0, 0)
    BY <2>3, <2>4, RingKept
  <2> QED
    BY <2>2, <2>5
<1> QED
  BY <1>12, <1>13, <1>14 DEF Inv

(* freevm() takes the copies back.                                          *)
LEMMA TakenBack ==
  ASSUME Inv, NEW p \in Slots, NEW q \in Slots, ~Used(q),
         NEW m \in Nat, m <= Cardinality(free), NEW t, IsCopy(t, q, m)
  PROVE  /\ DropAll(CopyAll(Lru, p, q, m), p, q, t[q], 0, m - 1) \in LruType
         /\ Calm => Good(DropAll(CopyAll(Lru, p, q, m), p, q, t[q], 0, m - 1), pt, 0, 0, 0)
<1>1. PICK l : l = CopyAll(Lru, p, q, m)
  OBVIOUS
<1>2. /\ Apart(t) /\ DOMAIN t[q] = 0 .. m - 1
      /\ \A v \in 0 .. m - 1 : t[q][v] \in Frames
      /\ \A s \in Slots : s # q => t[s] = pt[s]
      /\ l \in LruType
      /\ Calm => Good(l, t, q, m, m)
  <2>1. Copied(t, p, q, m)
    BY CopyPages
  <2> QED
    BY <1>1, <2>1 DEF Copied
<1>3. PICK r : r = DropAll(l, p, q, t[q], 0, m - 1)
  OBVIOUS
<1>4. r \in LruType /\ (Good(l, t, q, 0, 0) => Good(r, t, q, 0, m))
  <2>1. /\ 0 \in Nat /\ m - 1 \in Int /\ 0 - 1 <= m - 1 /\ m - 1 + 1 = m
        /\ \A v \in 0 .. m - 1 : v \in DOMAIN t[q] /\ t[q][v] \in Frames
    BY <1>2
  <2> QED
    BY <1>2, <1>3, <2>1, DropAllGood
<1>5. ASSUME Calm PROVE Good(r, pt, 0, 0, 0)
  <2>1. Good(l, t, q, m, m)
    BY <1>2, <1>5
  <2>2. Good(l, t, q, 0, 0)
    <3>1. SameRing(l, l)
      BY DEF SameRing
    <3>2. ASSUME NEW x \in Frames, Placed(l.node[x], x, t, q, m, m)
          PROVE  Placed(l.node[x], x, t, q, 0, 0)
      <4>1. l.node[x].vaddr \in Nat
        BY <1>2, LruParts
      <4>2. ~(0 <= l.node[x].vaddr /\ l.node[x].vaddr < 0)
        BY <4>1
      <4> QED
        BY <3>2, <4>2 DEF Placed
    <3> QED
      BY <2>1, <3>1, <3>2, GoodMove
  <2>3. Good(r, t, q, 0, m)
    BY <1>4, <2>2
  <2>4. \A v \in DOMAIN t[q] : v < 0 \/ v >= m => v \in DOMAIN pt[q] /\ pt[q][v] = t[q][v]
    BY <1>2
  <2>5. /\ \A s \in Slots : s # q => pt[s] = t[s]
        /\ r \in LruType /\ 0 \in Nat
    BY <1>2, <1>4
  <2>6. SameRing(r, r)
    BY DEF SameRing
  <2> QED
    BY <2>3, <2>4, <2>5, <2>6, RingKept
<1> QED
  BY <1>1, <1>3, <1>4, <1>5

(* fork() that runs out of memory, with nothing to reclaim.                 *)
LEMMA ForkUndone ==
  ASSUME Inv, NEW p \in Slots, Runs(p), NEW q \in Slots, ~Used(q),
         NEW m \in Nat, m <= Cardinality(free),
         SetLru(DropAll(CopyAll(Lru, p, q, m), p, q, [v \in 0 .. m - 1 |-> Nth(v)], 0, m - 1)),
         UNCHANGED <<free, pt, zombie>>
  PROVE  Inv'
<1>1. TypeInv /\ PlacesInv
  BY DEF Inv, TypeInv
<1>2. PICK t : t = [pt EXCEPT ![q] = [v \in 0 .. m - 1 |-> Nth(v)]]
  OBVIOUS
<1>3. PICK r : r = DropAll(CopyAll(Lru, p, q, m), p, q, t[q], 0, m - 1)
  OBVIOUS
<1>4. SetLru(r)
  <2>1. t[q] = [v \in 0 .. m - 1 |-> Nth(v)]
    BY <1>1, <1>2 DEF TypeInv
  <2> QED
    BY <1>3, <2>1
<1>5. r \in LruType /\ (Calm => Good(r, pt, 0, 0, 0))
  <2>1. IsCopy(t, q, m)
    BY <1>2 DEF IsCopy
  <2> QED
    BY <1>3, <2>1, TakenBack
<1>6. Lru' \in LruType /\ SameRing(Lru', r)
  BY <1>4, <1>5, LruNext
<1>7. TypeInv'
  BY <1>1, <1>6 DEF TypeInv, Used
<1>8. PlacesInv'
  BY <1>1 DEF PlacesInv
<1>9. RingInv'
  <2> SUFFICES ASSUME Lost' = {} PROVE Good(Lru', pt, 0, 0, 0)
    BY DEF RingInv, Calm
  <2>1. Calm
    BY RunsIs DEF Lost, Calm
  <2>2. Good(r, pt, 0, 0, 0)
    BY <1>5, <2>1
  <2> QED
    BY <1>6, <2>2, GoodMove
<1> QED
  BY <1>7, <1>8, <1>9 DEF Inv

(* fork(), with its three endings.                                          *)
LEMMA ForkKeeps ==
  ASSUME Inv, NEW p \in Slots, Fork(p)
  PROVE  Inv'
<1>1. Runs(p) /\ TypeInv
  BY DEF Fork, Inv
<1>2. PICK n \in Nat : n = Cardinality(DOMAIN pt[p])
  BY <1>1, Pages
<1>3. PICK m : m = Min({n, Cardinality(free)})
  OBVIOUS
<1>4. m \in Nat /\ m <= Cardinality(free) /\ Cardinality(free) \in Nat
  <2>1. PICK c \in Nat : c = Cardinality(free)
    BY <1>1, FreeFinite DEF TypeInv
  <2>2. \E x \in {n, c} : \A y \in {n, c} : x <= y
    <3>1. n <= c \/ c <= n
      BY <2>1
    <3> QED
      BY <3>1
  <2>3. m \in {n, c} /\ \A y \in {n, c} : m <= y
    BY <1>3, <2>1, <2>2 DEF Min
  <2> QED
    BY <2>1, <2>3
<1>5. PICK q \in Slots :
        LET copied == CopyAll(Lru, p, q, m)
            copy == [v \in 0 .. m - 1 |-> Nth(v)]
        IN /\ ~Used(q)
           /\ \/ /\ m = n
                 /\ SetLru([copied EXCEPT !.word[q] = word[p]])
                 /\ free' = free \ Given(n)
                 /\ pt' = [pt EXCEPT ![q] = copy] /\ UNCHANGED zombie
              \/ Stop(IF copied.head = Null THEN "wild" ELSE "sched")
              \/ /\ SetLru(DropAll(copied, p, q, copy, 0, m - 1))
                 /\ UNCHANGED <<free, pt, zombie>>
  BY <1>2, <1>3 DEF Fork
<1>6. CASE /\ m = n
           /\ SetLru([CopyAll(Lru, p, q, m) EXCEPT !.word[q] = word[p]])
           /\ free' = free \ Given(n)
           /\ pt' = [pt EXCEPT ![q] = [v \in 0 .. m - 1 |-> Nth(v)]] /\ UNCHANGED zombie
  BY <1>1, <1>2, <1>4, <1>5, <1>6, ForkDone
<1>7. CASE Stop(IF CopyAll(Lru, p, q, m).head = Null THEN "wild" ELSE "sched")
  BY <1>7, StopKeeps
<1>8. CASE /\ SetLru(DropAll(CopyAll(Lru, p, q, m), p, q,
                             [v \in 0 .. m - 1 |-> Nth(v)], 0, m - 1))
           /\ UNCHANGED <<free, pt, zombie>>
  BY <1>1, <1>4, <1>5, <1>8, ForkUndone
<1> QED
  BY <1>5, <1>6, <1>7, <1>8

(* A fault on a page that is present: its frame is lost.                    *)
LEMMA GuardFaultKeeps ==
  ASSUME Inv, NEW p \in Slots, GuardFault(p)
  PROVE  Inv'
<1>1. CASE free = {} /\ reclaim
  BY <1>1, ReclaimKeeps
<1>2. CASE free # {} /\ Stop("swapread")
  BY <1>2, StopKeeps
<1>3. CASE /\ free # {}
           /\ pt' = [pt EXCEPT ![p][Guard] = Nth(0)]
           /\ free' = free \ Given(1)
           /\ UNCHANGED <<lruVars, zombie, halted>>
  <2>1. TypeInv /\ PlacesInv /\ Used(p)
    BY RunsIs DEF Inv, GuardFault
  <2>2. PICK n \in Nat : n = Cardinality(DOMAIN pt[p])
    BY <2>1, Pages
  <2>3. /\ DOMAIN pt[p] = 0 .. n - 1 /\ n \in Sizes /\ 2 <= n
        /\ pt[p] \in [0 .. n - 1 -> Frames]
    <3>1. IsTable(pt[p]) /\ DOMAIN pt[p] = 0 .. n - 1 /\ Image <= n
      BY <2>1, <2>2, Pages
    <3>2. n \in Sizes /\ pt[p] \in [0 .. n - 1 -> Frames]
      BY <2>2, <3>1, TableSize
    <3> QED
      BY <3>1, <3>2, Numbers
  <2>4. Guard \in DOMAIN pt[p]
    BY <2>3 DEF Guard
  <2>5. Nth(0) \in free /\ Nth(0) \in Frames /\ Nth(0) \in Given(1) /\ Given(1) \subseteq free
    BY <1>3, <2>1, FirstFree DEF TypeInv
  <2>6. PICK w : w = [pt[p] EXCEPT ![Guard] = Nth(0)]
    OBVIOUS
  <2>7. /\ w \in [0 .. n - 1 -> Frames] /\ DOMAIN w = DOMAIN pt[p] /\ IsTable(w)
        /\ \A v \in DOMAIN w : w[v] = IF v = Guard THEN Nth(0) ELSE pt[p][v]
    BY <2>3, <2>4, <2>5, <2>6 DEF IsTable
  <2>8. pt' = [pt EXCEPT ![p] = w]
    BY <1>3, <2>6
  <2>9. \A q \in Slots : \A v \in DOMAIN pt[q] : pt[q][v] \notin free
    BY <2>1 DEF PlacesInv
  <2>10. \A u, v \in DOMAIN pt[p] : pt[p][u] = pt[p][v] => u = v
    BY <2>1 DEF PlacesInv, Apart
  <2>11. \A u, v \in DOMAIN w : w[u] = w[v] => u = v
    BY <2>5, <2>7, <2>9, <2>10
  <2>12. \A v \in DOMAIN w : w[v] \notin free' /\ w[v] \in free \cup FramesOf(pt[p])
    BY <1>3, <2>5, <2>7, <2>9 DEF FramesOf
  <2>13. free' \subseteq free \cup FramesOf(pt[p])
    BY <1>3
  <2>14. /\ free' \in SUBSET Frames
         /\ DOMAIN pt' = Slots /\ \A q \in Slots : IsTable(pt'[q])
         /\ \A q \in Slots : pt'[q] = IF q = p THEN w ELSE pt[q]
         /\ PlacesInv'
    BY <2>1, <2>7, <2>8, <2>11, <2>12, <2>13, Replace
  <2>15. TypeInv'
    <3>1. \A q \in zombie : q \in Slots /\ DOMAIN pt[q] # {}
      BY <2>1 DEF TypeInv, Used
    <3>2. DOMAIN w # {}
      BY <2>4, <2>7
    <3>3. \A q \in zombie' : Used(q)'
      BY <1>3, <2>14, <3>1, <3>2 DEF Used
    <3>4. Lru' = Lru
      BY <1>3, LruSame
    <3> QED
      BY <1>3, <2>1, <2>14, <3>3, <3>4 DEF TypeInv
  <2>16. PICK f \in Frames : f = pt[p][Guard]
    BY <2>3, <2>4
  <2>17. f \notin free' /\ f # Nth(0)
    BY <1>3, <2>4, <2>5, <2>9, <2>16
  <2>18. ASSUME NEW q \in Slots, NEW v \in DOMAIN pt'[q] PROVE pt'[q][v] # f
    <3>1. CASE q = p /\ v = Guard
      BY <2>7, <2>14, <2>17, <3>1
    <3>2. CASE q = p /\ v # Guard
      BY <2>4, <2>7, <2>10, <2>14, <2>16, <3>2
    <3>3. CASE q # p
      BY <2>1, <2>4, <2>14, <2>16, <3>3 DEF PlacesInv, Apart
    <3> QED
      BY <3>1, <3>2, <3>3
  <2>19. f \in Lost'
    BY <2>17, <2>18 DEF Lost, FramesOf
  <2>20. RingInv'
    BY <2>19 DEF RingInv, Calm
  <2> QED
    BY <2>14, <2>15, <2>20 DEF Inv
<1> QED
  BY <1>1, <1>2, <1>3 DEF GuardFault

(* A fault elsewhere: the frame that was to be mapped is lost.              *)
LEMMA FarFaultKeeps ==
  ASSUME Inv, NEW p \in Slots, FarFault(p)
  PROVE  Inv'
<1>1. CASE free = {} /\ reclaim
  BY <1>1, ReclaimKeeps
<1>2. CASE free # {} /\ Stop("swapread")
  BY <1>2, StopKeeps
<1>3. CASE /\ free # {} /\ free' = free \ Given(1)
           /\ UNCHANGED <<pt, lruVars, zombie, halted>>
  <2>1. TypeInv /\ PlacesInv
    BY DEF Inv
  <2>2. Nth(0) \in free /\ Nth(0) \in Frames /\ Nth(0) \in Given(1)
    BY <1>3, <2>1, FirstFree DEF TypeInv
  <2>3. \A q \in Slots : \A v \in DOMAIN pt[q] : pt[q][v] \notin free
    BY <2>1 DEF PlacesInv
  <2>4. TypeInv'
    <3>1. Lru' = Lru
      BY <1>3, LruSame
    <3> QED
      BY <1>3, <2>1, <3>1 DEF TypeInv, Used
  <2>5. PlacesInv'
    BY <1>3, <2>1 DEF PlacesInv
  <2>6. Nth(0) \in Lost'
    <3>1. \A q \in Slots : \A v \in DOMAIN pt'[q] : pt'[q][v] # Nth(0)
      BY <1>3, <2>2, <2>3
    <3>2. PICK f \in Frames : f = Nth(0)
      BY <2>2
    <3>3. f \in Lost'
      BY <1>3, <2>2, <3>1, <3>2 DEF Lost, FramesOf
    <3> QED
      BY <3>2, <3>3
  <2>7. RingInv'
    BY <2>6 DEF RingInv, Calm
  <2> QED
    BY <2>4, <2>5, <2>7 DEF Inv
<1> QED
  BY <1>1, <1>2, <1>3 DEF FarFault

-----------------------------------------------------------------------------
(* The inductive invariant.                                                 *)

(* The first process has its image, and the ring is empty.                  *)
LEMMA InitInv ==
  Init => Inv
<1> SUFFICES ASSUME Init PROVE Inv
  OBVIOUS
<1>1. Image \in Nat /\ Image \in Sizes /\ 0 .. Image - 1 # {} /\ 1 \in Slots
      /\ \A v \in 0 .. Image - 1 : v + 1 \in Frames /\ v + 1 \in 1 .. Image
  <2>1. 0 \in 0 .. Image - 1 /\ 1 \in Slots /\ Image \in Sizes
    BY Numbers DEF Slots, Sizes
  <2> QED
    BY <2>1, Numbers DEF Frames
<1>2. PICK w : w = [v \in 0 .. Image - 1 |-> v + 1]
  OBVIOUS
<1>3. /\ IsTable(w) /\ DOMAIN w = 0 .. Image - 1
      /\ \A v \in DOMAIN w : w[v] = v + 1 /\ w[v] \in 1 .. Image
  <2>1. w \in [0 .. Image - 1 -> Frames]
    BY <1>1, <1>2
  <2> QED
    BY <1>1, <1>2, <2>1 DEF IsTable
<1>4. PICK e : e = << >>
  OBVIOUS
<1>5. IsTable(e) /\ DOMAIN e = {}
  BY <1>4, NoTable
<1>6. DOMAIN pt = Slots /\ \A p \in Slots : pt[p] = IF p = 1 THEN w ELSE e
  BY <1>2, <1>4 DEF Init
<1>7. Lru \in LruType /\ Lru.head = Null
  <2>1. /\ node \in [Frames -> NodeType] /\ head \in Frames \cup {Null} /\ num \in Int
        /\ word \in [Slots -> Ptrs] /\ head = Null
    <3>1. NoNode \in NodeType
      BY Numbers DEF NoNode, NodeType, Null
    <3>2. /\ node = [f \in Frames |-> NoNode] /\ head = Null /\ num = 0
          /\ word = [p \in Slots |-> Wild]
      BY DEF Init
    <3> QED
      BY <3>1, <3>2, Numbers
  <2> QED
    BY <2>1 DEF Lru, LruType
<1>8. TypeInv
  BY <1>3, <1>5, <1>6, <1>7 DEF TypeInv, Init
<1>9. PlacesInv
  <2>1. \A p \in Slots : DOMAIN pt[p] # {} => p = 1 /\ pt[p] = w
    BY <1>5, <1>6
  <2>2. free = Frames \ 1 .. Image
    BY DEF Init
  <2>3. \A u, v \in DOMAIN w : w[u] = w[v] => u = v
    BY <1>1, <1>3
  <2>4. Apart(pt)
    BY <2>1, <2>3 DEF Apart
  <2>5. \A p \in Slots : \A v \in DOMAIN pt[p] : pt[p][v] \notin free
    BY <1>3, <2>1, <2>2
  <2> QED
    BY <2>4, <2>5 DEF PlacesInv
<1>10. RingInv
  BY <1>7 DEF RingInv, Good
<1> QED
  BY <1>8, <1>9, <1>10 DEF Inv

(* Every step keeps the invariant.                                          *)
LEMMA NextInv ==
  Inv /\ [Next]_vars => Inv'
<1> SUFFICES ASSUME Inv, [Next]_vars PROVE Inv'
  OBVIOUS
<1>1. ASSUME NEW p \in Slots, \/ Grow(p) \/ Shrink(p) \/ Fork(p) \/ Exec(p) \/ Exit(p)
                              \/ Wait(p) \/ GuardFault(p) \/ FarFault(p)
      PROVE  Inv'
  BY <1>1, GrowKeeps, ShrinkKeeps, ForkKeeps, ExecKeeps, ExitKeeps, WaitKeeps,
     GuardFaultKeeps, FarFaultKeeps
<1>2. CASE Halted
  BY <1>2, StutterKeeps DEF Halted
<1>3. CASE UNCHANGED vars
  BY <1>3, StutterKeeps
<1> QED
  BY <1>1, <1>2, <1>3 DEF Next

(* The inductive invariant: page tables, the free list and the ring of      *)
(* pages[] agree in every state the kernel reaches.                         *)
THEOREM SwapInvariant ==
  Spec => []Inv
BY InitInv, NextInv, PTL DEF Spec

-----------------------------------------------------------------------------
(* What follows.                                                            *)

(* The invariant and the places of a frame.                                 *)
LEMMA InvFrames ==
  Inv => FramesDisjoint
<1> SUFFICES ASSUME Inv, NEW f \in Frames
             PROVE  Cardinality({x \in Slots \X (0 .. MaxSize - 1) :
                                   x[2] \in DOMAIN pt[x[1]] /\ pt[x[1]][x[2]] = f})
                      + (IF f \in free THEN 1 ELSE 0) <= 1
  BY DEF FramesDisjoint
<1> DEFINE S == {x \in Slots \X (0 .. MaxSize - 1) :
                   x[2] \in DOMAIN pt[x[1]] /\ pt[x[1]][x[2]] = f}
<1>1. Apart(pt) /\ \A p \in Slots : \A v \in DOMAIN pt[p] : pt[p][v] \notin free
  BY DEF Inv, PlacesInv
<1>2. \A x \in S : x[1] \in Slots /\ x[2] \in DOMAIN pt[x[1]] /\ pt[x[1]][x[2]] = f
                   /\ x = <<x[1], x[2]>>
  OBVIOUS
<1>3. \A x, y \in S : x[1] = y[1] /\ x[2] = y[2]
  BY <1>1, <1>2 DEF Apart
<1>4. \A x, y \in S : x = y
  BY <1>2, <1>3
<1> HIDE DEF S
<1>5. CASE S = {}
  <2>1. Cardinality(S) = 0
    BY <1>5, FS_EmptySet
  <2>2. Cardinality(S) + (IF f \in free THEN 1 ELSE 0) <= 1
    BY <2>1
  <2> QED
    BY <2>2 DEF S
<1>6. CASE S # {}
  <2>1. PICK x : x \in S
    BY <1>6
  <2>2. S = {x} /\ f \notin free
    BY <1>1, <1>2, <1>4, <2>1
  <2>3. Cardinality(S) = 1
    BY <2>2, FS_Singleton
  <2>4. Cardinality(S) + (IF f \in free THEN 1 ELSE 0) <= 1
    BY <2>2, <2>3
  <2> QED
    BY <2>4 DEF S
<1> QED
  BY <1>5, <1>6

(* The ring of a state.                                                     *)
LEMMA RingIs ==
  ASSUME Inv, head # Null, Calm
  PROVE  \E n \in Nat \ {0} : \E s \in [0 .. n -> Frames] :
           /\ IsRing(Lru, s, n) /\ num > n
           /\ \A i \in 0 .. n - 1 : Placed(node[s[i]], s[i], pt, 0, 0, 0)
           /\ \A f \in Ring : \E i \in 0 .. n - 1 : f = s[i]
<1>1. Lru.head = head /\ Lru.num = num /\ Lru.node = node
  BY DEF Lru
<1>2. PICK l \in LruType : l = Lru
  BY DEF Inv, TypeInv
<1>3. Good(l, pt, 0, 0, 0) /\ l.head # Null
  BY <1>1, <1>2 DEF Inv, RingInv
<1>4. PICK n \in Nat \ {0} : \E s \in [0 .. n -> Frames] :
        /\ IsRing(l, s, n) /\ l.num > n
        /\ \A i \in 0 .. n - 1 : Placed(l.node[s[i]], s[i], pt, 0, 0, 0)
  BY <1>3 DEF Good
<1>5. PICK s \in [0 .. n -> Frames] :
        /\ IsRing(l, s, n) /\ l.num > n
        /\ \A i \in 0 .. n - 1 : Placed(l.node[s[i]], s[i], pt, 0, 0, 0)
  BY <1>4
<1>6. \A k \in 0 .. NFRAME : \E i \in 0 .. n - 1 : At(l, k) = s[i]
  BY <1>5, RingWalk
<1>7. \A f \in Ring : \E i \in 0 .. n - 1 : f = s[i]
  BY <1>2, <1>6 DEF Ring
<1> QED
  BY <1>1, <1>2, <1>5, <1>7

(* The invariant and the pages of the ring.                                 *)
LEMMA InvRing ==
  Inv => RingSound
<1> SUFFICES ASSUME Inv, head # Null, Calm
             PROVE  \A f \in Ring : /\ f \in Frames /\ node[f].next \in Frames
                                    /\ node[node[f].next].prev = f
                                    /\ node[f].vaddr \in DOMAIN pt[node[f].pgdir]
                                    /\ pt[node[f].pgdir][node[f].vaddr] = f
  BY DEF RingSound, Calm
<1>1. PICK n \in Nat \ {0} : \E s \in [0 .. n -> Frames] :
        /\ IsRing(Lru, s, n) /\ num > n
        /\ \A i \in 0 .. n - 1 : Placed(node[s[i]], s[i], pt, 0, 0, 0)
        /\ \A f \in Ring : \E i \in 0 .. n - 1 : f = s[i]
  BY RingIs
<1>2. PICK s \in [0 .. n -> Frames] :
        /\ IsRing(Lru, s, n)
        /\ \A i \in 0 .. n - 1 : Placed(node[s[i]], s[i], pt, 0, 0, 0)
        /\ \A f \in Ring : \E i \in 0 .. n - 1 : f = s[i]
  BY <1>1
<1>3. \A i \in 0 .. n - 1 : node[s[i]].next = s[i + 1] /\ node[s[i + 1]].prev = s[i]
  BY <1>2 DEF IsRing, Lru
<1> TAKE f \in Ring
<1>4. PICK i \in 0 .. n - 1 : f = s[i]
  BY <1>2
<1>5. s[i] \in Frames /\ s[i + 1] \in Frames
  OBVIOUS
<1>6. Placed(node[f], f, pt, 0, 0, 0)
  BY <1>2, <1>4
<1> QED
  BY <1>3, <1>4, <1>5, <1>6 DEF Placed

(* The invariant and the count: a ring of n pages has at most n members.    *)
LEMMA InvCount ==
  Inv => CountCovers
<1> SUFFICES ASSUME Inv, head # Null, Calm
             PROVE  num > Cardinality(Ring)
  BY DEF CountCovers, Calm
<1>1. PICK n \in Nat \ {0} : \E s \in [0 .. n -> Frames] :
        /\ IsRing(Lru, s, n) /\ num > n
        /\ \A i \in 0 .. n - 1 : Placed(node[s[i]], s[i], pt, 0, 0, 0)
        /\ \A f \in Ring : \E i \in 0 .. n - 1 : f = s[i]
  BY RingIs
<1>2. PICK s \in [0 .. n -> Frames] : \A f \in Ring : \E i \in 0 .. n - 1 : f = s[i]
  BY <1>1
<1>3. num > n /\ num \in Int
  <2>1. Lru \in LruType /\ Lru.num = num
    BY DEF Inv, TypeInv, Lru
  <2> QED
    BY <1>1, <2>1, LruParts
<1> DEFINE T == {s[i] : i \in 0 .. n - 1}
           g == [i \in 0 .. n - 1 |-> s[i]]
<1>4. g \in Surjection(0 .. n - 1, T) /\ Ring \in SUBSET T
  BY <1>2 DEF Surjection
<1>5. IsFiniteSet(0 .. n - 1) /\ Cardinality(0 .. n - 1) = n
  <2>1. 0 \in Int /\ n - 1 \in Int /\ ~(0 > n - 1) /\ (n - 1) - 0 + 1 = n
    OBVIOUS
  <2> QED
    BY <2>1, FS_Interval
<1> HIDE DEF T, g
<1>6. IsFiniteSet(T) /\ Cardinality(T) <= Cardinality(0 .. n - 1)
  BY <1>4, <1>5, FS_Surjection
<1>7. IsFiniteSet(Ring) /\ Cardinality(Ring) <= Cardinality(T)
  BY <1>4, <1>6, FS_Subset
<1>8. Cardinality(Ring) \in Nat /\ Cardinality(T) \in Nat
  BY <1>6, <1>7, FS_CardinalityType
<1> QED
  BY <1>3, <1>5, <1>6, <1>7, <1>8

(* A frame is in at most one place: kalloc(), fork(), exec(), wait() and    *)
(* the page-fault handler never map a frame twice, nor one that is still on *)
(* the free list.                                                           *)
THEOREM FramesApart ==
  Spec => []FramesDisjoint
BY SwapInvariant, InvFrames, PTL

(* As long as no fault has replaced a page, append_lru(), pop_lru() and     *)
(* deallocuvm() keep the list a ring of pages that are mapped where they    *)
(* say, or have no head.                                                    *)
THEOREM RingAlwaysSound ==
  Spec => []RingSound
BY SwapInvariant, InvRing, PTL

(* Under the same condition num_lru_pages exceeds the length of the ring,   *)
(* so that a count of one never restarts a ring in use.                     *)
THEOREM CountAlwaysCovers ==
  Spec => []CountCovers
BY SwapInvariant, InvCount, PTL
=============================================================================
