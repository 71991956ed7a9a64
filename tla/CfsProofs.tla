----------------------------- MODULE CfsProofs -----------------------------
(* Proofs about the fair scheduler, for every table size, number of CPUs,   *)
(* table of weights and width of the words.                                 *)
EXTENDS Cfs, WellFoundedInduction, NaturalsInduction, TLAPS

Table == [Slots -> ProcType]

(* A CPU's process is RUNNING, and runs on no other CPU.                    *)
CurInv ==
  /\ \A c \in CPUs : cur[c] # 0 => proc[cur[c]].state = "RUNNING"
  /\ \A c, d \in CPUs : cur[c] # 0 /\ cur[c] = cur[d] => c = d

(* The slot a fork() is filling is an embryo nobody else is filling.        *)
ForkInv ==
  /\ \A p \in Slots :
       at[p] # "user" => child[p] \in Slots /\ proc[child[p]].state = "EMBRYO"
  /\ \A p, q \in Slots :
       at[p] # "user" /\ at[q] # "user" /\ child[p] = child[q] => p = q

Inv == TableOK /\ CurInv /\ ForkInv /\ RunsAtWeight

-----------------------------------------------------------------------------
(* A nonempty set of numbers has a least member: the scans over the table   *)
(* end with one.                                                            *)
LEMMA LeastNat ==
  ASSUME NEW S, S \subseteq Nat, S # {}
  PROVE  \E x \in S : \A y \in S : x <= y
<1>1. PICK x \in S : \A y \in S : ~(<<y, x>> \in OpToRel(<, Nat))
  BY NatLessThanWellFounded, WFMin
<1>2. \A y \in S : x <= y
  <2> TAKE y \in S
  <2>1. ~(y < x)
    BY <1>1 DEF OpToRel
  <2> QED BY <2>1
<1> QED BY <1>2

(* First() finds the lowest slot of a nonempty set.                         *)
LEMMA FirstIn ==
  ASSUME NEW S, S \subseteq Slots, S # {}
  PROVE  First(S) \in S
<1>1. S \subseteq Nat
  BY SizeAssumption DEF Slots
<1>2. \E x \in S : \A y \in S : x <= y
  BY <1>1, LeastNat
<1> QED BY <1>2 DEF First

(* Some runnable process has the least virtual runtime: first the least     *)
(* high word, then the least low word among those.                          *)
LEMMA LeastExists ==
  ASSUME NEW t \in Table, Runnable(t) # {}
  PROVE  Least(t) # {}
<1> DEFINE R == Runnable(t)
           H == {t[p].hi : p \in R}
<1>1. \A p \in R : p \in Slots /\ t[p] \in ProcType
  BY DEF Runnable, Table
<1>2. \A p \in R : t[p].hi \in Nat /\ t[p].lo \in Nat
  BY <1>1, SizeAssumption DEF ProcType
<1>3. PICK p \in R : \A q \in R : t[p].hi <= t[q].hi
  <2>1. H \subseteq Nat /\ H # {}
    BY <1>2
  <2>2. PICK h \in H : \A k \in H : h <= k
    BY <2>1, LeastNat
  <2> QED BY <2>2
<1> DEFINE E == {q \in R : t[q].hi = t[p].hi}
           L == {t[q].lo : q \in E}
<1>4. PICK m \in E : \A q \in E : t[m].lo <= t[q].lo
  <2>1. L \subseteq Nat /\ L # {}
    BY <1>2, <1>3
  <2>2. PICK l \in L : \A k \in L : l <= k
    BY <2>1, LeastNat
  <2> QED BY <2>2
<1>5. \A q \in R : ~Greater(t[m], t[q])
  <2> TAKE q \in R
  <2>1. t[m].hi <= t[q].hi
    BY <1>3, <1>4
  <2>2. t[m].hi = t[q].hi => t[m].lo <= t[q].lo
    BY <1>3, <1>4
  <2> QED BY <2>1, <2>2, <1>2, <1>4 DEF Greater
<1> QED BY <1>4, <1>5 DEF Least

(* scheduler() picks a runnable process.                                    *)
LEMMA PickRunnable ==
  ASSUME NEW t \in Table, NEW p \in Runnable(t)
  PROVE  /\ Pick(t, p) \in Runnable(t)
         /\ First(Least(t)) \in Runnable(t)
<1>1. Least(t) # {} /\ Least(t) \subseteq Slots /\ Least(t) \subseteq Runnable(t)
  BY LeastExists DEF Least, Runnable
<1>2. First(Least(t)) \in Least(t)
  BY <1>1, FirstIn
<1> QED BY <1>1, <1>2 DEF Pick

(* wakeup1() changes sleepers only, and neither their nice value nor their  *)
(* weight.                                                                  *)
LEMMA WakeupFrame ==
  ASSUME NEW t \in Table, NEW ch
  PROVE  /\ Wakeup1(t, ch) \in Table
         /\ \A p \in Slots :
              /\ Wakeup1(t, ch)[p].nice = t[p].nice
              /\ Wakeup1(t, ch)[p].weight = t[p].weight
              /\ Wakeup1(t, ch)[p].parent = t[p].parent
              /\ \/ Wakeup1(t, ch)[p].state = t[p].state
                 \/ t[p].state = "SLEEPING" /\ Wakeup1(t, ch)[p].state = "RUNNABLE"
<1> DEFINE w(p) == Wakeup1(t, ch)[p]
           hi0 == IF Runnable(t) = {} THEN 0 ELSE t[First(Least(t))].hi
           lo0(p) == IF Runnable(t) = {} THEN 0
                     ELSE (t[First(Least(t))].lo - Cost(t[p])) % Word
<1>1. ASSUME NEW p \in Slots
      PROVE  hi0 \in 0 .. MaxHigh /\ lo0(p) \in 0 .. Word - 1
  <2>1. Word \in Nat \ {0} /\ MaxHigh \in Nat
    BY SizeAssumption
  <2>2. CASE Runnable(t) = {}
    BY <2>1, <2>2
  <2>3. CASE Runnable(t) # {}
    <3>1. First(Least(t)) \in Slots
      BY <2>3, PickRunnable DEF Runnable
    <3>2. t[First(Least(t))] \in ProcType /\ t[p] \in ProcType
      BY <3>1 DEF Table
    <3>3. t[p].weight \in Nat \ {0}
      BY <3>2, SizeAssumption DEF ProcType
    <3>4. Cost(t[p]) \in Int
      BY <3>3, SizeAssumption DEF Cost
    <3>5. t[First(Least(t))].lo \in Int /\ t[First(Least(t))].hi \in 0 .. MaxHigh
      BY <3>2, <2>1 DEF ProcType
    <3> DEFINE x == t[First(Least(t))].lo - Cost(t[p])
    <3>6. x \in Int
      BY <3>4, <3>5
    <3> HIDE DEF x
    <3>7. x % Word \in 0 .. Word - 1
      BY <3>6, <2>1
    <3> QED BY <3>5, <3>7, <2>3 DEF x
  <2> QED BY <2>2, <2>3
<1>2. ASSUME NEW p \in Slots
      PROVE  /\ w(p) = IF t[p].state = "SLEEPING" /\ t[p].chan = ch
                       THEN [t[p] EXCEPT !.state = "RUNNABLE", !.hi = hi0,
                                         !.lo = lo0(p)]
                       ELSE t[p]
  BY DEF Wakeup1
<1> HIDE DEF hi0, lo0, w
<1>3. ASSUME NEW p \in Slots
      PROVE  /\ w(p) \in ProcType
             /\ w(p).nice = t[p].nice /\ w(p).weight = t[p].weight
             /\ w(p).parent = t[p].parent
             /\ \/ w(p).state = t[p].state
                \/ t[p].state = "SLEEPING" /\ w(p).state = "RUNNABLE"
  <2>1. t[p] \in ProcType
    BY DEF Table
  <2> QED BY <1>1, <1>2, <2>1 DEF ProcType, States
<1>4. Wakeup1(t, ch) = [p \in Slots |-> w(p)]
  BY DEF Wakeup1, w
<1> QED BY <1>3, <1>4 DEF Table, w

(* Passing children to init changes sleepers and parents only.              *)
LEMMA ReparentFrame ==
  ASSUME NEW t \in Table, NEW x
  PROVE  /\ Reparent(t, x) \in Table
         /\ \A p \in Slots :
              /\ Reparent(t, x)[p].nice = t[p].nice
              /\ Reparent(t, x)[p].weight = t[p].weight
              /\ \/ Reparent(t, x)[p].state = t[p].state
                 \/ t[p].state = "SLEEPING" /\ Reparent(t, x)[p].state = "RUNNABLE"
<1> DEFINE u == [q \in Slots |-> IF t[q].parent = x
                                 THEN [t[q] EXCEPT !.parent = InitProc]
                                 ELSE t[q]]
<1>1. \A q \in Slots :
        /\ u[q] \in ProcType
        /\ u[q].nice = t[q].nice /\ u[q].weight = t[q].weight
        /\ u[q].state = t[q].state
  <2> TAKE q \in Slots
  <2>1. t[q] \in ProcType /\ InitProc \in 0 .. NPROC
    BY SizeAssumption DEF Table, InitProc
  <2> QED BY <2>1 DEF ProcType
<1>2. u \in Table
  BY <1>1 DEF Table
<1>3. Reparent(t, x) = u \/ Reparent(t, x) = Wakeup1(u, InitProc)
  BY DEF Reparent
<1> HIDE DEF u
<1> QED BY <1>1, <1>2, <1>3, WakeupFrame

(* A sleeper of table t runs or waits for a CPU in table u.                 *)
Wakes(t, u, p) ==
  /\ t[p].state = "SLEEPING" /\ u[p].state = "RUNNABLE"
  /\ u[p].nice = t[p].nice /\ u[p].weight = t[p].weight

(* A process of table t has at most another parent in table u.              *)
Moved(t, u, p) ==
  /\ u[p].state = t[p].state /\ u[p].nice = t[p].nice
  /\ u[p].weight = t[p].weight /\ u[p].hi = t[p].hi /\ u[p].lo = t[p].lo
  /\ u[p].used = t[p].used

(* wakeup1() leaves alone whom it does not wake.                            *)
LEMMA WakeupSlots ==
  ASSUME NEW t \in Table, NEW ch, NEW p \in Slots
  PROVE  Wakeup1(t, ch)[p] = t[p] \/ Wakes(t, Wakeup1(t, ch), p)
<1>1. t[p].state = "SLEEPING" \/ Wakeup1(t, ch)[p] = t[p]
  BY DEF Wakeup1
<1>2. /\ Wakeup1(t, ch)[p].nice = t[p].nice
      /\ Wakeup1(t, ch)[p].weight = t[p].weight
  BY WakeupFrame
<1>3. \/ Wakeup1(t, ch)[p] = t[p]
      \/ Wakeup1(t, ch)[p].state = "RUNNABLE"
  <2>1. t[p] \in ProcType
    BY DEF Table
  <2> QED BY <2>1 DEF Wakeup1, ProcType
<1> QED BY <1>1, <1>2, <1>3 DEF Wakes

(* So does the loop of exit() that passes children to init.                 *)
LEMMA ReparentSlots ==
  ASSUME NEW t \in Table, NEW x, NEW p \in Slots
  PROVE  Moved(t, Reparent(t, x), p) \/ Wakes(t, Reparent(t, x), p)
<1> DEFINE u == [q \in Slots |-> IF t[q].parent = x
                                 THEN [t[q] EXCEPT !.parent = InitProc]
                                 ELSE t[q]]
<1>1. \A q \in Slots : u[q] \in ProcType /\ Moved(t, u, q)
  <2> TAKE q \in Slots
  <2>1. t[q] \in ProcType /\ InitProc \in 0 .. NPROC
    BY SizeAssumption DEF Table, InitProc
  <2> QED BY <2>1 DEF ProcType, Moved
<1>2. u \in Table
  BY <1>1 DEF Table
<1>3. Reparent(t, x) = u \/ Reparent(t, x) = Wakeup1(u, InitProc)
  BY DEF Reparent
<1> HIDE DEF u
<1>4. Wakeup1(u, InitProc)[p] = u[p] \/ Wakes(u, Wakeup1(u, InitProc), p)
  BY <1>2, WakeupSlots
<1> QED BY <1>1, <1>3, <1>4 DEF Moved, Wakes

(* A sum over the first n slots exists.                                     *)
Sums(w, n) == {f \in [0 .. n -> Nat] :
                 f[0] = 0 /\ \A p \in 1 .. n : f[p] = f[p - 1] + w[p]}

LEMMA SumExists ==
  ASSUME NEW w \in [Slots -> Nat]
  PROVE  \A n \in 0 .. NPROC : Sums(w, n) # {}
<1> DEFINE B == {n \in 0 .. NPROC : Sums(w, n) = {}}
<1> SUFFICES ASSUME B # {} PROVE FALSE
  OBVIOUS
<1>1. NPROC \in Nat /\ B \subseteq Nat
  BY SizeAssumption
<1>2. PICK n \in B : \A m \in B : n <= m
  BY <1>1, LeastNat
<1>3. n # 0
  <2>1. [p \in 0 .. 0 |-> 0] \in Sums(w, 0)
    BY DEF Sums
  <2> QED BY <2>1, <1>2
<1>4. n \in Slots /\ n \in Nat /\ n - 1 \in 0 .. NPROC
  BY <1>1, <1>2, <1>3 DEF Slots
<1>5. PICK f : f \in Sums(w, n - 1)
  <2>1. n - 1 \notin B
    BY <1>2, <1>4
  <2> QED BY <2>1, <1>4
<1> DEFINE g == [p \in 0 .. n |-> IF p = n THEN f[n - 1] + w[n] ELSE f[p]]
<1>6. g \in Sums(w, n)
  <2>1. f \in [0 .. n - 1 -> Nat] /\ f[0] = 0 /\ w[n] \in Nat
        /\ \A p \in 1 .. n - 1 : f[p] = f[p - 1] + w[p]
    BY <1>4, <1>5 DEF Sums
  <2>2. g \in [0 .. n -> Nat] /\ g[0] = 0
    BY <2>1, <1>3, <1>4
  <2>3. \A p \in 1 .. n : g[p] = g[p - 1] + w[p]
    <3> TAKE p \in 1 .. n
    <3>1. p - 1 \in 0 .. n /\ p \in 0 .. n /\ p - 1 # n
      BY <1>4
    <3>2. CASE p = n
      BY <3>1, <3>2, <2>1
    <3>3. CASE p # n
      <4>1. p \in 1 .. n - 1
        BY <3>3, <1>4
      <4> QED BY <4>1, <3>1, <3>3, <2>1
    <3> QED BY <3>2, <3>3
  <2> QED BY <2>2, <2>3 DEF Sums
<1> QED BY <1>2, <1>6

(* TotalWeight() is at least the weight of each runnable process.           *)
LEMMA TotalCovers ==
  ASSUME NEW t \in Table, NEW q \in Runnable(t)
  PROVE  TotalWeight(t) \in Nat /\ t[q].weight <= TotalWeight(t)
<1> DEFINE w == [p \in Slots |-> IF t[p].state = "RUNNABLE" THEN t[p].weight ELSE 0]
<1>1. w \in [Slots -> Nat] /\ NPROC \in Nat /\ q \in Slots /\ w[q] = t[q].weight
  <2>1. \A p \in Slots : t[p].weight \in Nat
    BY SizeAssumption DEF Table, ProcType
  <2> QED BY <2>1, SizeAssumption DEF Runnable
<1> DEFINE G == CHOOSE f : f = [p \in 0 .. NPROC |->
                     IF p = 0 THEN 0
                     ELSE f[p - 1] + IF t[p].state = "RUNNABLE" THEN t[p].weight ELSE 0]
<1>2. TotalWeight(t) = G[NPROC]
  BY DEF TotalWeight
<1>3. PICK h : h \in Sums(w, NPROC)
  BY <1>1, SumExists
<1>4. h = [p \in 0 .. NPROC |->
             IF p = 0 THEN 0
             ELSE h[p - 1] + IF t[p].state = "RUNNABLE" THEN t[p].weight ELSE 0]
  <2>1. h \in [0 .. NPROC -> Nat] /\ h[0] = 0
        /\ \A p \in 1 .. NPROC : h[p] = h[p - 1] + w[p]
    BY <1>3 DEF Sums
  <2>2. \A p \in 0 .. NPROC : p # 0 => p \in 1 .. NPROC
    BY <1>1
  <2> QED BY <2>1, <2>2 DEF Slots
<1>5. G = [p \in 0 .. NPROC |->
             IF p = 0 THEN 0
             ELSE G[p - 1] + IF t[p].state = "RUNNABLE" THEN t[p].weight ELSE 0]
  BY <1>4, Zenon
<1> HIDE DEF G
<1> DEFINE B == {n \in 0 .. NPROC :
                   ~(G[n] \in Nat /\ (q <= n => w[q] <= G[n]))}
<1>6. B = {}
  <2> SUFFICES ASSUME B # {} PROVE FALSE
    OBVIOUS
  <2>1. B \subseteq Nat
    BY <1>1
  <2>2. PICK n \in B : \A m \in B : n <= m
    BY <2>1, LeastNat
  <2>3. G[0] = 0 /\ q > 0 /\ q \in Nat
    BY <1>1, <1>5 DEF Slots
  <2>4. n # 0 /\ n \in Slots
    BY <2>2, <2>3, <1>1 DEF Slots
  <2>5. G[n] = G[n - 1] + w[n]
    BY <1>5, <2>4, <1>1 DEF Slots
  <2>6. n - 1 \in 0 .. NPROC /\ n - 1 \notin B
    BY <2>2, <2>4, <1>1 DEF Slots
  <2>7. G[n - 1] \in Nat /\ (q <= n - 1 => w[q] <= G[n - 1])
    BY <2>6
  <2>8. w[n] \in Nat /\ w[q] \in Nat /\ n \in Nat
    BY <1>1, <2>4 DEF Slots
  <2>9. G[n] \in Nat /\ (q <= n => w[q] <= G[n])
    <3> HIDE DEF w
    <3>1. CASE q = n
      BY <3>1, <2>5, <2>7, <2>8
    <3>2. CASE q # n
      BY <3>2, <2>3, <2>5, <2>7, <2>8
    <3> QED BY <3>1, <3>2
  <2> QED BY <2>2, <2>9
<1>7. NPROC \in 0 .. NPROC /\ q <= NPROC
  BY <1>1 DEF Slots
<1> HIDE DEF w
<1> QED BY <1>1, <1>2, <1>6, <1>7

(* An unused slot's record.                                                 *)
LEMMA FreshType == Fresh \in ProcType
<1>1. 0 \in 0 .. Ticks /\ 0 \in 0 .. NPROC /\ 0 \in 0 .. MaxHigh /\ 0 \in 0 .. Word - 1
  BY SizeAssumption DEF Ticks
<1>2. DefaultNice \in Nice /\ weights[DefaultNice] \in {weights[n] : n \in Nice}
  BY SizeAssumption
<1> QED BY <1>1, <1>2 DEF Fresh, ProcType, States

-----------------------------------------------------------------------------
(* What a step may do to a slot that no CPU runs and no fork() fills.       *)
Harmless(p) ==
  \/ /\ proc'[p].state = proc[p].state
     /\ proc[p].state \in {"RUNNING", "SLEEPING"} =>
          proc'[p].weight = weights[proc'[p].nice]
  \/ /\ proc[p].state \in {"SLEEPING", "ZOMBIE"}
     /\ proc'[p].state \in {"RUNNABLE", "UNUSED"}

(* A step that does nothing else to any slot preserves the invariant.       *)
LEMMA QuietStep ==
  ASSUME Inv, proc' \in Table, UNCHANGED <<cur, at, child>>,
         \A p \in Slots : Harmless(p)
  PROVE  Inv'
<1>1. TableOK'
  BY DEF Inv, TableOK, Table
<1>2. CurInv'
  <2>1. \A c \in CPUs : cur[c] # 0 => cur[c] \in Slots
    BY SizeAssumption DEF Inv, TableOK, Slots
  <2> QED BY <2>1 DEF Inv, CurInv, Harmless
<1>3. ForkInv'
  BY DEF Inv, ForkInv, Harmless
<1>4. RunsAtWeight'
  BY DEF Inv, RunsAtWeight, Harmless
<1> QED BY <1>1, <1>2, <1>3, <1>4 DEF Inv

(* Nor does one in which a process also gives up its CPU, if it was charged *)
(* at the weight of its nice value.                                         *)
LEMMA GiveUpStep ==
  ASSUME Inv, proc' \in Table, UNCHANGED <<at, child>>,
         NEW c \in CPUs, cur[c] # 0, cur' = [cur EXCEPT ![c] = 0],
         \A p \in Slots \ {cur[c]} : Harmless(p),
         proc'[cur[c]].state \in {"RUNNABLE", "SLEEPING", "ZOMBIE"},
         proc'[cur[c]].state = "SLEEPING" =>
           /\ proc'[cur[c]].weight = proc[cur[c]].weight
           /\ proc'[cur[c]].nice = proc[cur[c]].nice
  PROVE  Inv'
<1>1. TableOK'
  BY SizeAssumption DEF Inv, TableOK, Table
<1>2. CurInv'
  <2>1. \A d \in CPUs : cur[d] # 0 => cur[d] \in Slots
    BY SizeAssumption DEF Inv, TableOK, Slots
  <2>2. \A d \in CPUs : cur'[d] # 0 => d # c /\ cur'[d] = cur[d]
    BY DEF Inv, TableOK
  <2>3. \A d \in CPUs : cur'[d] # 0 => cur[d] # cur[c]
    BY <2>2 DEF Inv, CurInv
  <2> QED BY <2>1, <2>2, <2>3 DEF Inv, CurInv, Harmless
<1>3. proc[cur[c]].state = "RUNNING" /\ cur[c] \in Slots
  BY SizeAssumption DEF Inv, CurInv, TableOK, Slots
<1>4. ForkInv'
  <2>1. \A p \in Slots : at[p] # "user" => child[p] # cur[c]
    BY <1>3 DEF Inv, ForkInv
  <2> QED BY <2>1 DEF Inv, ForkInv, Harmless
<1>5. RunsAtWeight'
  <2> SUFFICES ASSUME NEW p \in Slots, proc'[p].state \in {"RUNNING", "SLEEPING"}
               PROVE  proc'[p].weight = weights[proc'[p].nice]
    BY DEF RunsAtWeight
  <2>1. CASE p = cur[c]
    BY <2>1, <1>3 DEF Inv, RunsAtWeight
  <2>2. CASE p # cur[c]
    BY <2>2 DEF Harmless
  <2> QED BY <2>1, <2>2
<1> QED BY <1>1, <1>2, <1>4, <1>5 DEF Inv

(* The first process is the only one, and it has the default nice value.    *)
LEMMA InitInv == Init => Inv
<1> SUFFICES ASSUME Init PROVE Inv
  OBVIOUS
<1>1. \A p \in Slots : proc[p] \in ProcType /\ proc[p].state \in {"UNUSED", "RUNNABLE"}
  BY FreshType DEF Init, Fresh, ProcType, States
<1>2. TableOK
  BY <1>1, SizeAssumption DEF Init, TableOK
<1>3. CurInv /\ ForkInv
  BY DEF Init, CurInv, ForkInv
<1>4. RunsAtWeight
  BY <1>1 DEF RunsAtWeight
<1> QED BY <1>2, <1>3, <1>4 DEF Inv

(* Dispatching looks the weight up again.                                   *)
LEMMA SchedRunInv ==
  ASSUME Inv, NEW c \in CPUs, SchedRun(c)
  PROVE  Inv'
<1> DEFINE p == Pick(proc, First(Ahead))
<1>1. proc \in Table
  BY DEF Inv, TableOK, Table
<1>2. p \in Runnable(proc) /\ p \in Slots
  <2>1. Ahead # {} /\ Ahead \subseteq Slots
    BY DEF SchedRun, Ahead, Runnable
  <2>2. First(Ahead) \in Runnable(proc)
    BY <2>1, FirstIn DEF Ahead
  <2> QED BY <1>1, <2>2, PickRunnable DEF Runnable
<1> HIDE DEF p
<1>3. /\ proc' = [proc EXCEPT ![p].state = "RUNNING",
                              ![p].weight = weights[proc[p].nice], ![p].chan = 0]
      /\ cur' = [cur EXCEPT ![c] = p] /\ UNCHANGED <<at, child>>
  BY DEF SchedRun, p
<1>4. proc[p] \in ProcType /\ proc[p].state = "RUNNABLE"
  BY <1>1, <1>2 DEF Table, Runnable
<1>5. /\ proc'[p] \in ProcType
      /\ proc'[p].state = "RUNNING"
      /\ proc'[p].weight = weights[proc'[p].nice]
  <2>1. 0 \in 0 .. Ticks
    BY SizeAssumption DEF Ticks
  <2> QED BY <1>1, <1>2, <1>3, <1>4, <2>1 DEF Table, ProcType, States
<1>6. \A q \in Slots \ {p} : proc'[q] = proc[q]
  BY <1>1, <1>2, <1>3 DEF Table
<1>7. TableOK'
  <2>1. proc' \in [Slots -> ProcType]
    BY <1>1, <1>3, <1>5, <1>6 DEF Table
  <2> QED BY <2>1, <1>2, <1>3, SizeAssumption DEF Inv, TableOK, Slots
<1>8. CurInv'
  <2>1. \A d \in CPUs : cur[d] # 0 => cur[d] \in Slots /\ cur[d] # p
    BY <1>4, SizeAssumption DEF Inv, CurInv, TableOK, Slots
  <2>2. cur'[c] = p /\ \A d \in CPUs \ {c} : cur'[d] = cur[d]
    BY <1>3 DEF Inv, TableOK
  <2> QED BY <2>1, <2>2, <1>5, <1>6 DEF Inv, CurInv
<1>9. ForkInv'
  <2>1. \A q \in Slots : at[q] # "user" => child[q] \in Slots \ {p}
    BY <1>4 DEF Inv, ForkInv
  <2>2. at' = at /\ child' = child
    BY <1>3
  <2> QED BY <2>1, <2>2, <1>6 DEF Inv, ForkInv
<1>10. RunsAtWeight'
  BY <1>5, <1>6 DEF Inv, RunsAtWeight
<1> QED BY <1>7, <1>8, <1>9, <1>10 DEF Inv

(* The steps of fork() write only the embryo they fill.                     *)
LEMMA ForkInvStep ==
  ASSUME Inv, NEW c \in CPUs,
         ForkFail(c) \/ ForkHigh(c) \/ ForkLow(c) \/ ForkRun(c)
  PROVE  Inv'
<1> DEFINE p == cur[c]
           np == child[p]
<1>1. p \in Slots /\ at[p] # "user"
  BY SizeAssumption
  DEF ForkFail, ForkHigh, ForkLow, ForkRun, Forking, Runs, Inv, TableOK, Slots
<1>2. np \in Slots /\ proc[np].state = "EMBRYO"
  BY <1>1 DEF Inv, ForkInv
<1>3. proc[p] \in ProcType /\ proc[np] \in ProcType /\ p \in 0 .. NPROC
  BY <1>1, <1>2, SizeAssumption DEF Inv, TableOK, Slots
<1>4. /\ cur' = cur
      /\ proc'[np] \in ProcType
      /\ proc'[np].state \in {"UNUSED", "EMBRYO", "RUNNABLE"}
      /\ \A q \in Slots \ {np} : proc'[q] = proc[q]
      /\ proc' = [q \in Slots |-> proc'[q]]
  <2>1. proc \in [Slots -> ProcType]
    BY DEF Inv, TableOK
  <2>2. CASE ForkFail(c)
    BY <1>2, <1>3, <2>1, <2>2 DEF ForkFail, ProcType, States
  <2>3. CASE ForkHigh(c)
    BY <1>2, <1>3, <2>1, <2>3 DEF ForkHigh, ProcType, States
  <2>4. CASE ForkLow(c)
    BY <1>2, <1>3, <2>1, <2>4 DEF ForkLow, ProcType, States
  <2>5. CASE ForkRun(c)
    BY <1>2, <1>3, <2>1, <2>5 DEF ForkRun, ProcType, States
  <2> QED BY <2>2, <2>3, <2>4, <2>5
<1>5. /\ \A q \in Slots \ {p} : at'[q] = at[q] /\ child'[q] = child[q]
      /\ \/ at'[p] = "user"
         \/ proc'[np].state = "EMBRYO" /\ child'[p] = np
      /\ at' \in [Slots -> {"user", "alloc", "high", "low"}]
      /\ child' \in [Slots -> 0 .. NPROC]
  <2>1. /\ at \in [Slots -> {"user", "alloc", "high", "low"}]
        /\ child \in [Slots -> 0 .. NPROC] /\ proc \in [Slots -> ProcType]
        /\ 0 \in 0 .. NPROC
    BY SizeAssumption DEF Inv, TableOK
  <2>2. CASE ForkFail(c)
    BY <1>1, <2>1, <2>2 DEF ForkFail
  <2>3. CASE ForkHigh(c)
    <3>1. proc'[np].state = proc[np].state
      BY <1>2, <2>1, <2>3 DEF ForkHigh, ProcType
    <3> QED BY <1>1, <1>2, <2>1, <2>3, <3>1 DEF ForkHigh
  <2>4. CASE ForkLow(c)
    <3>1. proc'[np].state = proc[np].state
      BY <1>2, <2>1, <2>4 DEF ForkLow, ProcType
    <3> QED BY <1>1, <1>2, <2>1, <2>4, <3>1 DEF ForkLow
  <2>5. CASE ForkRun(c)
    BY <1>1, <2>1, <2>5 DEF ForkRun
  <2> QED BY <2>2, <2>3, <2>4, <2>5
<1> HIDE DEF p, np
<1>6. TableOK'
  <2>1. proc' \in [Slots -> ProcType]
    BY <1>4 DEF Inv, TableOK
  <2> QED BY <2>1, <1>4, <1>5 DEF Inv, TableOK
<1>7. CurInv'
  <2>1. \A d \in CPUs : cur[d] # 0 => cur[d] \in Slots /\ cur[d] # np
    BY <1>2, SizeAssumption DEF Inv, CurInv, TableOK, Slots
  <2> QED BY <2>1, <1>4 DEF Inv, CurInv
<1>8. ForkInv'
  <2>1. \A q \in Slots \ {p} : at[q] # "user" => child[q] # np
    BY <1>1 DEF Inv, ForkInv, np
  <2>2. \A q \in Slots : at'[q] # "user" => at[q] # "user" /\ child'[q] = child[q]
    BY <1>1, <1>5 DEF np
  <2>3. \A q \in Slots : at'[q] # "user" => proc'[child[q]].state = "EMBRYO"
    <3> SUFFICES ASSUME NEW q \in Slots, at'[q] # "user"
                 PROVE  proc'[child[q]].state = "EMBRYO"
      OBVIOUS
    <3>1. CASE q = p
      BY <3>1, <1>5 DEF np
    <3>2. CASE q # p
      BY <3>2, <2>1, <2>2, <1>4 DEF Inv, ForkInv
    <3> QED BY <3>1, <3>2
  <2> QED BY <2>2, <2>3 DEF Inv, ForkInv
<1>9. RunsAtWeight'
  BY <1>4 DEF Inv, RunsAtWeight
<1> QED BY <1>6, <1>7, <1>8, <1>9 DEF Inv

(* allocproc() takes an unused slot, which no other fork() is filling.      *)
LEMMA ForkAllocInv ==
  ASSUME Inv, NEW c \in CPUs, ForkAlloc(c)
  PROVE  Inv'
<1> DEFINE p == cur[c]
           U == {q \in Slots : proc[q].state = "UNUSED"}
           np == First(U)
<1>1. p \in Slots /\ at[p] = "user" /\ proc[p].state = "RUNNING"
  BY SizeAssumption DEF ForkAlloc, InUser, Runs, Inv, TableOK, CurInv, Slots
<1>2. np \in Slots /\ proc[np].state = "UNUSED"
  <2>1. U # {} /\ U \subseteq Slots
    BY DEF ForkAlloc
  <2>2. np \in U
    BY <2>1, FirstIn
  <2> QED BY <2>2
<1>3. /\ proc' = [proc EXCEPT ![np] = [Fresh EXCEPT !.state = "EMBRYO"]]
      /\ child' = [child EXCEPT ![p] = np] /\ at' = [at EXCEPT ![p] = "alloc"]
      /\ cur' = cur
  BY DEF ForkAlloc
<1> HIDE DEF np, p
<1>4. [Fresh EXCEPT !.state = "EMBRYO"] \in ProcType
      /\ [Fresh EXCEPT !.state = "EMBRYO"].state = "EMBRYO"
  BY FreshType DEF ProcType, States
<1> DEFINE e == [Fresh EXCEPT !.state = "EMBRYO"]
<1> HIDE DEF e
<1>5. proc'[np] = e /\ e \in ProcType /\ e.state = "EMBRYO"
      /\ \A q \in Slots \ {np} : proc'[q] = proc[q]
  BY <1>2, <1>3, <1>4 DEF Inv, TableOK, e
<1>6. TableOK'
  <2>1. proc' \in [Slots -> ProcType]
    BY <1>2, <1>3, <1>4 DEF Inv, TableOK
  <2>2. np \in 0 .. NPROC
    BY <1>2, SizeAssumption DEF Slots
  <2> QED BY <2>1, <2>2, <1>1, <1>3 DEF Inv, TableOK
<1>7. CurInv'
  <2>1. \A d \in CPUs : cur[d] # 0 => cur[d] \in Slots /\ cur[d] # np
    BY <1>2, SizeAssumption DEF Inv, CurInv, TableOK, Slots
  <2> QED BY <2>1, <1>3, <1>5 DEF Inv, CurInv
<1>8. ForkInv'
  <2>1. \A q \in Slots : at[q] # "user" => child[q] # np /\ q # p
    BY <1>1, <1>2 DEF Inv, ForkInv
  <2>2. /\ at'[p] = "alloc" /\ child'[p] = np
        /\ \A q \in Slots \ {p} : at'[q] = at[q] /\ child'[q] = child[q]
    BY <1>1, <1>3 DEF Inv, TableOK
  <2> QED BY <2>1, <2>2, <1>2, <1>5 DEF Inv, ForkInv
<1>9. RunsAtWeight'
  BY <1>5 DEF Inv, RunsAtWeight
<1> QED BY <1>6, <1>7, <1>8, <1>9 DEF Inv

(* Every step of the scheduler, the timer and the system calls preserves    *)
(* the invariant.                                                           *)
LEMMA NextInv == Inv /\ [Next]_vars => Inv'
<1> SUFFICES ASSUME Inv, [Next]_vars PROVE Inv'
  OBVIOUS
<1>1. proc \in Table /\ \A c \in CPUs : cur[c] # 0 => cur[c] \in Slots
  BY SizeAssumption DEF Inv, TableOK, Table, Slots
<1>2. ASSUME NEW p \in Slots
      PROVE  /\ proc[p] \in ProcType
             /\ proc[p].state \in {"RUNNING", "SLEEPING"} =>
                  proc[p].weight = weights[proc[p].nice]
  BY <1>1 DEF Table, Inv, RunsAtWeight
<1>3. CASE UNCHANGED <<proc, cur, at, child>>
  BY <1>1, <1>2, <1>3, QuietStep DEF Harmless
<1>4. CASE Wakeup
  <2>1. proc' = Wakeup1(proc, Ticks) /\ UNCHANGED <<cur, at, child>>
    BY <1>4 DEF Wakeup
  <2>2. proc' \in Table /\ \A p \in Slots : Harmless(p)
    BY <2>1, <1>1, <1>2, WakeupFrame DEF Harmless
  <2> QED BY <2>1, <2>2, QuietStep
<1>5. ASSUME NEW c \in CPUs, Step(c) PROVE Inv'
  <2> DEFINE r == cur[c]
  <2>1. CASE SchedLock(c) \/ SchedRelease(c)
    BY <1>3, <2>1 DEF SchedLock, SchedRelease
  <2>2. CASE SchedRun(c)
    BY <2>2, SchedRunInv
  <2>3. CASE Charge(c)
    <3>1. PICK hi \in 0 .. MaxHigh, lo \in 0 .. Word - 1, used \in Nat :
            proc' = [proc EXCEPT ![r].hi = hi, ![r].lo = lo, ![r].used = used]
      <4> DEFINE high == IF ChargedLow(proc[r]) >= Carry
                         THEN proc[r].hi + 1 ELSE proc[r].hi
                 low == ChargedLow(proc[r]) % Carry
                 up == proc[r].used + 1 >= slice[c]
                 used == IF up THEN 0 ELSE proc[r].used + 1
      <4>1. r \in Slots /\ proc[r] \in ProcType
        BY <2>3, <1>1, <1>2 DEF Charge, Runs
      <4>2. high \in 0 .. MaxHigh
        <5>1. high <= MaxHigh
          BY <2>3 DEF Charge
        <5>2. proc[r].hi \in Nat
          BY <4>1 DEF ProcType
        <5> QED BY <5>1, <5>2, SizeAssumption
      <4>3. ChargedLow(proc[r]) \in Int
        <5>1. proc[r].lo \in Int /\ proc[r].weight \in Nat \ {0}
          BY <4>1, SizeAssumption DEF ProcType
        <5>2. Cost(proc[r]) \in Int /\ Word \in Nat \ {0}
          BY <5>1, SizeAssumption DEF Cost
        <5> QED BY <5>1, <5>2 DEF ChargedLow
      <4>4. low \in 0 .. Word - 1
        <5>1. low \in 0 .. Carry - 1
          BY <4>3, SizeAssumption
        <5> HIDE DEF low
        <5> QED BY <5>1, SizeAssumption
      <4>5. used \in Nat
        BY <4>1 DEF ProcType
      <4>6. proc' = [proc EXCEPT ![r].hi = high, ![r].lo = low, ![r].used = used]
        BY <2>3, <4>1, <1>1 DEF Charge, Table, ProcType
      <4> HIDE DEF high, low, used
      <4> QED BY <4>2, <4>4, <4>5, <4>6
    <3>2. r \in Slots /\ UNCHANGED <<cur, at, child>>
      BY <2>3, <1>1 DEF Charge, Runs
    <3>3. proc' \in Table /\ \A p \in Slots : Harmless(p)
      BY <3>1, <3>2, <1>1, <1>2 DEF Table, Harmless, ProcType
    <3> QED BY <3>2, <3>3, QuietStep
  <2>4. CASE Yield(c)
    <3>1. /\ r \in Slots /\ r # 0 /\ UNCHANGED <<at, child>>
          /\ cur' = [cur EXCEPT ![c] = 0]
          /\ proc' = [proc EXCEPT ![r].state = "RUNNABLE"]
      BY <2>4, <1>1 DEF Yield, GiveUp
    <3>2. /\ proc' \in Table /\ \A p \in Slots \ {r} : Harmless(p)
          /\ proc'[r].state = "RUNNABLE"
      BY <3>1, <1>1, <1>2 DEF Table, Harmless, ProcType, States
    <3> QED BY <3>1, <3>2, GiveUpStep
  <2>5. CASE Sleep(c) \/ WaitSleep(c)
    <3>1. /\ r \in Slots /\ r # 0 /\ UNCHANGED <<at, child>>
          /\ cur' = [cur EXCEPT ![c] = 0]
          /\ \E ch \in 0 .. Ticks :
               proc' = [proc EXCEPT ![r].state = "SLEEPING", ![r].chan = ch]
      <4>1. r # 0 /\ r \in Slots
        BY <2>5, <1>1 DEF Sleep, WaitSleep, InUser, Runs
      <4>2. Ticks \in 0 .. Ticks /\ r \in 0 .. Ticks
        BY <4>1, SizeAssumption DEF Slots, Ticks
      <4> QED BY <2>5, <4>1, <4>2 DEF Sleep, WaitSleep, GiveUp
    <3>2. /\ proc' \in Table /\ \A p \in Slots \ {r} : Harmless(p)
          /\ proc'[r].state = "SLEEPING"
          /\ proc'[r].weight = proc[r].weight /\ proc'[r].nice = proc[r].nice
      BY <3>1, <1>1, <1>2 DEF Table, Harmless, ProcType, States
    <3> QED BY <3>1, <3>2, GiveUpStep
  <2>6. CASE ForkAlloc(c)
    BY <2>6, ForkAllocInv
  <2>7. CASE ForkFail(c) \/ ForkHigh(c) \/ ForkLow(c) \/ ForkRun(c)
    BY <2>7, ForkInvStep
  <2>8. CASE Exit(c)
    <3> DEFINE t == Wakeup1(proc, proc[r].parent)
               u == Reparent(t, r)
               z == [Fresh EXCEPT !.state = "ZOMBIE", !.parent = proc[r].parent]
    <3>1. /\ r \in Slots /\ r # 0 /\ UNCHANGED <<at, child>>
          /\ cur' = [cur EXCEPT ![c] = 0]
          /\ proc' = [u EXCEPT ![r] = z]
      BY <2>8, <1>1 DEF Exit, GiveUp, InUser, Runs
    <3>2. z \in ProcType /\ z.state = "ZOMBIE"
      BY <3>1, <1>2, FreshType DEF ProcType, States
    <3>3. t \in Table
      BY <1>1, WakeupFrame
    <3>4. u \in Table
      BY <3>3, ReparentFrame
    <3>5. \A p \in Slots :
            /\ u[p].nice = proc[p].nice /\ u[p].weight = proc[p].weight
            /\ \/ u[p].state = proc[p].state
               \/ proc[p].state = "SLEEPING" /\ u[p].state = "RUNNABLE"
      <4> TAKE p \in Slots
      <4> HIDE DEF t, u
      <4>1. /\ t[p].nice = proc[p].nice /\ t[p].weight = proc[p].weight
            /\ \/ t[p].state = proc[p].state
               \/ proc[p].state = "SLEEPING" /\ t[p].state = "RUNNABLE"
        BY <1>1, WakeupFrame DEF t
      <4>2. /\ u[p].nice = t[p].nice /\ u[p].weight = t[p].weight
            /\ \/ u[p].state = t[p].state
               \/ t[p].state = "SLEEPING" /\ u[p].state = "RUNNABLE"
        BY <3>3, ReparentFrame DEF u
      <4> QED BY <4>1, <4>2
    <3> HIDE DEF t, u, z
    <3>6. /\ proc' \in Table /\ proc'[r].state = "ZOMBIE"
          /\ \A p \in Slots \ {r} : proc'[p] = u[p]
      BY <3>1, <3>2, <3>4 DEF Table
    <3>7. \A p \in Slots \ {r} : Harmless(p)
      BY <3>5, <3>6, <1>2 DEF Harmless
    <3> QED BY <3>1, <3>6, <3>7, GiveUpStep
  <2>9. CASE WaitReap(c)
    <3> DEFINE z == First(Zombies(r))
    <3>1. z \in Slots /\ proc[z].state = "ZOMBIE"
      <4>1. Zombies(r) # {} /\ Zombies(r) \subseteq Slots
        BY <2>9 DEF WaitReap, Zombies, Children
      <4>2. z \in Zombies(r)
        BY <4>1, FirstIn
      <4> QED BY <4>1, <4>2 DEF Zombies
    <3>2. proc' = [proc EXCEPT ![z] = Fresh] /\ UNCHANGED <<cur, at, child>>
      BY <2>9 DEF WaitReap
    <3> HIDE DEF z
    <3>3. Fresh.state = "UNUSED"
      BY DEF Fresh
    <3>4. proc' \in Table /\ \A p \in Slots : Harmless(p)
      BY <3>1, <3>2, <3>3, <1>1, <1>2, FreshType DEF Table, Harmless
    <3> QED BY <3>2, <3>4, QuietStep
  <2>10. ASSUME NEW q \in Slots, Kill(c, q) PROVE Inv'
    <3>1. /\ proc[q].state = "SLEEPING" /\ UNCHANGED <<cur, at, child>>
          /\ proc' = [proc EXCEPT ![q].state = "RUNNABLE"]
      BY <2>10 DEF Kill
    <3>2. proc' \in Table /\ \A p \in Slots : Harmless(p)
      BY <3>1, <1>1, <1>2 DEF Table, Harmless, ProcType, States
    <3> QED BY <3>1, <3>2, QuietStep
  <2>11. ASSUME NEW q \in Slots, NEW v \in Nice, SetNice(c, q, v) PROVE Inv'
    <3>1. /\ UNCHANGED <<cur, at, child>>
          /\ proc' = [proc EXCEPT ![q].nice = v, ![q].weight = weights[v]]
      BY <2>11 DEF SetNice
    <3>2. proc' \in Table /\ \A p \in Slots : Harmless(p)
      <4>1. /\ proc'[q] \in ProcType /\ proc'[q].state = proc[q].state
            /\ proc'[q].weight = weights[proc'[q].nice]
        BY <3>1, <1>1, <1>2 DEF Table, ProcType
      <4>2. \A p \in Slots \ {q} : proc'[p] = proc[p]
        BY <3>1, <1>1 DEF Table
      <4>3. proc' \in Table
        BY <3>1, <4>1, <4>2, <1>1 DEF Table
      <4> QED BY <4>1, <4>2, <4>3, <1>2 DEF Harmless
    <3> QED BY <3>1, <3>2, QuietStep
  <2> QED
    BY <1>5, <2>1, <2>2, <2>3, <2>4, <2>5, <2>6, <2>7, <2>8, <2>9, <2>10, <2>11
    DEF Step
<1> QED BY <1>3, <1>4, <1>5 DEF Next, vars

(* Ticks are always charged at the weight of the process's nice value, for  *)
(* every table size, number of CPUs and table of weights, although fork()   *)
(* copies nice and weight without ptable.lock while setnice() changes them. *)
THEOREM ChargedAtWeight == Spec => []RunsAtWeight
<1>1. Inv => RunsAtWeight
  BY DEF Inv
<1> QED BY InitInv, NextInv, <1>1, PTL DEF Spec

-----------------------------------------------------------------------------
(* What scheduler() writes to a CPU's timeslice is a number: the weights it *)
(* divides by include the one of the process it picked.                     *)
LEMMA SliceNat ==
  ASSUME Inv, NEW c \in CPUs, SchedRun(c)
  PROVE  \E p \in Runnable(proc) :
           /\ p \in Least(proc)
           /\ weights[proc[p].nice] \in Nat /\ TotalWeight(proc) \in Nat \ {0}
           /\ proc[p].weight <= TotalWeight(proc)
           /\ proc' = [proc EXCEPT ![p].state = "RUNNING",
                            ![p].weight = weights[proc[p].nice], ![p].chan = 0]
           /\ slice' = [slice EXCEPT ![c] =
                          SliceTicks * (weights[proc[p].nice] \div TotalWeight(proc))]
           /\ cur' = [cur EXCEPT ![c] = p]
<1> DEFINE p == Pick(proc, First(Ahead))
<1>1. proc \in Table
  BY DEF Inv, TableOK, Table
<1>2. p \in Runnable(proc) /\ p \in Slots /\ p \in Least(proc)
  <2>1. Ahead # {} /\ Ahead \subseteq Slots
    BY DEF SchedRun, Ahead, Runnable
  <2>2. First(Ahead) \in Runnable(proc)
    BY <2>1, FirstIn DEF Ahead
  <2>3. First(Least(proc)) \in Least(proc)
    BY <1>1, <2>2, LeastExists, FirstIn DEF Least, Runnable
  <2> QED BY <1>1, <2>2, <2>3, PickRunnable DEF Runnable, Pick
<1> HIDE DEF p
<1>3. proc[p] \in ProcType
  BY <1>1, <1>2 DEF Table
<1>4. weights[proc[p].nice] \in Nat /\ proc[p].weight \in Nat \ {0}
  BY <1>3, SizeAssumption DEF ProcType
<1>5. TotalWeight(proc) \in Nat /\ proc[p].weight <= TotalWeight(proc)
  BY <1>1, <1>2, TotalCovers
<1>6. TotalWeight(proc) \in Nat \ {0}
  BY <1>4, <1>5
<1>7. /\ proc' = [proc EXCEPT ![p].state = "RUNNING",
                              ![p].weight = weights[proc[p].nice], ![p].chan = 0]
      /\ slice' = [slice EXCEPT ![c] =
                     SliceTicks * (weights[proc[p].nice] \div TotalWeight(proc))]
      /\ cur' = [cur EXCEPT ![c] = p]
  BY DEF SchedRun, Timeslice, p
<1> QED BY <1>2, <1>4, <1>5, <1>6, <1>7

(* The lock, the cursor, the timeslices and the timer's marks keep their    *)
(* types.                                                                   *)
LEMMA TypeStep == Inv /\ TypeOK /\ [Next]_vars => TypeOK'
<1> SUFFICES ASSUME Inv, TypeOK, [Next]_vars PROVE TypeOK'
  OBVIOUS
<1>1. TableOK'
  BY NextInv DEF Inv
<1>2. 0 \in 0 .. NPROC /\ 0 \in 0 .. NCPU /\ 0 \in Nat /\ CPUs \subseteq 0 .. NCPU
  BY SizeAssumption DEF CPUs
<1>3. CASE UNCHANGED <<lock, cursor, slice, spent>>
  BY <1>1, <1>3 DEF TypeOK
<1>4. ASSUME NEW c \in CPUs, Step(c) PROVE TypeOK'
  <2>1. CASE SchedLock(c) \/ SchedRelease(c)
    BY <2>1, <1>1, <1>2 DEF SchedLock, SchedRelease, TypeOK
  <2>2. CASE SchedRun(c)
    <3>1. slice' \in [CPUs -> Nat]
      <4>1. PICK w \in Nat, tw \in Nat \ {0} :
              slice' = [slice EXCEPT ![c] = SliceTicks * (w \div tw)]
        BY <2>2, SliceNat
      <4>2. w \div tw \in Nat
        BY SMT
      <4>3. SliceTicks * (w \div tw) \in Nat
        BY <4>2, SizeAssumption
      <4> QED BY <4>1, <4>3 DEF TypeOK
    <3>2. lock' = 0 /\ cursor' = 0 /\ spent' = spent
      BY <2>2 DEF SchedRun
    <3> QED BY <3>1, <3>2, <1>1, <1>2 DEF TypeOK
  <2>3. CASE Charge(c)
    <3>1. spent' \in [CPUs -> BOOLEAN] /\ UNCHANGED <<lock, cursor, slice>>
      BY <2>3 DEF Charge, TypeOK
    <3> QED BY <3>1, <1>1 DEF TypeOK
  <2>4. CASE Yield(c) \/ Sleep(c) \/ WaitSleep(c) \/ Exit(c)
    <3>1. GiveUp(c) /\ (spent' = [spent EXCEPT ![c] = FALSE] \/ spent' = spent)
      BY <2>4 DEF Yield, Sleep, WaitSleep, Exit
    <3>2. spent' \in [CPUs -> BOOLEAN]
      BY <3>1 DEF TypeOK
    <3>3. lock' \in 0 .. NCPU /\ cursor' \in 0 .. NPROC /\ slice' \in [CPUs -> Nat]
      BY <3>1, <1>2 DEF GiveUp, TypeOK, TableOK
    <3> QED BY <3>2, <3>3, <1>1 DEF TypeOK
  <2>5. CASE ForkAlloc(c) \/ ForkFail(c) \/ ForkHigh(c) \/ ForkLow(c) \/ ForkRun(c)
    BY <2>5, <1>3 DEF ForkAlloc, ForkFail, ForkHigh, ForkLow, ForkRun
  <2>6. CASE WaitReap(c)
    BY <2>6, <1>3 DEF WaitReap
  <2>7. CASE \E q \in Slots : Kill(c, q) \/ \E v \in Nice : SetNice(c, q, v)
    BY <2>7, <1>3 DEF Kill, SetNice
  <2> QED BY <1>4, <2>1, <2>2, <2>3, <2>4, <2>5, <2>6, <2>7 DEF Step
<1>5. CASE Wakeup
  BY <1>3, <1>5 DEF Wakeup
<1> QED BY <1>3, <1>4, <1>5 DEF Next, vars

(* The words of a virtual runtime never leave their width, through carries, *)
(* the borrow that wakeup1() means to make and the copies of fork(), and    *)
(* every timeslice is a number: scheduler() never divides by zero.          *)
THEOREM WordsHold == Spec => []TypeOK
<1>1. Init => TypeOK
  <2>1. Init => TableOK
    BY InitInv DEF Inv
  <2>2. 0 \in 0 .. NCPU /\ 0 \in 0 .. NPROC
    BY SizeAssumption
  <2> QED BY <2>1, <2>2 DEF Init, TypeOK
<1>2. Spec => []Inv
  BY InitInv, NextInv, PTL DEF Spec
<1> QED BY <1>1, <1>2, TypeStep, PTL DEF Spec

-----------------------------------------------------------------------------
(* One CPU whose timer does not interrupt fork(): the copies that fork()    *)
(* makes without ptable.lock are then of one moment.                        *)
Alone == NCPU = 1 /\ ~ForkTicks

(* The CPU's process is the only one that runs, has the CPU while it is in  *)
(* fork(), and does not have it while scheduler() has the lock.             *)
OneRuns ==
  /\ lock = 1 => cur[1] = 0
  /\ \A p \in Slots : proc[p].state = "RUNNING" => cur[1] = p
  /\ \A p \in Slots : at[p] # "user" => cur[1] = p /\ ~spent[1]

(* Everyone who waits for a CPU has the weight of its nice value, and what  *)
(* fork() copied is still the parent's.                                     *)
WeightInv ==
  /\ \A p \in Slots :
       proc[p].state \in {"RUNNABLE", "RUNNING", "SLEEPING"} =>
         proc[p].weight = weights[proc[p].nice]
  /\ \A p \in Slots : at[p] = "low" => proc[child[p]].nice = proc[p].nice

AloneInv == OneRuns /\ WeightInv /\ SliceWhole

(* What a step does to one slot.                                            *)
SameFields(p) ==
  /\ proc'[p].nice = proc[p].nice /\ proc'[p].weight = proc[p].weight
  /\ proc'[p].hi = proc[p].hi /\ proc'[p].lo = proc[p].lo
  /\ proc'[p].used = proc[p].used
Same(p) == SameFields(p) /\ proc'[p].state = proc[p].state
Woken(p) ==
  /\ proc[p].state = "SLEEPING" /\ proc'[p].state = "RUNNABLE"
  /\ proc'[p].nice = proc[p].nice /\ proc'[p].weight = proc[p].weight
Cleared(p) ==
  /\ proc'[p].state \in {"UNUSED", "EMBRYO", "ZOMBIE"}
  /\ proc'[p].lo = 0 /\ proc'[p].used = 0
Reniced(p) ==
  /\ proc'[p].state = proc[p].state
  /\ proc'[p].hi = proc[p].hi /\ proc'[p].lo = proc[p].lo
  /\ proc'[p].used = proc[p].used
  /\ proc'[p].weight = weights[proc'[p].nice]

(* The step leaves the CPU's process where it is.                           *)
Stays(c) ==
  /\ UNCHANGED <<cur, slice, spent, at, child>>
  /\ lock' \in {0, lock} \/ cur[lock'] = 0
  /\ \A p \in Slots :
       \/ Same(p) \/ Woken(p)
       \/ proc[p].state = "ZOMBIE" /\ Cleared(p)
       \/ Reniced(p) /\ at[cur[c]] = "user" /\ cur[c] # 0

(* The CPU's process gives it up.                                           *)
Stops(c) ==
  /\ cur[c] \in Slots
  /\ cur' = [cur EXCEPT ![c] = 0] /\ slice' = [slice EXCEPT ![c] = 0]
  /\ UNCHANGED <<at, child>>
  /\ spent[c] \/ at[cur[c]] = "user"
  /\ \A p \in Slots \ {cur[c]} : Same(p) \/ Woken(p)
  /\ \/ SameFields(cur[c]) /\ proc'[cur[c]].state = "RUNNABLE" /\ spent[c]
     \/ SameFields(cur[c]) /\ proc'[cur[c]].state = "SLEEPING" /\ MayBlock
     \/ Cleared(cur[c])

LEMMA StopsOrStays ==
  ASSUME Inv, NEW c \in CPUs, Step(c)
  PROVE  \/ Stops(c) \/ Stays(c) \/ SchedRun(c) \/ Charge(c)
         \/ ForkAlloc(c) \/ ForkFail(c) \/ ForkHigh(c) \/ ForkLow(c) \/ ForkRun(c)
<1> DEFINE r == cur[c]
<1>1. proc \in Table /\ (r # 0 => r \in Slots)
  BY SizeAssumption DEF Inv, TableOK, Table, Slots
<1>2. \A p \in Slots : proc[p] \in ProcType
  BY <1>1 DEF Table
<1>3. CASE SchedLock(c) \/ SchedRelease(c)
  BY <1>3 DEF SchedLock, SchedRelease, Stays, Same, SameFields
<1>4. CASE Yield(c) \/ Sleep(c) \/ WaitSleep(c)
  <2>1. /\ r \in Slots /\ (spent[c] \/ at[r] = "user") /\ GiveUp(c)
        /\ UNCHANGED <<at, child>>
        /\ \/ spent[c] /\ proc' = [proc EXCEPT ![r].state = "RUNNABLE"]
           \/ /\ MayBlock
              /\ \E ch \in Nat :
                   proc' = [proc EXCEPT ![r].state = "SLEEPING", ![r].chan = ch]
    <3>1. Ticks \in Nat /\ (r # 0 => r \in Nat)
      BY <1>1, SizeAssumption DEF Ticks, Slots
    <3> QED BY <1>4, <3>1, <1>1 DEF Yield, Sleep, WaitSleep, InUser, Runs
  <2>2. \A p \in Slots \ {r} : Same(p)
    BY <2>1, <1>1 DEF Table, Same, SameFields
  <2>3. CASE spent[c] /\ proc' = [proc EXCEPT ![r].state = "RUNNABLE"]
    <3>1. SameFields(r) /\ proc'[r].state = "RUNNABLE"
      BY <2>1, <2>3, <1>1, <1>2 DEF Table, ProcType, SameFields
    <3> QED BY <2>1, <2>2, <2>3, <3>1 DEF Stops, GiveUp
  <2>4. ASSUME MayBlock, NEW ch \in Nat,
               proc' = [proc EXCEPT ![r].state = "SLEEPING", ![r].chan = ch]
        PROVE  Stops(c)
    <3>1. SameFields(r) /\ proc'[r].state = "SLEEPING"
      BY <2>1, <2>4, <1>1, <1>2 DEF Table, ProcType, SameFields
    <3> QED BY <2>1, <2>2, <2>4, <3>1 DEF Stops, GiveUp
  <2> QED BY <2>1, <2>3, <2>4
<1>5. CASE Exit(c)
  <2> DEFINE t == Wakeup1(proc, proc[r].parent)
             u == Reparent(t, r)
             z == [Fresh EXCEPT !.state = "ZOMBIE", !.parent = proc[r].parent]
  <2>1. /\ r \in Slots /\ at[r] = "user" /\ GiveUp(c) /\ UNCHANGED <<at, child>>
        /\ proc' = [u EXCEPT ![r] = z]
    BY <1>5, <1>1 DEF Exit, InUser, Runs
  <2>2. z.state = "ZOMBIE" /\ z.lo = 0 /\ z.used = 0
    BY DEF Fresh
  <2>3. t \in Table /\ u \in Table
    BY <1>1, WakeupFrame, ReparentFrame
  <2>4. \A p \in Slots : t[p] = proc[p] \/ Wakes(proc, t, p)
    BY <1>1, WakeupSlots
  <2>5. \A p \in Slots : Moved(t, u, p) \/ Wakes(t, u, p)
    BY <2>3, ReparentSlots
  <2> HIDE DEF t, u, z
  <2>6. proc'[r] = z /\ \A p \in Slots \ {r} : proc'[p] = u[p]
    BY <2>1, <2>3 DEF Table
  <2>7. \A p \in Slots \ {r} : Same(p) \/ Woken(p)
    BY <2>4, <2>5, <2>6 DEF Wakes, Moved, Same, SameFields, Woken
  <2>8. Cleared(r)
    BY <2>2, <2>6 DEF Cleared
  <2> QED BY <2>1, <2>7, <2>8 DEF Stops, GiveUp
<1>6. CASE WaitReap(c)
  <2> DEFINE z == First(Zombies(r))
  <2>1. z \in Slots /\ proc[z].state = "ZOMBIE"
    <3>1. Zombies(r) # {} /\ Zombies(r) \subseteq Slots
      BY <1>6 DEF WaitReap, Zombies, Children
    <3>2. z \in Zombies(r)
      BY <3>1, FirstIn
    <3> QED BY <3>1, <3>2 DEF Zombies
  <2>2. proc' = [proc EXCEPT ![z] = Fresh]
        /\ UNCHANGED <<cur, lock, slice, spent, at, child>>
    BY <1>6 DEF WaitReap
  <2>3. Fresh.state = "UNUSED" /\ Fresh.lo = 0 /\ Fresh.used = 0
    BY DEF Fresh
  <2> HIDE DEF z
  <2>4. Cleared(z) /\ \A p \in Slots \ {z} : Same(p)
    BY <2>1, <2>2, <2>3, <1>1 DEF Table, Cleared, Same, SameFields
  <2> QED BY <2>1, <2>2, <2>4 DEF Stays
<1>7. ASSUME NEW q \in Slots, Kill(c, q) PROVE Stays(c)
  <2>1. proc[q].state = "SLEEPING" /\ proc' = [proc EXCEPT ![q].state = "RUNNABLE"]
        /\ UNCHANGED <<cur, lock, slice, spent, at, child>>
    BY <1>7 DEF Kill
  <2>2. Woken(q) /\ \A p \in Slots \ {q} : Same(p)
    BY <2>1, <1>1, <1>2 DEF Table, ProcType, Woken, Same, SameFields
  <2> QED BY <2>1, <2>2 DEF Stays
<1>8. ASSUME NEW q \in Slots, NEW v \in Nice, SetNice(c, q, v) PROVE Stays(c)
  <2>1. proc' = [proc EXCEPT ![q].nice = v, ![q].weight = weights[v]]
        /\ UNCHANGED <<cur, lock, slice, spent, at, child>>
        /\ at[cur[c]] = "user" /\ cur[c] # 0
    BY <1>8 DEF SetNice, InUser, Runs
  <2>2. Reniced(q) /\ \A p \in Slots \ {q} : Same(p)
    BY <2>1, <1>1, <1>2 DEF Table, ProcType, Reniced, Same, SameFields
  <2> QED BY <2>1, <2>2 DEF Stays
<1> QED BY <1>3, <1>4, <1>5, <1>6, <1>7, <1>8 DEF Step

(* On one CPU, a step that stays preserves who runs and at which weight.    *)
LEMMA AloneStays ==
  ASSUME Inv, Alone, AloneInv, Stays(1)
  PROVE  AloneInv'
<1>1. cur' = cur /\ slice' = slice /\ spent' = spent /\ at' = at /\ child' = child
  BY DEF Stays
<1>2. \A p \in Slots :
        \/ Same(p) \/ Woken(p)
        \/ proc[p].state = "ZOMBIE" /\ Cleared(p)
        \/ Reniced(p) /\ at[cur[1]] = "user" /\ cur[1] # 0
  BY DEF Stays
<1>3. \A p \in Slots : proc'[p].state = "RUNNING" => proc[p].state = "RUNNING"
  BY <1>2 DEF Same, Woken, Cleared, Reniced
<1>4. OneRuns'
  <2>1. lock' = 1 => cur'[1] = 0
    BY <1>1 DEF Stays, AloneInv, OneRuns
  <2> QED BY <1>1, <1>3, <2>1 DEF AloneInv, OneRuns
<1>5. WeightInv'
  <2>1. \A p \in Slots :
          proc'[p].state \in {"RUNNABLE", "RUNNING", "SLEEPING"} =>
            proc'[p].weight = weights[proc'[p].nice]
    BY <1>2 DEF AloneInv, WeightInv, Same, SameFields, Woken, Cleared, Reniced
  <2>2. ASSUME NEW p \in Slots, at[p] = "low"
        PROVE  proc'[child[p]].nice = proc'[p].nice
    <3>1. cur[1] = p
      BY <2>2 DEF AloneInv, OneRuns
    <3>2. child[p] \in Slots /\ proc[child[p]].state = "EMBRYO"
      BY <2>2 DEF Inv, ForkInv
    <3>3. \A q \in Slots : proc[q].state # "ZOMBIE" => proc'[q].nice = proc[q].nice
      BY <3>1, <2>2, <1>2 DEF Same, SameFields, Woken
    <3>4. proc[p].state = "RUNNING"
      <4>1. 1 \in CPUs /\ p # 0
        BY SizeAssumption DEF CPUs, Slots
      <4> QED BY <3>1, <4>1 DEF Inv, CurInv
    <3> QED BY <2>2, <3>2, <3>3, <3>4 DEF AloneInv, WeightInv
  <2> QED BY <1>1, <2>1, <2>2 DEF WeightInv
<1>6. SliceWhole'
  BY <1>1 DEF AloneInv, SliceWhole
<1> QED BY <1>4, <1>5, <1>6 DEF AloneInv

(* So does one in which the process gives up the CPU: it is not in fork().  *)
LEMMA AloneStops ==
  ASSUME Inv, TypeOK, Alone, AloneInv, Stops(1)
  PROVE  AloneInv'
<1>1. CPUs = {1}
  BY DEF Alone, CPUs
<1>2. /\ cur[1] \in Slots /\ cur'[1] = 0 /\ slice'[1] = 0
      /\ at' = at /\ child' = child
  BY <1>1 DEF Stops, TypeOK, TableOK
<1>3. \A p \in Slots : at[p] = "user"
  BY DEF Stops, AloneInv, OneRuns
<1>4. OneRuns'
  <2>1. \A p \in Slots : proc'[p].state # "RUNNING"
    <3> TAKE p \in Slots
    <3>1. CASE p = cur[1]
      BY <3>1 DEF Stops, Cleared
    <3>2. CASE p # cur[1]
      <4>1. proc[p].state # "RUNNING"
        BY <3>2 DEF AloneInv, OneRuns
      <4>2. Same(p) \/ Woken(p)
        BY <3>2 DEF Stops
      <4> QED BY <4>1, <4>2 DEF Same, Woken
    <3> QED BY <3>1, <3>2
  <2> QED BY <1>2, <1>3, <2>1 DEF OneRuns
<1>5. WeightInv'
  <2>1. ASSUME NEW p \in Slots,
               proc'[p].state \in {"RUNNABLE", "RUNNING", "SLEEPING"}
        PROVE  proc'[p].weight = weights[proc'[p].nice]
    <3>1. CASE p = cur[1]
      <4>1. proc[p].state = "RUNNING"
        <5>1. 1 \in CPUs /\ p # 0
          BY <1>1, SizeAssumption DEF Slots
        <5> QED BY <5>1, <3>1 DEF Inv, CurInv
      <4>2. SameFields(p)
        BY <2>1, <3>1 DEF Stops, Cleared
      <4> QED BY <4>1, <4>2 DEF AloneInv, WeightInv, SameFields
    <3>2. CASE p # cur[1]
      <4>1. Same(p) \/ Woken(p)
        BY <3>2 DEF Stops
      <4> QED BY <4>1, <2>1 DEF Same, SameFields, Woken, AloneInv, WeightInv
    <3> QED BY <3>1, <3>2
  <2> QED BY <2>1, <1>2, <1>3 DEF WeightInv
<1>6. SliceWhole'
  BY <1>1, <1>2 DEF SliceWhole
<1> QED BY <1>4, <1>5, <1>6 DEF AloneInv

(* Process p, in fork(), changes slot np and nothing else: allocproc() took *)
(* it, fork() failed, copied the high word, the low word and the nice       *)
(* value, or the weight.                                                    *)
Fills(p, np) ==
  /\ \A q \in Slots \ {np} : Same(q)
  /\ \A q \in Slots \ {p} : at'[q] = at[q] /\ child'[q] = child[q]
  /\ \/ /\ at'[p] = "alloc" /\ child'[p] = np
        /\ Cleared(np) /\ proc'[np].state = "EMBRYO"
     \/ /\ at'[p] = "user"
        /\ SameFields(np) /\ proc'[np].state = "UNUSED"
     \/ /\ at'[p] = "high" /\ child'[p] = np
        /\ proc'[np].hi = proc[p].hi
        /\ proc'[np].lo = proc[np].lo /\ proc'[np].used = proc[np].used
        /\ proc'[np].state = "EMBRYO"
     \/ /\ at[p] = "high" /\ at'[p] = "low" /\ child[p] = np /\ child'[p] = np
        /\ proc'[np].hi = proc[np].hi
        /\ proc'[np].lo = proc[p].lo /\ proc'[np].used = proc[np].used
        /\ proc'[np].nice = proc[p].nice
        /\ proc'[np].state = "EMBRYO"
     \/ /\ at[p] = "low" /\ at'[p] = "user" /\ child[p] = np
        /\ proc'[np].nice = proc[np].nice /\ proc'[np].weight = proc[p].weight
        /\ proc'[np].hi = proc[np].hi /\ proc'[np].lo = proc[np].lo
        /\ proc'[np].used = proc[np].used
        /\ proc'[np].state = "RUNNABLE"

Forks(c) ==
  /\ UNCHANGED <<cur, lock, slice, spent>> /\ cur[c] \in Slots /\ ~spent[c]
  /\ proc[cur[c]].state = "RUNNING"
  /\ \E np \in Slots \ {cur[c]} : Fills(cur[c], np)

LEMMA ForkEffect ==
  ASSUME Inv, NEW c \in CPUs,
         ForkAlloc(c) \/ ForkFail(c) \/ ForkHigh(c) \/ ForkLow(c) \/ ForkRun(c)
  PROVE  Forks(c)
<1> DEFINE p == cur[c]
<1>1. /\ p \in Slots /\ ~spent[c] /\ UNCHANGED <<cur, lock, slice, spent>>
      /\ proc[p].state = "RUNNING"
  BY SizeAssumption
  DEF ForkAlloc, ForkFail, ForkHigh, ForkLow, ForkRun, InUser, Forking, Runs, Inv,
      TableOK, CurInv, Slots
<1>2. /\ proc \in [Slots -> ProcType] /\ proc[p] \in ProcType
      /\ at \in [Slots -> {"user", "alloc", "high", "low"}]
      /\ child \in [Slots -> 0 .. NPROC]
  BY <1>1 DEF Inv, TableOK
<1>3. CASE ForkAlloc(c)
  <2> DEFINE U == {q \in Slots : proc[q].state = "UNUSED"}
             np == First(U)
             e == [Fresh EXCEPT !.state = "EMBRYO"]
  <2>1. np \in Slots /\ proc[np].state = "UNUSED"
    <3>1. U # {} /\ U \subseteq Slots
      BY <1>3 DEF ForkAlloc
    <3>2. np \in U
      BY <3>1, FirstIn
    <3> QED BY <3>2
  <2>2. /\ proc' = [proc EXCEPT ![np] = e] /\ child' = [child EXCEPT ![p] = np]
        /\ at' = [at EXCEPT ![p] = "alloc"]
    BY <1>3 DEF ForkAlloc
  <2>3. e.state = "EMBRYO" /\ e.lo = 0 /\ e.used = 0
    BY DEF Fresh
  <2> HIDE DEF np, e
  <2>4. np # p /\ Cleared(np) /\ proc'[np].state = "EMBRYO"
        /\ \A q \in Slots \ {np} : Same(q)
    BY <2>1, <2>2, <2>3, <1>1, <1>2 DEF Cleared, Same, SameFields
  <2>5. /\ \A q \in Slots \ {p} : at'[q] = at[q] /\ child'[q] = child[q]
        /\ at'[p] = "alloc" /\ child'[p] = np
    BY <2>2, <1>1, <1>2
  <2> QED BY <1>1, <2>1, <2>4, <2>5 DEF Forks, Fills
<1>4. CASE ~ForkAlloc(c)
  <2> DEFINE np == child[p]
  <2>1. at[p] # "user"
    BY <1>4 DEF ForkFail, ForkHigh, ForkLow, ForkRun, Forking
  <2>2. np \in Slots /\ proc[np].state = "EMBRYO" /\ np # p /\ proc[np] \in ProcType
    BY <2>1, <1>1, <1>2 DEF Inv, ForkInv
  <2>3. \A q \in Slots \ {np} : Same(q)
    BY <1>2, <1>4, <2>2 DEF ForkFail, ForkHigh, ForkLow, ForkRun, Same, SameFields
  <2>4. /\ \A q \in Slots \ {p} : at'[q] = at[q] /\ child'[q] = child[q]
        /\ child'[p] \in {0, np}
    BY <1>1, <1>2, <1>4 DEF ForkFail, ForkHigh, ForkLow, ForkRun
  <2>5. CASE ForkFail(c)
    <3>1. /\ at'[p] = "user" /\ SameFields(np) /\ proc'[np].state = "UNUSED"
      BY <1>1, <1>2, <2>2, <2>5 DEF ForkFail, SameFields, ProcType
    <3> QED BY <1>1, <2>2, <2>3, <2>4, <3>1 DEF Forks, Fills
  <2>6. CASE ForkHigh(c)
    <3>1. /\ at'[p] = "high" /\ child'[p] = np
          /\ proc'[np].hi = proc[p].hi
          /\ proc'[np].lo = proc[np].lo /\ proc'[np].used = proc[np].used
          /\ proc'[np].state = "EMBRYO"
      BY <1>1, <1>2, <2>2, <2>6 DEF ForkHigh, ProcType
    <3> QED BY <1>1, <2>2, <2>3, <2>4, <3>1 DEF Forks, Fills
  <2>7. CASE ForkLow(c)
    <3>1. /\ at[p] = "high" /\ at'[p] = "low" /\ child'[p] = np
          /\ proc'[np].hi = proc[np].hi
          /\ proc'[np].lo = proc[p].lo /\ proc'[np].used = proc[np].used
          /\ proc'[np].nice = proc[p].nice
          /\ proc'[np].state = "EMBRYO"
      BY <1>1, <1>2, <2>2, <2>7 DEF ForkLow, Forking, ProcType
    <3> QED BY <1>1, <2>2, <2>3, <2>4, <3>1 DEF Forks, Fills
  <2>8. CASE ForkRun(c)
    <3>1. /\ at[p] = "low" /\ at'[p] = "user"
          /\ proc'[np].nice = proc[np].nice
          /\ proc'[np].hi = proc[np].hi /\ proc'[np].lo = proc[np].lo
          /\ proc'[np].used = proc[np].used
          /\ proc'[np].weight = proc[p].weight
          /\ proc'[np].state = "RUNNABLE"
      BY <1>1, <1>2, <2>2, <2>8 DEF ForkRun, Forking, ProcType
    <3> QED BY <1>1, <2>2, <2>3, <2>4, <3>1 DEF Forks, Fills
  <2> QED BY <1>4, <2>5, <2>6, <2>7, <2>8
<1> QED BY <1>3, <1>4

(* On one CPU nobody runs when scheduler() dispatches; the process's weight *)
(* was in the sum, so that the quotient is 0 or 1.                          *)
LEMMA AloneRun ==
  ASSUME Inv, TypeOK, Alone, AloneInv, SchedRun(1)
  PROVE  AloneInv'
<1>1. CPUs = {1} /\ 1 \in CPUs
  BY DEF Alone, CPUs
<1>2. cur[1] = 0 /\ lock' = 0 /\ UNCHANGED <<at, child, spent>>
  BY DEF SchedRun, AloneInv, OneRuns
<1>3. PICK p \in Runnable(proc) :
        /\ weights[proc[p].nice] \in Nat /\ TotalWeight(proc) \in Nat \ {0}
        /\ proc[p].weight <= TotalWeight(proc)
        /\ proc' = [proc EXCEPT ![p].state = "RUNNING",
                         ![p].weight = weights[proc[p].nice], ![p].chan = 0]
        /\ slice' = [slice EXCEPT ![1] =
                       SliceTicks * (weights[proc[p].nice] \div TotalWeight(proc))]
        /\ cur' = [cur EXCEPT ![1] = p]
  BY <1>1, SliceNat
<1>4. \A q \in Slots : at[q] = "user" /\ proc[q].state # "RUNNING"
  BY <1>2, SizeAssumption DEF AloneInv, OneRuns, Slots
<1>5. p \in Slots /\ proc[p] \in ProcType /\ proc[p].state = "RUNNABLE"
      /\ proc \in [Slots -> ProcType]
  BY DEF Runnable, TypeOK, TableOK
<1>6. /\ proc'[p].weight = weights[proc'[p].nice]
      /\ \A q \in Slots \ {p} : proc'[q] = proc[q]
  BY <1>3, <1>5 DEF ProcType
<1>7. cur'[1] = p
  BY <1>1, <1>3 DEF TypeOK, TableOK
<1>8. OneRuns'
  BY <1>2, <1>4, <1>6, <1>7 DEF OneRuns
<1>9. WeightInv'
  BY <1>2, <1>4, <1>6 DEF AloneInv, WeightInv
<1>10. SliceWhole'
  <2> DEFINE w == weights[proc[p].nice]
             tw == TotalWeight(proc)
  <2>1. w = proc[p].weight
    BY <1>5 DEF AloneInv, WeightInv
  <2>2. w \in Nat /\ tw \in Nat \ {0} /\ w <= tw
    BY <1>3, <2>1
  <2>3. slice'[1] = SliceTicks * (w \div tw)
    BY <1>1, <1>3 DEF TypeOK
  <2> HIDE DEF w, tw
  <2>4. w \div tw \in {0, 1}
    <3>1. CASE w = tw
      BY <3>1, <2>2
    <3>2. CASE w < tw
      BY <3>2, <2>2
    <3> QED BY <2>2, <3>1, <3>2
  <2>5. slice'[1] \in {0, SliceTicks}
    BY <2>3, <2>4, SizeAssumption
  <2> QED BY <2>5, <1>1 DEF SliceWhole
<1> QED BY <1>8, <1>9, <1>10 DEF AloneInv

(* The timer writes the running process's words, outside fork().            *)
LEMMA ChargeEffect ==
  ASSUME Inv, NEW c \in CPUs, Charge(c)
  PROVE  /\ cur[c] \in Slots /\ ~spent[c] /\ UNCHANGED <<cur, lock, slice, at, child>>
         /\ ForkTicks \/ at[cur[c]] = "user"
         /\ \A p \in Slots \ {cur[c]} : Same(p)
         /\ proc'[cur[c]].state = proc[cur[c]].state
         /\ proc'[cur[c]].nice = proc[cur[c]].nice
         /\ proc'[cur[c]].weight = proc[cur[c]].weight
<1>1. cur[c] \in Slots /\ proc \in [Slots -> ProcType] /\ proc[cur[c]] \in ProcType
  BY SizeAssumption DEF Charge, Runs, Inv, TableOK, Slots
<1>2. ~spent[c] /\ UNCHANGED <<cur, lock, slice, at, child>>
      /\ (ForkTicks \/ at[cur[c]] = "user")
  BY DEF Charge, Runs
<1>3. PICK hi, lo, used :
        proc' = [proc EXCEPT ![cur[c]].hi = hi, ![cur[c]].lo = lo, ![cur[c]].used = used]
  BY DEF Charge
<1>4. \A p \in Slots \ {cur[c]} : Same(p)
  BY <1>1, <1>3 DEF Same, SameFields
<1>5. /\ proc'[cur[c]].state = proc[cur[c]].state
      /\ proc'[cur[c]].nice = proc[cur[c]].nice
      /\ proc'[cur[c]].weight = proc[cur[c]].weight
  BY <1>1, <1>3 DEF ProcType
<1> QED BY <1>1, <1>2, <1>4, <1>5

LEMMA AloneCharge ==
  ASSUME Inv, Alone, AloneInv, Charge(1)
  PROVE  AloneInv'
<1>1. 1 \in CPUs
  BY DEF Alone, CPUs
<1>2. /\ UNCHANGED <<cur, lock, slice, at, child>> /\ at[cur[1]] = "user"
      /\ \A p \in Slots \ {cur[1]} : Same(p)
      /\ proc'[cur[1]].state = proc[cur[1]].state
      /\ proc'[cur[1]].nice = proc[cur[1]].nice
      /\ proc'[cur[1]].weight = proc[cur[1]].weight
  BY <1>1, ChargeEffect DEF Alone
<1>3. \A p \in Slots :
        /\ proc'[p].state = proc[p].state /\ proc'[p].nice = proc[p].nice
        /\ proc'[p].weight = proc[p].weight
  BY <1>2 DEF Same, SameFields
<1>4. \A p \in Slots : at[p] = "user"
  BY <1>2 DEF AloneInv, OneRuns
<1>5. OneRuns' /\ WeightInv'
  BY <1>2, <1>3, <1>4 DEF AloneInv, OneRuns, WeightInv
<1>6. SliceWhole'
  BY <1>2 DEF AloneInv, SliceWhole
<1> QED BY <1>5, <1>6 DEF AloneInv

LEMMA AloneFork ==
  ASSUME Inv, Alone, AloneInv, Forks(1)
  PROVE  AloneInv'
<1> DEFINE p == cur[1]
<1>1. /\ UNCHANGED <<cur, lock, slice, spent>> /\ p \in Slots /\ ~spent[1]
      /\ proc[p].state = "RUNNING"
  BY DEF Forks
<1>2. PICK np \in Slots \ {p} : Fills(p, np)
  BY DEF Forks
<1>3. \A q \in Slots \ {p} : at[q] = "user" /\ at'[q] = "user" /\ child'[q] = child[q]
  BY <1>2 DEF Fills, AloneInv, OneRuns
<1>4. \A q \in Slots \ {np} : Same(q)
  BY <1>2 DEF Fills
<1>5. proc'[np].state # "RUNNING"
  BY <1>2 DEF Fills
<1>6. OneRuns'
  BY <1>1, <1>3, <1>4, <1>5 DEF AloneInv, OneRuns, Same
<1>7. WeightInv'
  <2>1. at'[p] = "low" => proc'[child'[p]].nice = proc'[p].nice
    BY <1>1, <1>2, <1>4 DEF Fills, Same, SameFields
  <2>2. proc[p].weight = weights[proc[p].nice]
    BY <1>1 DEF AloneInv, WeightInv
  <2>3. at[p] = "low" => proc[child[p]].nice = proc[p].nice
    BY <1>1 DEF AloneInv, WeightInv
  <2>4. proc'[np].state = "RUNNABLE" => proc'[np].weight = weights[proc'[np].nice]
    BY <1>2, <2>2, <2>3 DEF Fills, Cleared
  <2>5. proc'[np].state # "SLEEPING"
    BY <1>2 DEF Fills
  <2> QED BY <1>3, <1>4, <1>5, <2>1, <2>4, <2>5 DEF AloneInv, WeightInv, Same, SameFields
<1>8. SliceWhole'
  BY <1>1 DEF AloneInv, SliceWhole
<1> QED BY <1>6, <1>7, <1>8 DEF AloneInv

(* A wakeup from outside the table is one more step that stays.             *)
LEMMA WakeupStays ==
  ASSUME Inv, NEW c, Wakeup
  PROVE  Stays(c)
<1>1. proc \in Table
  BY DEF Inv, TableOK, Table
<1>2. proc' = Wakeup1(proc, Ticks) /\ UNCHANGED <<cur, lock, slice, spent, at, child>>
  BY DEF Wakeup
<1>3. \A p \in Slots : proc'[p] = proc[p] \/ Wakes(proc, proc', p)
  BY <1>1, <1>2, WakeupSlots
<1>4. \A p \in Slots : Same(p) \/ Woken(p)
  BY <1>3 DEF Wakes, Same, SameFields, Woken
<1> QED BY <1>2, <1>4 DEF Stays

LEMMA AloneStep ==
  Alone => (Inv /\ TypeOK /\ AloneInv /\ [Next]_vars => AloneInv')
<1> SUFFICES ASSUME Alone, Inv, TypeOK, AloneInv, [Next]_vars PROVE AloneInv'
  OBVIOUS
<1>1. CPUs = {1}
  BY DEF Alone, CPUs
<1>2. CASE UNCHANGED vars
  BY <1>2 DEF vars, AloneInv, OneRuns, WeightInv, SliceWhole
<1>3. CASE Wakeup
  BY <1>3, WakeupStays, AloneStays
<1>4. CASE Step(1)
  BY <1>1, <1>4, StopsOrStays, ForkEffect, AloneStays, AloneStops, AloneRun,
     AloneCharge, AloneFork
<1> QED BY <1>1, <1>2, <1>3, <1>4 DEF Next

LEMMA AloneInit == Alone /\ Init => AloneInv
<1> SUFFICES ASSUME Alone, Init PROVE AloneInv
  OBVIOUS
<1>1. /\ \A p \in Slots : /\ proc[p].state \in {"UNUSED", "RUNNABLE"}
                          /\ proc[p].weight = weights[proc[p].nice]
                          /\ at[p] = "user"
      /\ \A c \in CPUs : slice[c] = 0
      /\ lock = 0
  BY DEF Init, Fresh
<1> QED BY <1>1 DEF AloneInv, OneRuns, WeightInv, SliceWhole

(* A dispatched process may run for one whole timeslice or yields at its    *)
(* first tick, on one CPU whose timer does not interrupt fork(), for every  *)
(* number of processes and table of weights.                                *)
THEOREM TimesliceWholeOrNothing == Alone /\ Spec => []SliceWhole
<1>1. Spec => [](Inv /\ TypeOK)
  BY WordsHold, InitInv, NextInv, PTL DEF Spec
<1>2. AloneInv => SliceWhole
  BY DEF AloneInv
<1>3. CASE Alone
  <2>1. Init => AloneInv
    BY <1>3, AloneInit
  <2>2. Inv /\ TypeOK /\ AloneInv /\ [Next]_vars => AloneInv'
    BY <1>3, AloneStep
  <2> QED BY <1>1, <1>2, <2>1, <2>2, PTL DEF Spec
<1> QED BY <1>3

-----------------------------------------------------------------------------
(* While nobody sleeps: low words are below the carry.                      *)
LowInv == \A p \in Slots : proc[p].lo < Carry /\ proc[p].state # "SLEEPING"

(* Ticks of a timeslice are counted for the running process only, up to the *)
(* one at which it yields.                                                  *)
UsedInv ==
  \A p \in Slots :
    proc[p].used = 0 \/ (p = cur[1] /\ ~spent[1] /\ proc[p].used < slice[1])

(* The words that fork() copied are still the parent's.                     *)
CopyInv ==
  \A p \in Slots :
    /\ at[p] \in {"high", "low"} => proc[child[p]].hi = proc[p].hi
    /\ at[p] = "low" => proc[child[p]].lo = proc[p].lo

(* The running process leads by no more than the ticks of this timeslice    *)
(* cost: it was the least one when it was dispatched.                       *)
LeadInv ==
  \A p, q \in Slots :
    cur[1] = p /\ ~spent[1] /\ Active(q) =>
      Vruntime(proc[p]) - Vruntime(proc[q]) <= proc[p].used * MaxCost

FairInv == LowInv /\ UsedInv /\ CopyInv /\ LeadInv /\ Spread

(* The largest cost of a tick is one of them: they are bounded by VUnit.    *)
LEMMA MaxCostIs ==
  /\ MaxCost \in Nat
  /\ \A n \in Nice : /\ VUnit \div weights[n] \in Nat
                     /\ VUnit \div weights[n] <= MaxCost
<1> DEFINE D == {VUnit \div weights[n] : n \in Nice}
           B == {VUnit - d : d \in D}
<1>1. \A n \in Nice : VUnit \div weights[n] \in 0 .. VUnit
  <2> TAKE n \in Nice
  <2>1. VUnit \in Nat /\ weights[n] \in Nat \ {0}
    BY SizeAssumption
  <2> DEFINE w == weights[n]
  <2> HIDE DEF w
  <2>2. VUnit \in Nat /\ w \in Nat \ {0}
    BY <2>1 DEF w
  <2>3. VUnit \div w \in 0 .. VUnit
    BY <2>2
  <2> QED BY <2>3 DEF w
<1>2. \A d \in D : d \in 0 .. VUnit
  BY <1>1
<1>3. D # {}
  BY SizeAssumption
<1> HIDE DEF D
<1>4. B \subseteq Nat /\ B # {}
  BY <1>2, <1>3, SizeAssumption
<1>5. PICK b \in B : \A x \in B : b <= x
  BY <1>4, LeastNat
<1>6. \E d \in D : \A e \in D : e <= d
  <2>1. PICK d \in D : b = VUnit - d
    BY <1>5
  <2>2. \A e \in D : VUnit - d <= VUnit - e
    BY <1>5, <2>1
  <2>3. \A e \in D : e <= d
    BY <1>2, <2>1, <2>2, SizeAssumption
  <2> QED BY <2>1, <2>3
<1>7. \E d \in D : \A n \in Nice : VUnit \div weights[n] <= d
  BY <1>6 DEF D
<1>8. MaxCost \in D /\ \A n \in Nice : VUnit \div weights[n] <= MaxCost
  BY <1>7 DEF MaxCost, D
<1> QED BY <1>1, <1>2, <1>8

(* Virtual runtimes are numbers, and the scheduler's comparison orders them *)
(* when the low words are below the carry.                                  *)
LEMMA VOrder ==
  ASSUME NEW r \in ProcType, NEW s \in ProcType, r.lo < Carry, s.lo < Carry
  PROVE  /\ Vruntime(r) \in Nat
         /\ ~Greater(r, s) => Vruntime(r) <= Vruntime(s)
<1>1. r.hi \in Nat /\ r.lo \in Nat /\ s.hi \in Nat /\ s.lo \in Nat /\ Carry \in Nat
  BY SizeAssumption DEF ProcType
<1> DEFINE a == r.hi
           b == s.hi
           k == r.lo
           l == s.lo
<1> HIDE DEF a, b, k, l
<1>2. a \in Nat /\ b \in Nat /\ k \in Nat /\ l \in Nat /\ k < Carry /\ l < Carry
  BY <1>1 DEF a, b, k, l
<1>3. a * Carry \in Nat /\ b * Carry \in Nat
  BY <1>1, <1>2
<1>4. ASSUME a < b PROVE a * Carry + Carry <= b * Carry
  <2>1. b - a - 1 \in Nat
    BY <1>2, <1>4
  <2>2. (b - a - 1) * Carry \in Nat
    BY <2>1, <1>1
  <2>3. (b - a - 1) * Carry = b * Carry - a * Carry - Carry
    BY <1>1, <1>2
  <2> QED BY <2>2, <2>3, <1>1, <1>3
<1>5. ASSUME ~(a > b \/ (a = b /\ k > l)) PROVE a * Carry + k <= b * Carry + l
  <2>1. CASE a < b
    BY <2>1, <1>1, <1>2, <1>3, <1>4
  <2>2. CASE a = b
    BY <2>2, <1>2, <1>3, <1>5
  <2> QED BY <2>1, <2>2, <1>2, <1>5
<1> QED BY <1>2, <1>3, <1>5 DEF Vruntime, Greater, a, b, k, l

(* A tick adds its cost to the virtual runtime, the carry included.         *)
LEMMA ChargeAdds ==
  ASSUME Inv, TypeOK, NEW c \in CPUs, Charge(c), proc[cur[c]].lo < Carry
  PROVE  /\ proc'[cur[c]].lo < Carry
         /\ Vruntime(proc'[cur[c]]) = Vruntime(proc[cur[c]]) + Cost(proc[cur[c]])
         /\ Cost(proc[cur[c]]) \in Nat /\ Cost(proc[cur[c]]) <= MaxCost
         /\ \/ proc[cur[c]].used + 1 >= slice[c] /\ proc'[cur[c]].used = 0 /\ spent'[c]
            \/ /\ ~(proc[cur[c]].used + 1 >= slice[c])
               /\ proc'[cur[c]].used = proc[cur[c]].used + 1
<1> DEFINE r == proc[cur[c]]
           low == ChargedLow(r)
           high == IF low >= Carry THEN r.hi + 1 ELSE r.hi
           up == r.used + 1 >= slice[c]
<1>1. cur[c] \in Slots /\ proc \in [Slots -> ProcType] /\ r \in ProcType
  BY SizeAssumption DEF Charge, Runs, Inv, TableOK, Slots
<1>2. /\ proc' = [proc EXCEPT ![cur[c]].hi = high, ![cur[c]].lo = low % Carry,
                              ![cur[c]].used = IF up THEN 0 ELSE r.used + 1]
      /\ spent' = [spent EXCEPT ![c] = up]
  BY <1>1 DEF Charge, ProcType
<1>3. Cost(r) \in Nat /\ Cost(r) <= MaxCost /\ Cost(r) <= Carry /\ Cost(r) <= Word - Carry
  <2>1. PICK n \in Nice : r.weight = weights[n]
    BY <1>1 DEF ProcType
  <2> QED BY <2>1, MaxCostIs, CostAssumption DEF Cost
<1> DEFINE d == Cost(r)
           l == r.lo
           h == r.hi
<1>4. l \in Nat /\ l < Carry /\ h \in Nat /\ Carry \in Nat \ {0} /\ Word \in Nat
  BY <1>1, SizeAssumption DEF ProcType
<1>5. low = (l + d) % Word
  BY DEF ChargedLow
<1> HIDE DEF d, l, low
<1>6. d \in Nat /\ d <= Carry /\ d <= Word - Carry
  BY <1>3 DEF d
<1>7. low = l + d
  <2>1. l + d \in 0 .. Word - 1
    BY <1>4, <1>6
  <2> QED BY <2>1, <1>4, <1>5
<1>8. /\ low % Carry \in 0 .. Carry - 1
      /\ low < Carry => low % Carry = low
      /\ low >= Carry => low % Carry = low - Carry
  <2>1. low \in Nat /\ low < 2 * Carry
    BY <1>4, <1>6, <1>7
  <2>2. CASE low < Carry
    BY <2>1, <2>2, <1>4
  <2>3. CASE low >= Carry
    <3>1. low - Carry \in 0 .. Carry - 1
      BY <2>1, <2>3, <1>4
    <3>2. low % Carry = low - Carry
      BY <3>1, <2>1, <1>4
    <3> QED BY <3>1, <3>2, <2>1, <2>3, <1>4
  <2> QED BY <2>1, <2>2, <2>3, <1>4
<1>9. high * Carry + (low % Carry) = h * Carry + l + d
  <2>1. h * Carry \in Nat /\ (h + 1) * Carry = h * Carry + Carry
    BY <1>4
  <2>2. CASE low < Carry
    BY <2>1, <2>2, <1>4, <1>6, <1>7, <1>8
  <2>3. CASE low >= Carry
    BY <2>1, <2>3, <1>4, <1>6, <1>7, <1>8
  <2> QED BY <2>2, <2>3, <1>4, <1>6, <1>7
<1>10. proc'[cur[c]].hi = high /\ proc'[cur[c]].lo = low % Carry
       /\ proc'[cur[c]].used = IF up THEN 0 ELSE r.used + 1
  <2> DEFINE m == low % Carry
             u == IF up THEN 0 ELSE r.used + 1
  <2>1. proc' = [proc EXCEPT ![cur[c]].hi = high, ![cur[c]].lo = m, ![cur[c]].used = u]
    BY <1>2
  <2> HIDE DEF high, m, u
  <2>2. proc'[cur[c]].hi = high /\ proc'[cur[c]].lo = m /\ proc'[cur[c]].used = u
    BY <1>1, <2>1 DEF ProcType
  <2> QED BY <2>2 DEF m, u
<1>11. Vruntime(proc'[cur[c]]) = Vruntime(r) + Cost(r)
  BY <1>9, <1>10 DEF Vruntime, d, l
<1>12. proc'[cur[c]].lo < Carry
  BY <1>4, <1>8, <1>10
<1>13. \/ up /\ proc'[cur[c]].used = 0 /\ spent'[c]
       \/ ~up /\ proc'[cur[c]].used = r.used + 1
  <2>1. spent'[c] = up
    BY <1>2 DEF TypeOK
  <2> QED BY <1>10, <2>1
<1> QED BY <1>3, <1>11, <1>12, <1>13

(* Nobody's virtual runtime changed and nobody became active: the spread is *)
(* what it was.                                                             *)
LEMMA SpreadKept ==
  ASSUME Spread,
         \A p \in Slots :
           proc'[p].state \in {"RUNNABLE", "RUNNING"} =>
             /\ proc[p].state \in {"RUNNABLE", "RUNNING"}
             /\ proc'[p].hi = proc[p].hi /\ proc'[p].lo = proc[p].lo
  PROVE  /\ Spread'
         /\ \A p \in Slots : Active(p)' =>
              Active(p) /\ Vruntime(proc'[p]) = Vruntime(proc[p])
<1>1. \A p \in Slots : Active(p)' =>
        Active(p) /\ Vruntime(proc'[p]) = Vruntime(proc[p])
  BY DEF Active, Vruntime
<1> QED BY <1>1 DEF Spread

LEMMA FairStays ==
  ASSUME Inv, Alone, AloneInv, FairInv, Stays(1)
  PROVE  FairInv'
<1>1. cur' = cur /\ slice' = slice /\ spent' = spent /\ at' = at /\ child' = child
  BY DEF Stays
<1>2. \A p \in Slots :
        \/ Same(p) \/ Reniced(p)
        \/ proc[p].state = "ZOMBIE" /\ Cleared(p)
  BY DEF Stays, FairInv, LowInv, Woken
<1>3. \A p \in Slots :
        \/ /\ proc'[p].state = proc[p].state
           /\ proc'[p].hi = proc[p].hi /\ proc'[p].lo = proc[p].lo
           /\ proc'[p].used = proc[p].used
        \/ proc[p].state = "ZOMBIE" /\ Cleared(p)
  BY <1>2 DEF Same, SameFields, Reniced
<1>4. LowInv'
  BY <1>3, SizeAssumption DEF FairInv, LowInv, Cleared
<1>5. UsedInv'
  BY <1>1, <1>3 DEF FairInv, UsedInv, Cleared
<1>6. Spread' /\ \A p \in Slots : Active(p)' =>
                   Active(p) /\ Vruntime(proc'[p]) = Vruntime(proc[p])
  BY <1>3, SpreadKept DEF FairInv, Cleared
<1>7. ASSUME NEW p \in Slots, cur[1] = p
      PROVE  /\ proc'[p].used = proc[p].used
             /\ proc'[p].hi = proc[p].hi /\ proc'[p].lo = proc[p].lo
  <2>1. 1 \in CPUs /\ p # 0
    BY SizeAssumption DEF CPUs, Alone, Slots
  <2>2. proc[p].state = "RUNNING"
    BY <1>7, <2>1 DEF Inv, CurInv
  <2> QED BY <2>2, <1>3
<1>8. CopyInv'
  <2> SUFFICES ASSUME NEW p \in Slots, at[p] \in {"high", "low"}
               PROVE  /\ proc'[child[p]].hi = proc'[p].hi
                      /\ at[p] = "low" => proc'[child[p]].lo = proc'[p].lo
    BY <1>1 DEF CopyInv
  <2>1. child[p] \in Slots /\ proc[child[p]].state = "EMBRYO" /\ cur[1] = p
    BY DEF Inv, ForkInv, AloneInv, OneRuns
  <2> QED BY <2>1, <1>3, <1>7 DEF FairInv, CopyInv
<1>9. LeadInv'
  <2> SUFFICES ASSUME NEW p \in Slots, NEW q \in Slots,
                      cur[1] = p, ~spent[1], Active(q)'
               PROVE  Vruntime(proc'[p]) - Vruntime(proc'[q]) <= proc'[p].used * MaxCost
    BY <1>1 DEF LeadInv
  <2>1. Active(q) /\ Vruntime(proc'[q]) = Vruntime(proc[q])
    BY <1>6
  <2>2. Vruntime(proc'[p]) = Vruntime(proc[p]) /\ proc'[p].used = proc[p].used
    BY <1>7 DEF Vruntime
  <2> QED BY <2>1, <2>2 DEF FairInv, LeadInv
<1> QED BY <1>4, <1>5, <1>6, <1>8, <1>9 DEF FairInv

LEMMA FairStops ==
  ASSUME Inv, TypeOK, Alone, AloneInv, FairInv, ~MayBlock, Stops(1)
  PROVE  FairInv'
<1> DEFINE r == cur[1]
<1>1. /\ 1 \in CPUs /\ r \in Slots /\ r # 0 /\ cur'[1] = 0
      /\ at' = at /\ child' = child
  BY SizeAssumption DEF Stops, TypeOK, TableOK, Alone, CPUs, Slots
<1>2. \A p \in Slots : at[p] = "user"
  BY DEF Stops, AloneInv, OneRuns
<1>3. \A p \in Slots \ {r} : Same(p)
  BY DEF Stops, FairInv, LowInv, Woken
<1>4. \/ SameFields(r) /\ proc'[r].state = "RUNNABLE" /\ spent[1]
      \/ Cleared(r)
  BY DEF Stops
<1>5. proc[r].state = "RUNNING"
  BY <1>1 DEF Inv, CurInv
<1>6. LowInv'
  BY <1>3, <1>4, SizeAssumption DEF FairInv, LowInv, Same, SameFields, Cleared
<1>7. UsedInv'
  <2>1. \A p \in Slots \ {r} : proc[p].used = 0
    BY DEF FairInv, UsedInv
  <2>2. proc'[r].used = 0
    BY <1>1, <1>4 DEF FairInv, UsedInv, SameFields, Cleared
  <2> QED BY <1>3, <2>1, <2>2 DEF UsedInv, Same, SameFields
<1>8. Spread'
  BY <1>3, <1>4, <1>5, SpreadKept DEF FairInv, Same, SameFields, Cleared
<1>9. CopyInv' /\ LeadInv'
  <2>1. \A p \in Slots : p # 0
    BY SizeAssumption DEF Slots
  <2> QED BY <1>1, <1>2, <2>1 DEF CopyInv, LeadInv
<1> QED BY <1>6, <1>7, <1>8, <1>9 DEF FairInv

LEMMA FairRun ==
  ASSUME Inv, TypeOK, Alone, AloneInv, FairInv, SchedRun(1)
  PROVE  FairInv'
<1>1. CPUs = {1} /\ 1 \in CPUs
  BY DEF Alone, CPUs
<1>2. cur[1] = 0 /\ UNCHANGED <<at, child, spent>>
  BY DEF SchedRun, AloneInv, OneRuns
<1>3. PICK p \in Runnable(proc) :
        /\ p \in Least(proc)
        /\ proc' = [proc EXCEPT ![p].state = "RUNNING",
                         ![p].weight = weights[proc[p].nice], ![p].chan = 0]
        /\ cur' = [cur EXCEPT ![1] = p]
  BY <1>1, SliceNat
<1>4. \A q \in Slots : at[q] = "user" /\ proc[q].state # "RUNNING" /\ proc[q].used = 0
  BY <1>2, SizeAssumption DEF AloneInv, OneRuns, FairInv, UsedInv, Slots
<1>5. p \in Slots /\ proc[p] \in ProcType /\ proc[p].state = "RUNNABLE"
      /\ proc \in [Slots -> ProcType]
  BY DEF Runnable, TypeOK, TableOK
<1>6. /\ proc'[p].state = "RUNNING" /\ proc'[p].used = proc[p].used
      /\ proc'[p].hi = proc[p].hi /\ proc'[p].lo = proc[p].lo
      /\ \A q \in Slots \ {p} : proc'[q] = proc[q]
  BY <1>3, <1>5 DEF ProcType
<1>7. cur'[1] = p
  BY <1>1, <1>3 DEF TypeOK, TableOK
<1>8. LowInv' /\ UsedInv' /\ CopyInv'
  BY <1>2, <1>4, <1>6 DEF FairInv, LowInv, UsedInv, CopyInv
<1>9. Spread' /\ \A q \in Slots : Active(q)' =>
                   Active(q) /\ Vruntime(proc'[q]) = Vruntime(proc[q])
  BY <1>5, <1>6, SpreadKept DEF FairInv
<1>10. LeadInv'
  <2> SUFFICES ASSUME NEW q \in Slots, Active(q)'
               PROVE  Vruntime(proc'[p]) - Vruntime(proc'[q]) <= proc'[p].used * MaxCost
    BY <1>7 DEF LeadInv
  <2>1. q \in Runnable(proc) /\ Vruntime(proc'[q]) = Vruntime(proc[q])
    BY <1>4, <1>9 DEF Active, Runnable
  <2>2. ~Greater(proc[p], proc[q])
    BY <1>3, <2>1 DEF Least
  <2>3. proc[q] \in ProcType /\ proc[p].lo < Carry /\ proc[q].lo < Carry
    BY <1>5 DEF FairInv, LowInv
  <2>4. /\ Vruntime(proc[p]) \in Nat /\ Vruntime(proc[q]) \in Nat
        /\ Vruntime(proc[p]) <= Vruntime(proc[q])
    BY <1>5, <2>2, <2>3, VOrder
  <2>5. Vruntime(proc'[p]) = Vruntime(proc[p]) /\ proc'[p].used = 0
    BY <1>4, <1>5, <1>6 DEF Vruntime
  <2>6. MaxCost \in Nat
    BY MaxCostIs
  <2> QED BY <2>1, <2>4, <2>5, <2>6
<1> QED BY <1>8, <1>9, <1>10 DEF FairInv

(* u ticks of a timeslice that is whole or nothing cost at most the bound.  *)
LEMMA SliceBound ==
  ASSUME NEW u \in Nat, u <= SliceTicks
  PROVE  u * MaxCost \in Nat /\ u * MaxCost <= SliceTicks * MaxCost
<1>1. MaxCost \in Nat /\ SliceTicks \in Nat
  BY MaxCostIs, SizeAssumption
<1> DEFINE m == MaxCost
<1> HIDE DEF m
<1>2. m \in Nat /\ SliceTicks - u \in Nat
  BY <1>1 DEF m
<1>3. (SliceTicks - u) * m \in Nat /\ u * m \in Nat /\ SliceTicks * m \in Nat
  BY <1>1, <1>2
<1>4. (SliceTicks - u) * m = SliceTicks * m - u * m
  BY <1>1, <1>2
<1>5. u * m <= SliceTicks * m
  BY <1>3, <1>4
<1> QED BY <1>3, <1>5 DEF m

LEMMA FairCharge ==
  ASSUME Inv, TypeOK, Alone, AloneInv, FairInv, Charge(1)
  PROVE  FairInv'
<1> DEFINE r == cur[1]
           d == Cost(proc[r])
           u == proc[r].used
<1>1. 1 \in CPUs
  BY DEF Alone, CPUs
<1>2. /\ r \in Slots /\ ~spent[1] /\ UNCHANGED <<cur, slice, at, child>>
      /\ at[r] = "user" /\ proc'[r].state = proc[r].state
      /\ \A p \in Slots \ {r} : Same(p)
  BY <1>1, ChargeEffect DEF Alone
<1>3. proc[r].lo < Carry
  BY <1>2 DEF FairInv, LowInv
<1>4. /\ proc'[r].lo < Carry
      /\ Vruntime(proc'[r]) = Vruntime(proc[r]) + d
      /\ d \in Nat /\ d <= MaxCost
      /\ \/ u + 1 >= slice[1] /\ proc'[r].used = 0 /\ spent'[1]
         \/ ~(u + 1 >= slice[1]) /\ proc'[r].used = u + 1
  BY <1>1, <1>3, ChargeAdds
<1>5. \A p \in Slots : at[p] = "user"
  BY <1>2 DEF AloneInv, OneRuns
<1>6. u \in Nat /\ slice[1] \in {0, SliceTicks} /\ SliceTicks \in Nat \ {0}
      /\ (u = 0 \/ u < slice[1])
  BY <1>1, <1>2, SizeAssumption, CostAssumption
  DEF AloneInv, SliceWhole, FairInv, UsedInv, TypeOK, TableOK, ProcType
<1>7. \A p \in Slots \ {r} : Vruntime(proc'[p]) = Vruntime(proc[p])
                             /\ (Active(p)' <=> Active(p))
  BY <1>2 DEF Same, SameFields, Vruntime, Active
<1>8. Active(r) /\ (Active(r)' <=> Active(r))
  <2>1. r # 0 /\ proc[r].state = "RUNNING"
    BY <1>1, <1>2, SizeAssumption DEF Inv, CurInv, Slots
  <2> QED BY <1>2, <2>1 DEF Active
<1>9. \A p \in Slots : Vruntime(proc[p]) \in Nat
  BY VOrder DEF FairInv, LowInv, TypeOK, TableOK
<1> HIDE DEF d, u, r
<1>10. /\ MaxCost \in Nat /\ (u + 1) * MaxCost = u * MaxCost + MaxCost
       /\ u * MaxCost \in Nat /\ (u + 1) * MaxCost <= SliceTicks * MaxCost
       /\ (u + 1) * MaxCost \in Nat /\ SliceTicks * MaxCost \in Nat
  <2>1. MaxCost \in Nat
    BY MaxCostIs
  <2> DEFINE m == MaxCost
  <2> HIDE DEF m
  <2>2. m \in Nat
    BY <2>1 DEF m
  <2>3. (u + 1) * m = u * m + m /\ u * m \in Nat
    BY <2>2, <1>6
  <2>4. u + 1 \in Nat /\ u + 1 <= SliceTicks
    BY <1>6
  <2>5. (u + 1) * MaxCost \in Nat /\ (u + 1) * MaxCost <= SliceTicks * MaxCost
    BY <2>4, SliceBound
  <2>6. SliceTicks * m \in Nat
    BY <2>2, <1>6
  <2> QED BY <2>2, <2>3, <2>5, <2>6 DEF m
<1>11. \A q \in Slots \ {r} : Active(q) =>
         Vruntime(proc'[r]) - Vruntime(proc'[q]) <= (u + 1) * MaxCost
  <2> SUFFICES ASSUME NEW q \in Slots \ {r}, Active(q)
               PROVE  Vruntime(proc'[r]) - Vruntime(proc'[q]) <= (u + 1) * MaxCost
    OBVIOUS
  <2>1. Vruntime(proc[r]) - Vruntime(proc[q]) <= u * MaxCost
    BY <1>2 DEF FairInv, LeadInv, r, u
  <2> QED BY <2>1, <1>2, <1>4, <1>7, <1>9, <1>10
<1>12. LowInv'
  BY <1>2, <1>4 DEF FairInv, LowInv, Same, SameFields, r
<1>13. UsedInv'
  <2>1. \A p \in Slots \ {r} : proc'[p].used = 0
    BY <1>2 DEF FairInv, UsedInv, Same, SameFields, r
  <2>2. proc'[r].used = 0 \/ (~spent'[1] /\ proc'[r].used < slice'[1])
    <3>1. CASE u + 1 >= slice[1]
      BY <1>4, <3>1
    <3>2. CASE ~(u + 1 >= slice[1])
      <4>1. spent'[1] = (u + 1 >= slice[1])
        BY <1>1 DEF Charge, TypeOK, u, r
      <4>2. slice[1] \in Nat
        BY <1>6
      <4>3. proc'[r].used = u + 1 /\ slice' = slice
        BY <1>2, <1>4, <3>2
      <4>4. ~spent'[1]
        BY <4>1, <3>2, Zenon
      <4>5. proc'[r].used < slice'[1]
        BY <4>2, <4>3, <3>2, <1>6
      <4> QED BY <4>4, <4>5
    <3> QED BY <3>1, <3>2
  <2> QED BY <2>1, <2>2, <1>2 DEF UsedInv, r
<1>14. CopyInv'
  BY <1>2, <1>5 DEF CopyInv
<1>15. Spread'
  <2> SUFFICES ASSUME NEW p \in Slots, NEW q \in Slots, Active(p)', Active(q)'
               PROVE  Vruntime(proc'[p]) - Vruntime(proc'[q]) <= SliceTicks * MaxCost
    BY DEF Spread
  <2>0. Vruntime(proc[p]) - Vruntime(proc[q]) <= SliceTicks * MaxCost
    BY <1>7, <1>8 DEF FairInv, Spread
  <2>1. CASE p # r /\ q # r
    BY <2>0, <2>1, <1>7
  <2>2. CASE p # r /\ q = r
    BY <2>0, <2>2, <1>4, <1>7, <1>9, <1>10
  <2>3. CASE p = r /\ q # r
    <3>1. Vruntime(proc'[r]) - Vruntime(proc'[q]) <= (u + 1) * MaxCost
      BY <2>3, <1>7, <1>11
    <3> QED BY <3>1, <2>3, <1>2, <1>4, <1>7, <1>9, <1>10
  <2>4. CASE p = r /\ q = r
    BY <2>4, <1>2, <1>4, <1>9, <1>10
  <2> QED BY <2>1, <2>2, <2>3, <2>4
<1>16. LeadInv'
  <2> SUFFICES ASSUME NEW q \in Slots, ~spent'[1], Active(q)'
               PROVE  Vruntime(proc'[r]) - Vruntime(proc'[q]) <= proc'[r].used * MaxCost
    BY <1>2 DEF LeadInv, r
  <2>1. proc'[r].used = u + 1
    BY <1>4
  <2>2. CASE q # r
    BY <2>1, <2>2, <1>7, <1>11
  <2>3. CASE q = r
    BY <2>1, <2>3, <1>2, <1>4, <1>9, <1>10
  <2> QED BY <2>2, <2>3
<1> QED BY <1>12, <1>13, <1>14, <1>15, <1>16 DEF FairInv

LEMMA FairFork ==
  ASSUME Inv, TypeOK, Alone, AloneInv, FairInv, Forks(1)
  PROVE  FairInv'
<1> DEFINE p == cur[1]
<1>1. /\ UNCHANGED <<cur, slice, spent>> /\ p \in Slots /\ ~spent[1]
      /\ proc[p].state = "RUNNING"
  BY DEF Forks
<1>2. PICK np \in Slots \ {p} : Fills(p, np)
  BY DEF Forks
<1>3. \A q \in Slots \ {p} : at[q] = "user" /\ at'[q] = "user"
  BY <1>2 DEF Fills, AloneInv, OneRuns
<1>4. \A q \in Slots \ {np} : Same(q)
  BY <1>2 DEF Fills
<1>5. proc[np].used = 0 /\ proc[np].lo < Carry /\ proc[p].lo < Carry
  BY <1>1 DEF FairInv, UsedInv, LowInv
<1>6. /\ proc'[np].used = 0 /\ proc'[np].lo < Carry
      /\ proc'[np].state \notin {"SLEEPING", "RUNNING"}
  BY <1>2, <1>5, SizeAssumption DEF Fills, SameFields, Cleared
<1>7. LowInv' /\ UsedInv'
  BY <1>1, <1>4, <1>6 DEF FairInv, LowInv, UsedInv, Same, SameFields
<1>8. CopyInv'
  <2>1. Same(p)
    BY <1>1, <1>4
  <2>2. at[p] = "high" /\ child[p] = np => proc[np].hi = proc[p].hi
    BY <1>1 DEF FairInv, CopyInv
  <2>3. /\ at'[p] \in {"high", "low"} => proc'[child'[p]].hi = proc'[p].hi
        /\ at'[p] = "low" => proc'[child'[p]].lo = proc'[p].lo
    BY <1>2, <2>1, <2>2 DEF Fills, Same, SameFields
  <2> QED BY <1>3, <2>3 DEF CopyInv
<1>9. \A q \in Slots \ {np} : Vruntime(proc'[q]) = Vruntime(proc[q])
                              /\ proc'[q].used = proc[q].used
                              /\ (Active(q)' <=> Active(q))
  BY <1>4 DEF Same, SameFields, Vruntime, Active
<1>10. Active(np)' => Vruntime(proc'[np]) = Vruntime(proc[p])
  <2>1. ASSUME Active(np)'
        PROVE  /\ proc'[np].hi = proc[np].hi /\ proc'[np].lo = proc[np].lo
               /\ at[p] = "low" /\ child[p] = np
    BY <1>2, <2>1 DEF Fills, Active, Cleared
  <2>2. ASSUME at[p] = "low", child[p] = np
        PROVE  proc[np].hi = proc[p].hi /\ proc[np].lo = proc[p].lo
    BY <1>1, <2>2 DEF FairInv, CopyInv
  <2> QED BY <2>1, <2>2 DEF Vruntime
<1>11. Active(p)
  BY <1>1 DEF Active
<1>12. \A q \in Slots : Vruntime(proc[q]) \in Nat
  BY VOrder DEF FairInv, LowInv, TypeOK, TableOK
<1>13. /\ \A q \in Slots : Active(q) =>
            /\ Vruntime(proc[p]) - Vruntime(proc[q]) <= SliceTicks * MaxCost
            /\ Vruntime(proc[q]) - Vruntime(proc[p]) <= SliceTicks * MaxCost
            /\ Vruntime(proc[p]) - Vruntime(proc[q]) <= proc[p].used * MaxCost
       /\ \A q, s \in Slots : Active(q) /\ Active(s) =>
            Vruntime(proc[q]) - Vruntime(proc[s]) <= SliceTicks * MaxCost
  BY <1>1, <1>11 DEF FairInv, Spread, LeadInv
<1> DEFINE W(q) == IF q = np THEN Vruntime(proc[p]) ELSE Vruntime(proc[q])
           A(q) == q = np \/ Active(q)
<1>14. \A q \in Slots : Active(q)' => A(q) /\ Vruntime(proc'[q]) = W(q)
  BY <1>9, <1>10
<1>15. /\ \A q \in Slots : A(q) =>
            \E s \in Slots : Active(s) /\ W(q) = Vruntime(proc[s])
       /\ Vruntime(proc'[p]) = Vruntime(proc[p]) /\ proc'[p].used = proc[p].used
  BY <1>1, <1>2, <1>9, <1>11
<1> HIDE DEF W, A, p
<1>16. Spread'
  BY <1>13, <1>14, <1>15 DEF Spread
<1>17. LeadInv'
  BY <1>1, <1>13, <1>14, <1>15 DEF LeadInv, p
<1> QED BY <1>7, <1>8, <1>16, <1>17 DEF FairInv

LEMMA FairStep ==
  Alone /\ ~MayBlock =>
    (Inv /\ TypeOK /\ AloneInv /\ FairInv /\ [Next]_vars => FairInv')
<1> SUFFICES ASSUME Alone, ~MayBlock, Inv, TypeOK, AloneInv, FairInv, [Next]_vars
             PROVE  FairInv'
  OBVIOUS
<1>1. CPUs = {1}
  BY DEF Alone, CPUs
<1>2. CASE UNCHANGED vars
  <2>1. Stays(1)
    BY <1>2 DEF vars, Stays, Same, SameFields
  <2> QED BY <2>1, FairStays
<1>3. CASE Wakeup
  BY <1>3, WakeupStays, FairStays
<1>4. CASE Step(1)
  BY <1>1, <1>4, StopsOrStays, ForkEffect, FairStays, FairStops, FairRun,
     FairCharge, FairFork
<1> QED BY <1>1, <1>2, <1>3, <1>4 DEF Next

LEMMA FairInit == Alone /\ Init => FairInv
<1> SUFFICES ASSUME Alone, Init PROVE FairInv
  OBVIOUS
<1>1. 1 \in CPUs /\ Carry \in Nat \ {0} /\ \A p \in Slots : p # 0
  BY SizeAssumption DEF Alone, CPUs, Slots
<1>2. /\ \A p \in Slots : /\ proc[p].state \in {"UNUSED", "RUNNABLE"}
                          /\ proc[p].hi = 0 /\ proc[p].lo = 0 /\ proc[p].used = 0
                          /\ at[p] = "user"
      /\ cur[1] = 0
  BY <1>1 DEF Init, Fresh
<1>3. LowInv /\ UsedInv /\ CopyInv /\ LeadInv
  BY <1>1, <1>2 DEF LowInv, UsedInv, CopyInv, LeadInv
<1>4. SliceTicks * MaxCost \in Nat /\ Vruntime(proc[InitProc]) \in Int
  BY MaxCostIs, SizeAssumption, <1>2 DEF Vruntime, InitProc, Slots
<1>5. \A p, q \in Slots : Vruntime(proc[p]) - Vruntime(proc[q]) = 0
  BY <1>1, <1>2 DEF Vruntime
<1>6. Spread
  BY <1>4, <1>5 DEF Spread
<1> QED BY <1>3, <1>6 DEF FairInv

(* Nobody is starved while nobody sleeps: on one CPU whose timer does not   *)
(* interrupt fork(), two active processes are never further apart than a    *)
(* whole timeslice at the smallest weight, for every number of processes,   *)
(* table of weights, length of a timeslice and width of the words that a    *)
(* tick cannot wrap.                                                        *)
THEOREM NobodyFallsBehind == Alone /\ ~MayBlock /\ Spec => []Spread
<1>1. Spec => [](Inv /\ TypeOK)
  BY WordsHold, InitInv, NextInv, PTL DEF Spec
<1>2. FairInv => Spread
  BY DEF FairInv
<1>3. CASE Alone /\ ~MayBlock
  <2>1. Init => AloneInv /\ FairInv
    BY <1>3, AloneInit, FairInit
  <2>2. /\ Inv /\ TypeOK /\ AloneInv /\ [Next]_vars => AloneInv'
        /\ Inv /\ TypeOK /\ AloneInv /\ FairInv /\ [Next]_vars => FairInv'
    BY <1>3, AloneStep, FairStep
  <2> QED BY <1>1, <1>2, <2>1, <2>2, PTL DEF Spec
<1> QED BY <1>3
=============================================================================
