----------------------------- MODULE LogProofs -----------------------------
(* Proofs about Log: the log implements AtomicDisk, for any number of       *)
(* processes, blocks, values and crashes and any log size.                  *)
EXTENDS Log, FiniteSetTheorems, TLAPS

(* The header never names a block twice (log absorption).                   *)
Distinct(s) == \A i, j \in 1 .. Len(s) : s[i] = s[j] => i = j

HeadInv ==
  /\ Distinct(lh) /\ Distinct(head)
  /\ Len(head) <= Len(logdata)
  /\ \A p \in Procs : pc[p] = "append" => target[p] \in Blocks

(* Which calls may be active in which phase.                                *)
PhaseInv ==
  /\ outstanding = Cardinality(InOp)
  /\ committing => InOp = {}
  /\ mode = "boot" => /\ phase \in {"read", "install", "erase"}
                      /\ ~committing
                      /\ \A p \in Procs : pc[p] = "idle"
  /\ mode # "boot" => /\ phase # "read"
                      /\ committing <=> phase # "none"

(* How the cache, the log and the home blocks agree in each phase.          *)
DataInv ==
  /\ mode = "run" /\ phase = "none" =>
       /\ head = <<>>
       /\ \A b \in Blocks : \/ cache[b] = home[b]
                            \/ b \in Entries(lh)
                            \/ Locked(b)
       /\ InOp = {} => lh = <<>>
  /\ phase = "log" =>
       /\ head = <<>>
       /\ \A b \in Blocks : cache[b] = home[b] \/ b \in Entries(lh)
       /\ tail <= Len(lh) + 1 /\ tail <= Len(logdata) + 1
       /\ \A i \in 1 .. Len(lh) : i < tail => logdata[i] = cache[lh[i]]
  /\ phase = "install" =>
       /\ lh = head
       /\ \A i \in 1 .. Len(lh) : i < tail => home[lh[i]] = logdata[i]
       /\ mode = "run" =>
            /\ \A i \in 1 .. Len(lh) : cache[lh[i]] = logdata[i]
            /\ \A b \in Blocks \ Entries(lh) : cache[b] = home[b]
  /\ phase = "erase" =>
       /\ lh = <<>>
       /\ \A i \in 1 .. Len(head) : home[head[i]] = logdata[i]
  /\ phase = "done" => head = <<>> /\ lh = <<>>
  /\ phase \in {"read", "erase", "done"} \/ mode = "boot" => cache = home
  /\ phase = "read" => lh = <<>> /\ tail = 1

Inv == TypeOK /\ HeadInv /\ PhaseInv /\ DataInv

-----------------------------------------------------------------------------
(* Every step of log.c keeps the types, given what the headers hold.        *)
LEMMA TypeStep == TypeOK /\ HeadInv /\ DataInv /\ [Next]_vars => TypeOK'
<1> SUFFICES ASSUME TypeOK, HeadInv, DataInv, [Next]_vars PROVE TypeOK'
  OBVIOUS
<1> USE SizeAssumption
    DEF TypeOK, Locations, Phases, Modes, diskVars, logVars, procVars
<1>1. ASSUME NEW p \in Procs, BeginOp(p) PROVE TypeOK'
  BY <1>1 DEF BeginOp
<1>2. ASSUME NEW p \in Procs, BeginSleep(p) PROVE TypeOK'
  BY <1>2 DEF BeginSleep
<1>3. ASSUME NEW p \in Procs, LogAppend(p) PROVE TypeOK'
  BY <1>3 DEF LogAppend, Absorb, HeadInv
<1>4. ASSUME NEW p \in Procs, EndOp(p) PROVE TypeOK'
  BY <1>4 DEF EndOp, Woken
<1>5. ASSUME NEW p \in Procs, EndOpLast(p) PROVE TypeOK'
  BY <1>5 DEF EndOpLast
<1>6. ASSUME NEW p \in Procs, EndCommit(p) PROVE TypeOK'
  BY <1>6 DEF EndCommit, Woken
<1>7. ASSUME NEW p \in Procs, NEW b \in Blocks, NEW v \in Vals,
            LogWrite(p, b, v)
     PROVE  TypeOK'
  BY <1>7 DEF LogWrite, MayWrite
<1>8. ASSUME NEW p \in Procs, NEW b \in Blocks, NEW v \in Vals,
            LogTooBig(p, b, v)
     PROVE  TypeOK'
  BY <1>8 DEF LogTooBig, MayWrite
<1>9. CASE WriteLog
  BY <1>9 DEF WriteLog
<1>10. CASE WriteLogPastEnd
  BY <1>10 DEF WriteLogPastEnd
<1>11. CASE WriteHead
  BY <1>11 DEF WriteHead
<1>12. CASE InstallTrans
  BY <1>12 DEF InstallTrans, DataInv, HeadInv
<1>13. CASE InstallDone
  BY <1>13 DEF InstallDone
<1>14. CASE EraseHead
  BY <1>14 DEF EraseHead
<1>15. CASE ReadHead
  BY <1>15 DEF ReadHead
<1>16. CASE Crash
  <2>1. /\ pc' \in [Procs -> Locations]
        /\ target' \in [Procs -> Blocks \cup {0}]
        /\ wrote' \in [Procs -> SUBSET Blocks]
    BY <1>16 DEF Crash
  <2>2. home' \in [Blocks -> Vals] /\ cache' \in [Blocks -> Vals]
    BY <1>16 DEF Crash
  <2>3. crashes' \in 0 .. MaxCrashes
    BY <1>16 DEF Crash
  <2>4. logdata' \in Seq(Vals) /\ head' \in Seq(Blocks) /\ lh' \in Seq(Blocks)
    BY <1>16 DEF Crash
  <2>5. committing' = FALSE /\ outstanding' \in Nat /\ tail' \in Nat \ {0}
    BY <1>16 DEF Crash
  <2>6. phase' \in Phases /\ mode' \in Modes
    BY <1>16 DEF Crash
  <2> QED
    BY <2>1, <2>2, <2>3, <2>4, <2>5, <2>6
<1>17. CASE UNCHANGED vars
  BY <1>17 DEF vars
<1> QED
  BY <1>1, <1>2, <1>3, <1>4, <1>5, <1>6, <1>7, <1>8, <1>9, <1>10, <1>11,
     <1>12, <1>13, <1>14, <1>15, <1>16, <1>17 DEF Next, OpStep,
     CommitStep, Halted

(* Log absorption keeps the block numbers of both headers distinct.         *)
LEMMA HeadStep == TypeOK /\ HeadInv /\ DataInv /\ [Next]_vars => HeadInv'
<1> SUFFICES ASSUME TypeOK, HeadInv, DataInv, [Next]_vars PROVE HeadInv'
  OBVIOUS
<1> USE SizeAssumption
    DEF TypeOK, Locations, Phases, Modes, HeadInv, Distinct,
        diskVars, logVars, procVars
<1>1. ASSUME NEW p \in Procs, BeginOp(p) PROVE HeadInv'
  BY <1>1 DEF BeginOp
<1>2. ASSUME NEW p \in Procs, BeginSleep(p) PROVE HeadInv'
  BY <1>2 DEF BeginSleep
<1>3. ASSUME NEW p \in Procs, LogAppend(p) PROVE HeadInv'
  BY <1>3 DEF LogAppend, Absorb, Entries
<1>4. ASSUME NEW p \in Procs, EndOp(p) PROVE HeadInv'
  BY <1>4 DEF EndOp, Woken
<1>5. ASSUME NEW p \in Procs, EndOpLast(p) PROVE HeadInv'
  BY <1>5 DEF EndOpLast
<1>6. ASSUME NEW p \in Procs, EndCommit(p) PROVE HeadInv'
  BY <1>6 DEF EndCommit, Woken
<1>7. ASSUME NEW p \in Procs, NEW b \in Blocks, NEW v \in Vals,
            LogWrite(p, b, v)
     PROVE  HeadInv'
  BY <1>7 DEF LogWrite, MayWrite
<1>8. ASSUME NEW p \in Procs, NEW b \in Blocks, NEW v \in Vals,
            LogTooBig(p, b, v)
     PROVE  HeadInv'
  BY <1>8 DEF LogTooBig, MayWrite
<1>9. CASE WriteLog
  BY <1>9 DEF WriteLog
<1>10. CASE WriteLogPastEnd
  BY <1>10 DEF WriteLogPastEnd
<1>11. CASE WriteHead
  BY <1>11 DEF WriteHead, DataInv
<1>12. CASE InstallTrans
  BY <1>12 DEF InstallTrans
<1>13. CASE InstallDone
  BY <1>13 DEF InstallDone
<1>14. CASE EraseHead
  BY <1>14 DEF EraseHead, DataInv
<1>15. CASE ReadHead
  BY <1>15 DEF ReadHead
<1>16. CASE Crash
  BY <1>16 DEF Crash
<1>17. CASE UNCHANGED vars
  BY <1>17 DEF vars
<1> QED
  BY <1>1, <1>2, <1>3, <1>4, <1>5, <1>6, <1>7, <1>8, <1>9, <1>10, <1>11,
     <1>12, <1>13, <1>14, <1>15, <1>16, <1>17 DEF Next, OpStep,
     CommitStep, Halted

(* How the number of active calls changes when one begins or ends.          *)
LEMMA OpCount ==
  ASSUME TypeOK
  PROVE  /\ IsFiniteSet(InOp) /\ Cardinality(InOp) \in Nat
         /\ \A p \in Procs \ InOp :
              Cardinality(InOp \cup {p}) = Cardinality(InOp) + 1
         /\ \A p \in InOp : Cardinality(InOp \ {p}) = Cardinality(InOp) - 1
         /\ Cardinality(InOp) = 0 <=> InOp = {}
<1>1. IsFiniteSet(InOp)
  BY ProcsAssumption, FS_Subset DEF InOp
<1> QED
  BY <1>1, FS_CardinalityType, FS_AddElement, FS_RemoveElement, FS_EmptySet

(* Every step keeps outstanding, committing and the phase in agreement.     *)
LEMMA PhaseStep ==
  TypeOK /\ PhaseInv /\ DataInv /\ [Next]_vars => PhaseInv'
<1> SUFFICES ASSUME TypeOK, PhaseInv, DataInv, [Next]_vars PROVE PhaseInv'
  OBVIOUS
<1> USE SizeAssumption, OpCount
    DEF TypeOK, PhaseInv, diskVars, logVars, procVars
<1>1. ASSUME NEW p \in Procs, BeginOp(p) PROVE PhaseInv'
  <2>1. InOp' = InOp \cup {p} /\ p \notin InOp
    BY <1>1 DEF BeginOp, InOp
  <2> QED
    BY <1>1, <2>1 DEF BeginOp, MustWait
<1>2. ASSUME NEW p \in Procs, BeginSleep(p) PROVE PhaseInv'
  <2>1. InOp' = InOp
    BY <1>2 DEF BeginSleep, InOp
  <2> QED
    BY <1>2, <2>1 DEF BeginSleep, InOp
<1>3. ASSUME NEW p \in Procs, LogAppend(p) PROVE PhaseInv'
  <2>1. InOp' = InOp
    BY <1>3 DEF LogAppend, InOp
  <2> QED
    BY <1>3, <2>1 DEF LogAppend, InOp
<1>4. ASSUME NEW p \in Procs, EndOp(p) PROVE PhaseInv'
  <2>1. InOp' = InOp \ {p} /\ p \in InOp
    BY <1>4 DEF EndOp, InOp, Woken
  <2> QED
    BY <1>4, <2>1 DEF EndOp, Woken
<1>5. ASSUME NEW p \in Procs, EndOpLast(p) PROVE PhaseInv'
  <2>1. InOp' = InOp \ {p} /\ p \in InOp
    BY <1>5 DEF EndOpLast, InOp
  <2>2. Cardinality(InOp \ {p}) = 0 /\ IsFiniteSet(InOp \ {p})
    BY <1>5, <2>1, FS_Subset DEF EndOpLast
  <2>3. InOp \ {p} = {}
    BY <2>2, FS_EmptySet
  <2> QED
    BY <1>5, <2>1, <2>2, <2>3 DEF EndOpLast
<1>6. ASSUME NEW p \in Procs, EndCommit(p) PROVE PhaseInv'
  <2>1. InOp' = InOp
    BY <1>6 DEF EndCommit, InOp, Woken
  <2> QED
    BY <1>6, <2>1 DEF EndCommit, InOp, Woken
<1>7. ASSUME NEW p \in Procs, NEW b \in Blocks, NEW v \in Vals,
            LogWrite(p, b, v)
     PROVE  PhaseInv'
  <2>1. InOp' = InOp
    BY <1>7 DEF LogWrite, InOp, MayWrite
  <2> QED
    BY <1>7, <2>1 DEF LogWrite, InOp, MayWrite
<1>8. ASSUME NEW p \in Procs, NEW b \in Blocks, NEW v \in Vals,
            LogTooBig(p, b, v)
     PROVE  PhaseInv'
  <2>1. InOp' = InOp
    BY <1>8 DEF LogTooBig, InOp, MayWrite
  <2> QED
    BY <1>8, <2>1 DEF LogTooBig, InOp, MayWrite
<1>9. CASE WriteLog
  BY <1>9 DEF WriteLog, InOp, DataInv
<1>10. CASE WriteLogPastEnd
  BY <1>10 DEF WriteLogPastEnd, InOp, DataInv
<1>11. CASE WriteHead
  BY <1>11 DEF WriteHead, InOp, DataInv
<1>12. CASE InstallTrans
  BY <1>12 DEF InstallTrans, InOp, DataInv
<1>13. CASE InstallDone
  BY <1>13 DEF InstallDone, InOp, DataInv
<1>14. CASE EraseHead
  BY <1>14 DEF EraseHead, InOp, DataInv
<1>15. CASE ReadHead
  BY <1>15 DEF ReadHead, InOp, DataInv
<1>16. CASE Crash
  <2>1. InOp' = {} /\ Cardinality({}) = 0
    BY <1>16, FS_EmptySet DEF Crash, InOp
  <2> QED
    BY <1>16, <2>1 DEF Crash
<1>17. CASE UNCHANGED vars
  BY <1>17 DEF vars, InOp, DataInv
<1> QED
  BY <1>1, <1>2, <1>3, <1>4, <1>5, <1>6, <1>7, <1>8, <1>9, <1>10, <1>11,
     <1>12, <1>13, <1>14, <1>15, <1>16, <1>17 DEF Next, OpStep,
     CommitStep, Halted

(* If no call is active after a step, outstanding is 0.                     *)
LEMMA NoneActive ==
  ASSUME PhaseInv', InOp' = {}
  PROVE  outstanding' = 0
  BY FS_EmptySet DEF PhaseInv

(* The blocks a header names once log_write() appended one to it.           *)
LEMMA AppendEntries ==
  ASSUME NEW s \in Seq(Blocks), NEW b \in Blocks
  PROVE  Entries(s) \cup {b} \subseteq Entries(Append(s, b))
<1>1. /\ Len(Append(s, b)) = Len(s) + 1
      /\ \A i \in 1 .. Len(s) : Append(s, b)[i] = s[i]
      /\ Append(s, b)[Len(s) + 1] = b
  OBVIOUS
<1> DEFINE t == Append(s, b)
<1>2. Len(t) = Len(s) + 1 /\ Len(s) \in Nat
  BY <1>1
<1>3. b \in Entries(t)
  BY <1>1, <1>2 DEF Entries
<1>4. ASSUME NEW i \in 1 .. Len(s) PROVE s[i] \in Entries(t)
  BY <1>1, <1>2 DEF Entries
<1> QED
  BY <1>3, <1>4 DEF Entries

(* It names no other.                                                       *)
LEMMA AppendNoOther ==
  ASSUME NEW s \in Seq(Blocks), NEW b \in Blocks
  PROVE  Entries(Append(s, b)) \subseteq Entries(s) \cup {b}
<1> DEFINE t == Append(s, b)
<1>1. /\ Len(t) = Len(s) + 1 /\ Len(s) \in Nat
      /\ \A i \in 1 .. Len(s) : t[i] = s[i]
      /\ t[Len(s) + 1] = b
  OBVIOUS
<1>2. ASSUME NEW i \in 1 .. Len(t) PROVE t[i] \in Entries(s) \cup {b}
  BY <1>1 DEF Entries
<1> QED
  BY <1>2 DEF Entries

(* Every step keeps the cache, the log and the disk in agreement.           *)
LEMMA DataStep ==
  TypeOK /\ HeadInv /\ PhaseInv /\ DataInv /\ PhaseInv' /\ [Next]_vars =>
    DataInv'
<1> SUFFICES ASSUME TypeOK, HeadInv, PhaseInv, DataInv, PhaseInv', [Next]_vars
             PROVE  DataInv'
  OBVIOUS
<1> USE SizeAssumption
    DEF TypeOK, HeadInv, Distinct, PhaseInv, DataInv, Entries, Locked, InOp,
        Phases, Modes, Locations, diskVars, logVars, procVars
<1>1. ASSUME NEW p \in Procs, BeginOp(p) PROVE DataInv'
  BY <1>1 DEF BeginOp
<1>2. ASSUME NEW p \in Procs, BeginSleep(p) PROVE DataInv'
  BY <1>2 DEF BeginSleep
<1>3. ASSUME NEW p \in Procs, LogAppend(p) PROVE DataInv'
  <2>1. /\ phase = "none" /\ InOp' # {}
        /\ target[p] \in Blocks
    BY <1>3 DEF LogAppend
  <2>2. Entries(lh) \cup {target[p]} \subseteq Entries(lh')
    <3>1. CASE target[p] \in Entries(lh)
      BY <1>3, <3>1 DEF LogAppend, Absorb
    <3>2. CASE target[p] \notin Entries(lh)
      <4>1. lh' = Append(lh, target[p])
        BY <1>3, <3>2 DEF LogAppend, Absorb
      <4> QED
        BY <2>1, <4>1, AppendEntries
    <3> QED
      BY <3>1, <3>2
  <2>3. \A b \in Blocks : Locked(b) => b = target[p] \/ Locked(b)'
    BY <1>3 DEF LogAppend
  <2> QED
    BY <1>3, <2>1, <2>2, <2>3 DEF LogAppend
<1>4. ASSUME NEW p \in Procs, EndOp(p) PROVE DataInv'
  <2>1. InOp' # {}
    BY <1>4, NoneActive DEF EndOp
  <2>2. \A b \in Blocks : Locked(b) <=> Locked(b)'
    BY <1>4 DEF EndOp, Woken
  <2> QED
    BY <1>4, <2>1, <2>2 DEF EndOp
<1>5. ASSUME NEW p \in Procs, EndOpLast(p) PROVE DataInv'
  BY <1>5 DEF EndOpLast
<1>6. ASSUME NEW p \in Procs, EndCommit(p) PROVE DataInv'
  BY <1>6 DEF EndCommit, Woken
<1>7. ASSUME NEW p \in Procs, NEW b \in Blocks, NEW v \in Vals,
            LogWrite(p, b, v)
     PROVE  DataInv'
  BY <1>7 DEF LogWrite, MayWrite
<1>8. ASSUME NEW p \in Procs, NEW b \in Blocks, NEW v \in Vals,
            LogTooBig(p, b, v)
     PROVE  DataInv'
  BY <1>8 DEF LogTooBig, MayWrite
<1>9. CASE WriteLog
  BY <1>9 DEF WriteLog
<1>10. CASE WriteLogPastEnd
  BY <1>10 DEF WriteLogPastEnd
<1>11. CASE WriteHead
  BY <1>11 DEF WriteHead
<1>12. CASE InstallTrans
  <2>1. tail \in 1 .. Len(lh) /\ lh[tail] \in Blocks
    BY <1>12 DEF InstallTrans
  <2>2. \A i \in 1 .. Len(lh) : i < tail' => home'[lh[i]] = logdata[i]
    BY <1>12, <2>1 DEF InstallTrans
  <2>3. mode = "run" => \A i \in 1 .. Len(lh) : cache'[lh[i]] = logdata[i]
    BY <1>12, <2>1 DEF InstallTrans
  <2>4. mode = "run" =>
          \A b \in Blocks \ Entries(lh) : cache'[b] = home'[b]
    BY <1>12, <2>1 DEF InstallTrans
  <2>5. mode = "boot" => cache' = home'
    BY <1>12 DEF InstallTrans
  <2> QED
    BY <1>12, <2>2, <2>3, <2>4, <2>5 DEF InstallTrans
<1>13. CASE InstallDone
  BY <1>13 DEF InstallDone
<1>14. CASE EraseHead
  BY <1>14 DEF EraseHead
<1>15. CASE ReadHead
  BY <1>15 DEF ReadHead
<1>16. CASE Crash
  BY <1>16 DEF Crash
<1>17. CASE UNCHANGED vars
  BY <1>17 DEF vars
<1> QED
  BY <1>1, <1>2, <1>3, <1>4, <1>5, <1>6, <1>7, <1>8, <1>9, <1>10, <1>11,
     <1>12, <1>13, <1>14, <1>15, <1>16, <1>17 DEF Next, OpStep,
     CommitStep, Halted
-----------------------------------------------------------------------------
(* The invariant, and the properties that follow from it.                   *)

(* A freshly made disk satisfies the invariant.                             *)
LEMMA InvInit == Init => Inv
<1> SUFFICES ASSUME Init PROVE Inv
  OBVIOUS
<1> USE SizeAssumption, DataAssumption DEF Init
<1>1. TypeOK
  <2>1. home \in [Blocks -> Vals] /\ cache \in [Blocks -> Vals]
    OBVIOUS
  <2>2. logdata \in Seq(Vals) /\ head \in Seq(Blocks) /\ lh \in Seq(Blocks)
    OBVIOUS
  <2>3. /\ pc \in [Procs -> Locations]
        /\ target \in [Procs -> Blocks \cup {0}]
        /\ wrote \in [Procs -> SUBSET Blocks]
    BY DEF Locations
  <2>4. outstanding \in Nat /\ tail \in Nat \ {0} /\ crashes \in 0 .. MaxCrashes
    OBVIOUS
  <2>5. phase \in Phases /\ mode \in Modes /\ committing = FALSE
    BY DEF Phases, Modes
  <2> QED
    BY <2>1, <2>2, <2>3, <2>4, <2>5 DEF TypeOK
<1>2. HeadInv
  BY DEF HeadInv, Distinct
<1>3. PhaseInv
  <2>1. InOp = {} /\ Cardinality({}) = 0
    BY FS_EmptySet DEF InOp
  <2> QED
    BY <2>1 DEF PhaseInv
<1>4. DataInv
  BY DEF DataInv
<1> QED
  BY <1>1, <1>2, <1>3, <1>4 DEF Inv

(* The invariant is inductive.                                              *)
LEMMA InvStep == Inv /\ [Next]_vars => Inv'
  BY TypeStep, HeadStep, PhaseStep, DataStep DEF Inv

(* The invariant always holds.                                              *)
LEMMA Invariance == Spec => []Inv
  BY InvInit, InvStep, PTL DEF Spec

(* All variables keep their types.                                          *)
THEOREM TypeCorrect == Spec => []TypeOK
<1>1. Inv => TypeOK
  BY DEF Inv
<1> QED
  BY <1>1, Invariance, PTL

(* A commit never runs while a call is active, outstanding is the number of *)
(* active calls, and so end_op() never meets log.committing.                *)
THEOREM CommitsAlone == Spec => []CommitAlone
<1>1. Inv => CommitAlone
  BY DEF Inv, PhaseInv, CommitAlone, TypeOK, Modes
<1> QED
  BY <1>1, Invariance, PTL

(* Between transactions the disk holds everything that was written.         *)
THEOREM QuietIsDurable == Spec => []QuietMeansDurable
<1>1. Inv => QuietMeansDurable
  <2> SUFFICES ASSUME Inv, mode = "run", outstanding = 0, ~committing
               PROVE  home = cache /\ head = <<>> /\ lh = <<>>
    BY DEF QuietMeansDurable
  <2>1. phase = "none"
    BY DEF Inv, PhaseInv
  <2>2. InOp = {}
    BY OpCount DEF Inv, PhaseInv
  <2>3. head = <<>> /\ lh = <<>>
    BY <2>1, <2>2 DEF Inv, DataInv
  <2>4. \A b \in Blocks : ~Locked(b)
    BY <2>2 DEF InOp, Locked
  <2>5. \A b \in Blocks : cache[b] = home[b]
    BY <2>1, <2>3, <2>4 DEF Inv, DataInv, Entries
  <2> QED
    BY <2>3, <2>5 DEF Inv, TypeOK
<1> QED
  BY <1>1, Invariance, PTL

-----------------------------------------------------------------------------
(* No wakeup of begin_op() is lost.                                         *)

(* No step leaves a sleeper of begin_op() without a reason to wait.         *)
LEMMA SleepStep ==
  TypeOK /\ PhaseInv /\ SleepersMustWait /\ [Next]_vars => SleepersMustWait'
<1> SUFFICES ASSUME TypeOK, PhaseInv, SleepersMustWait, [Next]_vars
             PROVE  SleepersMustWait'
  OBVIOUS
<1> USE SizeAssumption
    DEF TypeOK, PhaseInv, SleepersMustWait, MustWait, Modes, diskVars, logVars,
        procVars
<1>1. ASSUME NEW p \in Procs, BeginOp(p) PROVE SleepersMustWait'
  BY <1>1 DEF BeginOp
<1>2. ASSUME NEW p \in Procs, BeginSleep(p) PROVE SleepersMustWait'
  BY <1>2 DEF BeginSleep
<1>3. ASSUME NEW p \in Procs, LogAppend(p) PROVE SleepersMustWait'
  BY <1>3 DEF LogAppend, Absorb
<1>4. ASSUME NEW p \in Procs, EndOp(p) PROVE SleepersMustWait'
  BY <1>4 DEF EndOp, Woken
<1>5. ASSUME NEW p \in Procs, EndOpLast(p) PROVE SleepersMustWait'
  BY <1>5 DEF EndOpLast
<1>6. ASSUME NEW p \in Procs, EndCommit(p) PROVE SleepersMustWait'
  BY <1>6 DEF EndCommit, Woken
<1>7. ASSUME NEW p \in Procs, NEW b \in Blocks, NEW v \in Vals,
            LogWrite(p, b, v)
     PROVE  SleepersMustWait'
  BY <1>7 DEF LogWrite, MayWrite
<1>8. ASSUME NEW p \in Procs, NEW b \in Blocks, NEW v \in Vals,
            LogTooBig(p, b, v)
     PROVE  SleepersMustWait'
  BY <1>8 DEF LogTooBig, MayWrite
<1>9. CASE WriteLog
  BY <1>9 DEF WriteLog
<1>10. CASE WriteLogPastEnd
  BY <1>10 DEF WriteLogPastEnd
<1>11. CASE WriteHead
  BY <1>11 DEF WriteHead
<1>12. CASE InstallTrans
  BY <1>12 DEF InstallTrans
<1>13. CASE InstallDone
  BY <1>13 DEF InstallDone
<1>14. CASE EraseHead
  BY <1>14 DEF EraseHead
<1>15. CASE ReadHead
  BY <1>15 DEF ReadHead
<1>16. CASE Crash
  BY <1>16 DEF Crash
<1>17. CASE UNCHANGED vars
  BY <1>17 DEF vars
<1> QED
  BY <1>1, <1>2, <1>3, <1>4, <1>5, <1>6, <1>7, <1>8, <1>9, <1>10, <1>11,
     <1>12, <1>13, <1>14, <1>15, <1>16, <1>17 DEF Next, OpStep,
     CommitStep, Halted

(* Nobody sleeps in begin_op() without a reason to wait: every change that  *)
(* lets a sleeper in wakes it.                                              *)
THEOREM NoLostWakeup == Spec => []SleepersMustWait
<1>1. Init => SleepersMustWait
  BY DEF Init, SleepersMustWait
<1>2. Inv /\ SleepersMustWait /\ [Next]_vars => SleepersMustWait'
  BY SleepStep DEF Inv
<1> QED
  BY <1>1, <1>2, Invariance, PTL DEF Spec

-----------------------------------------------------------------------------
(* begin_op()'s reservation.                                                *)

(* A call has written no more than it may, and what it is writing counts;   *)
(* what was committed came out of the header in memory.                     *)
RoomInv ==
  /\ RoomReserved
  /\ Len(head) <= LOGSIZE
  /\ \A p \in Procs : /\ IsFiniteSet(wrote[p])
                      /\ Cardinality(wrote[p]) <= MAXOPBLOCKS
                      /\ pc[p] = "append" => target[p] \in wrote[p]

(* Room counted for some calls, MAXOPBLOCKS at most for each.               *)
LEMMA RoomBound ==
  ASSUME NEW A \in SUBSET Procs, NEW P \in SUBSET (A \X (1 .. MAXOPBLOCKS))
  PROVE  /\ IsFiniteSet(P) /\ Cardinality(P) \in Nat
         /\ Cardinality(P) <= Cardinality(A) * MAXOPBLOCKS
<1>1. IsFiniteSet(A) /\ Cardinality(A) \in Nat
  BY ProcsAssumption, FS_Subset, FS_CardinalityType
<1>2. IsFiniteSet(1 .. MAXOPBLOCKS) /\ Cardinality(1 .. MAXOPBLOCKS) = MAXOPBLOCKS
  BY SizeAssumption, FS_Interval
<1>3. /\ IsFiniteSet(A \X (1 .. MAXOPBLOCKS))
      /\ Cardinality(A \X (1 .. MAXOPBLOCKS)) = Cardinality(A) * MAXOPBLOCKS
  BY <1>1, <1>2, FS_Product
<1>4. IsFiniteSet(P) /\ Cardinality(P) <= Cardinality(A \X (1 .. MAXOPBLOCKS))
  BY <1>3, FS_Subset
<1> QED
  BY <1>3, <1>4, FS_CardinalityType

(* What the active calls may still write is finite.                         *)
LEMMA PendingFinite == IsFiniteSet(Pending) /\ Cardinality(Pending) \in Nat
<1>1. InOp \in SUBSET Procs /\ Pending \in SUBSET (InOp \X (1 .. MAXOPBLOCKS))
  BY DEF InOp, Pending
<1> QED
  BY <1>1, RoomBound

(* If the header stays, no call begins, and no call loses a block that it   *)
(* wrote, then the reserved room does not grow.                             *)
LEMMA RoomKept ==
  ASSUME TypeOK, RoomInv, lh' = lh, InOp' \subseteq InOp,
         \A p \in InOp' : wrote[p] \subseteq wrote'[p] /\ IsFiniteSet(wrote'[p])
  PROVE  RoomReserved'
<1>1. Pending' \subseteq Pending
  <2> SUFFICES ASSUME NEW pk \in Pending' PROVE pk \in Pending
    OBVIOUS
  <2>1. /\ pk \in InOp' \X (1 .. MAXOPBLOCKS)
        /\ pk[2] > Cardinality(wrote'[pk[1]] \cap Entries(lh))
    BY DEF Pending
  <2>2. pk[1] \in InOp'
    BY <2>1
  <2> DEFINE small == wrote[pk[1]] \cap Entries(lh)
             large == wrote'[pk[1]] \cap Entries(lh)
  <2>3. IsFiniteSet(large) /\ small \in SUBSET large
    BY <2>2, FS_Intersection
  <2>4. Cardinality(small) <= Cardinality(large)
    BY <2>3, FS_Subset
  <2>5. Cardinality(small) \in Nat /\ Cardinality(large) \in Nat
    BY <2>3, FS_Subset, FS_CardinalityType
  <2>6. pk[2] > Cardinality(small)
    BY <2>1, <2>4, <2>5, SizeAssumption
  <2> QED
    BY <2>1, <2>6 DEF Pending
<1>2. IsFiniteSet(Pending) /\ Cardinality(Pending) \in Nat
  BY PendingFinite
<1>3. Cardinality(Pending') <= Cardinality(Pending) /\ Cardinality(Pending') \in Nat
  BY <1>1, <1>2, FS_Subset, FS_CardinalityType
<1>4. Len(lh) \in Nat
  BY DEF TypeOK
<1> QED
  BY <1>2, <1>3, <1>4, SizeAssumption DEF RoomInv, RoomReserved

(* With no call active only the header counts.                              *)
LEMMA RoomNoneActive ==
  ASSUME TypeOK', InOp' = {}, Len(lh') <= LOGSIZE
  PROVE  RoomReserved'
<1>1. Pending' = {}
  BY DEF Pending
<1>2. Cardinality(Pending') = 0
  BY <1>1, FS_EmptySet
<1>3. Len(lh') \in Nat
  BY DEF TypeOK
<1> QED
  BY <1>2, <1>3 DEF RoomReserved

(* log_write()'s second half uses a reserved block, or none.                *)
LEMMA RoomAppend ==
  ASSUME Inv, RoomInv, NEW p \in Procs, LogAppend(p)
  PROVE  RoomReserved'
<1> USE DEF diskVars, logVars, procVars
<1> DEFINE b == target[p]
<1>1. InOp' = InOp /\ p \in InOp
  BY DEF LogAppend, InOp, Inv, TypeOK
<1>2. b \in wrote[p] /\ b \in Blocks /\ wrote' = wrote
  BY DEF RoomInv, LogAppend, Inv, HeadInv
<1>3. CASE b \in Entries(lh)
  <2>1. lh' = lh
    BY <1>3 DEF LogAppend, Absorb
  <2> QED
    BY <1>1, <1>2, <2>1, RoomKept DEF Inv, InOp, RoomInv
<1>4. CASE b \notin Entries(lh)
  <2>1. lh' = Append(lh, b)
    BY <1>4 DEF LogAppend, Absorb
  <2>2. Len(lh') = Len(lh) + 1 /\ Len(lh) \in Nat
    BY <1>2, <2>1 DEF Inv, TypeOK
  <2>3. Entries(lh') = Entries(lh) \cup {b}
    BY <1>2, <2>1, AppendEntries, AppendNoOther DEF Inv, TypeOK
  <2> DEFINE old(q) == wrote[q] \cap Entries(lh)
             new(q) == wrote[q] \cap Entries(lh')
             c == Cardinality(old(p))
  <2>4. ASSUME NEW q \in Procs
        PROVE  /\ IsFiniteSet(new(q)) /\ old(q) \in SUBSET new(q)
               /\ Cardinality(old(q)) <= Cardinality(new(q))
               /\ Cardinality(old(q)) \in Nat /\ Cardinality(new(q)) \in Nat
    <3>1. IsFiniteSet(new(q)) /\ old(q) \in SUBSET new(q)
      BY <2>3, FS_Intersection DEF RoomInv
    <3> QED
      BY <3>1, FS_Subset, FS_CardinalityType
  <2>5. Cardinality(new(p)) = c + 1
    <3>1. new(p) = old(p) \cup {b} /\ b \notin old(p)
      BY <1>2, <1>4, <2>3
    <3>2. IsFiniteSet(old(p))
      BY <2>4, FS_Subset
    <3> QED
      BY <3>1, <3>2, FS_AddElement
  <2>6. c + 1 <= MAXOPBLOCKS
    <3>1. new(p) \in SUBSET wrote[p]
      OBVIOUS
    <3>2. Cardinality(new(p)) <= Cardinality(wrote[p])
      BY <3>1, FS_Subset DEF RoomInv
    <3>3. Cardinality(wrote[p]) \in Nat /\ Cardinality(wrote[p]) <= MAXOPBLOCKS
      BY FS_CardinalityType DEF RoomInv
    <3>4. c \in Nat
      BY <2>4
    <3> HIDE DEF c, new
    <3> QED
      BY <2>5, <3>2, <3>3, <3>4, SizeAssumption
  <2> HIDE DEF c
  <2>7. <<p, c + 1>> \in Pending
    <3>1. c \in Nat
      BY <2>4 DEF c
    <3>2. <<p, c + 1>> \in InOp \X (1 .. MAXOPBLOCKS)
      BY <1>1, <2>6, <3>1, SizeAssumption
    <3>3. <<p, c + 1>>[2] > Cardinality(wrote[<<p, c + 1>>[1]] \cap Entries(lh))
      BY <3>1 DEF c
    <3> QED
      BY <3>2, <3>3 DEF Pending
  <2>8. Pending' \subseteq Pending \ {<<p, c + 1>>}
    <3> SUFFICES ASSUME NEW pk \in Pending' PROVE pk \in Pending /\ pk # <<p, c + 1>>
      OBVIOUS
    <3>1. /\ pk \in InOp \X (1 .. MAXOPBLOCKS)
          /\ pk[2] > Cardinality(new(pk[1]))
      BY <1>1, <1>2 DEF Pending
    <3>2. pk[1] \in Procs /\ pk[2] \in Nat
      BY <3>1, SizeAssumption DEF InOp
    <3>3. pk[2] > Cardinality(old(pk[1]))
      BY <2>4, <3>1, <3>2
    <3>4. pk # <<p, c + 1>>
      BY <2>4, <2>5, <3>1 DEF c
    <3> QED
      BY <3>1, <3>3, <3>4 DEF Pending
  <2>9. Cardinality(Pending') <= Cardinality(Pending) - 1 /\ Cardinality(Pending') \in Nat
    <3>1. IsFiniteSet(Pending)
      BY PendingFinite
    <3>2. /\ IsFiniteSet(Pending \ {<<p, c + 1>>})
          /\ Cardinality(Pending \ {<<p, c + 1>>}) = Cardinality(Pending) - 1
      BY <2>7, <3>1, FS_RemoveElement
    <3> QED
      BY <2>8, <3>2, FS_Subset, FS_CardinalityType
  <2> QED
    BY <2>2, <2>9, PendingFinite, SizeAssumption DEF RoomInv, RoomReserved
<1> QED
  BY <1>3, <1>4

(* begin_op() lets a call in only when there is room for it.                *)
LEMMA RoomBegin ==
  ASSUME Inv, Inv', NEW p \in Procs, BeginOp(p)
  PROVE  RoomReserved'
<1>1. Len(lh) + (outstanding + 1) * MAXOPBLOCKS <= LOGSIZE
  BY SizeAssumption DEF BeginOp, MustWait, Inv, TypeOK
<1>2. lh' = lh /\ outstanding' = outstanding + 1 /\ Len(lh) \in Nat
  BY DEF BeginOp, Inv, TypeOK
<1>3. outstanding' = Cardinality(InOp')
  BY DEF Inv, PhaseInv
<1>4. Cardinality(Pending') <= Cardinality(InOp') * MAXOPBLOCKS /\ Cardinality(Pending') \in Nat
  <2>1. /\ InOp' \in SUBSET Procs
        /\ Pending' \in SUBSET (InOp' \X (1 .. MAXOPBLOCKS))
    BY DEF InOp, Pending
  <2> QED
    BY <2>1, RoomBound
<1> DEFINE room == (outstanding + 1) * MAXOPBLOCKS
<1>5. room \in Nat /\ Cardinality(Pending') <= room
  <2>1. outstanding \in Nat /\ Cardinality(InOp') = outstanding + 1
    BY <1>2, <1>3 DEF Inv, TypeOK
  <2> QED
    BY <1>4, <2>1, SizeAssumption
<1> HIDE DEF room
<1>6. Len(lh) + room <= LOGSIZE
  BY <1>1 DEF room
<1> QED
  BY <1>2, <1>4, <1>5, <1>6, SizeAssumption DEF RoomReserved

(* Every step of log.c keeps the reservation.                               *)
LEMMA RoomStep == Inv /\ Inv' /\ RoomInv /\ [Next]_vars => RoomInv'
<1> SUFFICES ASSUME Inv, Inv', RoomInv, [Next]_vars PROVE RoomInv'
  OBVIOUS
<1> USE SizeAssumption DEF diskVars, logVars, procVars
<1> DEFINE Calls == \A p \in Procs : /\ IsFiniteSet(wrote[p])
                                     /\ Cardinality(wrote[p]) <= MAXOPBLOCKS
                                     /\ pc[p] = "append" => target[p] \in wrote[p]
           Fits == Len(lh) <= LOGSIZE
<1>a. Fits
  <2>1. Len(lh) \in Nat
    BY DEF Inv, TypeOK
  <2> QED
    BY <2>1, PendingFinite DEF RoomInv, RoomReserved
<1>b. IsFiniteSet({}) /\ Cardinality({}) = 0
  BY FS_EmptySet
<1>c. ASSUME RoomReserved', Len(head') <= LOGSIZE, Calls' PROVE RoomInv'
  BY <1>c DEF RoomInv
<1>d. wrote \in [Procs -> SUBSET Blocks] /\ pc \in [Procs -> Locations]
      /\ target \in [Procs -> Blocks \cup {0}] /\ Len(head) <= LOGSIZE /\ Calls
  BY DEF Inv, TypeOK, RoomInv
<1>e. UNCHANGED <<lh, pc, wrote>> => RoomReserved'
  <2> HAVE UNCHANGED <<lh, pc, wrote>>
  <2>1. InOp' = InOp /\ InOp \subseteq Procs
    BY DEF InOp
  <2> QED
    BY <1>d, <2>1, RoomKept DEF Inv
<1>1. ASSUME NEW p \in Procs, BeginOp(p) PROVE RoomInv'
  BY <1>1, <1>c, <1>d, RoomBegin DEF BeginOp
<1>2. ASSUME NEW p \in Procs, BeginSleep(p) PROVE RoomInv'
  <2>1. InOp' = InOp /\ InOp \subseteq Procs
    BY <1>2, <1>d DEF BeginSleep, InOp
  <2>2. RoomReserved'
    BY <1>2, <1>d, <2>1, RoomKept DEF BeginSleep, Inv
  <2> QED
    BY <1>2, <1>c, <1>d, <2>2 DEF BeginSleep
<1>3. ASSUME NEW p \in Procs, LogAppend(p) PROVE RoomInv'
  BY <1>3, <1>c, <1>d, RoomAppend DEF LogAppend
<1>4. ASSUME NEW p \in Procs, EndOp(p) PROVE RoomInv'
  <2>1. InOp' \subseteq InOp /\ p \notin InOp' /\ InOp' \subseteq Procs
    BY <1>4, <1>d DEF EndOp, InOp, Woken
  <2>2. \A q \in Procs \ {p} : wrote'[q] = wrote[q]
    BY <1>4, <1>d DEF EndOp
  <2>3. RoomReserved'
    BY <1>4, <1>d, <2>1, <2>2, RoomKept DEF EndOp, Inv
  <2> QED
    BY <1>4, <1>b, <1>c, <1>d, <2>3 DEF EndOp, Woken
<1>5. ASSUME NEW p \in Procs, EndOpLast(p) PROVE RoomInv'
  <2>1. InOp' \subseteq InOp /\ p \notin InOp' /\ InOp' \subseteq Procs
    BY <1>5, <1>d DEF EndOpLast, InOp
  <2>2. \A q \in Procs \ {p} : wrote'[q] = wrote[q]
    BY <1>5, <1>d DEF EndOpLast
  <2>3. RoomReserved'
    BY <1>5, <1>d, <2>1, <2>2, RoomKept DEF EndOpLast, Inv
  <2> QED
    BY <1>5, <1>b, <1>c, <1>d, <2>3 DEF EndOpLast
<1>6. ASSUME NEW p \in Procs, EndCommit(p) PROVE RoomInv'
  <2>1. InOp' = InOp /\ InOp \subseteq Procs
    BY <1>6, <1>d DEF EndCommit, InOp, Woken
  <2>2. RoomReserved'
    BY <1>6, <1>d, <2>1, RoomKept DEF EndCommit, Inv
  <2> QED
    BY <1>6, <1>c, <1>d, <2>2 DEF EndCommit, Woken
<1>7. ASSUME NEW p \in Procs, NEW b \in Blocks, NEW v \in Vals, LogWrite(p, b, v)
      PROVE  RoomInv'
  <2>1. InOp' = InOp /\ InOp \subseteq Procs
    BY <1>7, <1>d DEF LogWrite, MayWrite, InOp
  <2>2. \A q \in Procs : wrote'[q] = IF q = p THEN wrote[p] \cup {b} ELSE wrote[q]
    BY <1>7, <1>d DEF LogWrite
  <2>3. IsFiniteSet(wrote[p] \cup {b}) /\ Cardinality(wrote[p] \cup {b}) <= MAXOPBLOCKS
    BY <1>7, <1>d, FS_AddElement DEF LogWrite, MayWrite
  <2>4. RoomReserved'
    BY <1>7, <1>d, <2>1, <2>2, <2>3, RoomKept DEF LogWrite, Inv
  <2>5. Calls'
    BY <1>7, <1>d, <2>2, <2>3 DEF LogWrite, MayWrite
  <2> QED
    BY <1>7, <1>c, <1>d, <2>4, <2>5 DEF LogWrite
<1>8. ASSUME NEW p \in Procs, NEW b \in Blocks, NEW v \in Vals, LogTooBig(p, b, v)
      PROVE  RoomInv'
  BY <1>8, <1>c, <1>d, <1>e DEF LogTooBig
<1>9. CASE WriteLog
  BY <1>9, <1>c, <1>d, <1>e DEF WriteLog
<1>10. CASE WriteLogPastEnd
  BY <1>10, <1>c, <1>d, <1>e DEF WriteLogPastEnd
<1>11. CASE WriteHead
  BY <1>11, <1>a, <1>c, <1>d, <1>e DEF WriteHead
<1>12. CASE InstallTrans
  BY <1>12, <1>c, <1>d, <1>e DEF InstallTrans
<1>13. CASE InstallDone
  <2>1. InOp' = {}
    BY <1>13 DEF InstallDone, InOp, Inv, PhaseInv, TypeOK, Modes
  <2>2. RoomReserved'
    BY <1>13, <2>1, RoomNoneActive DEF InstallDone, Inv
  <2> QED
    BY <1>13, <1>c, <1>d, <2>2 DEF InstallDone
<1>14. CASE EraseHead
  BY <1>14, <1>a, <1>c, <1>d, <1>e DEF EraseHead
<1>15. CASE ReadHead
  <2>1. InOp' = {}
    BY <1>15 DEF ReadHead, InOp, Inv, PhaseInv
  <2>2. RoomReserved'
    BY <1>15, <1>d, <2>1, RoomNoneActive DEF ReadHead, Inv
  <2> QED
    BY <1>15, <1>c, <1>d, <2>2 DEF ReadHead
<1>16. CASE Crash
  <2>1. InOp' = {}
    BY <1>16 DEF Crash, InOp
  <2>2. RoomReserved'
    BY <1>16, <2>1, RoomNoneActive DEF Crash, Inv
  <2>3. Calls'
    BY <1>16, <1>b DEF Crash
  <2> QED
    BY <1>16, <1>c, <1>d, <2>2, <2>3 DEF Crash
<1>17. CASE UNCHANGED vars
  BY <1>17, <1>c, <1>d, <1>e DEF vars
<1> QED
  BY <1>1, <1>2, <1>3, <1>4, <1>5, <1>6, <1>7, <1>8, <1>9, <1>10, <1>11, <1>12,
     <1>13, <1>14, <1>15, <1>16, <1>17
     DEF Next, CommitStep, OpStep, Halted

(* Every admitted call keeps room in the header for what it may still       *)
(* write, so that log_write()'s unlocked test never lets block[] overflow:  *)
(* for any number of processes and any sizes.                               *)
THEOREM RoomIsReserved == Spec => []RoomReserved
<1>1. Init => RoomInv
  <2> SUFFICES ASSUME Init PROVE RoomInv
    OBVIOUS
  <2>1. InOp = {} /\ lh = <<>> /\ head = <<>>
    BY DEF Init, InOp
  <2>2. Pending = {} /\ Cardinality({}) = 0 /\ IsFiniteSet({})
    BY <2>1, FS_EmptySet DEF Pending
  <2>3. RoomReserved
    BY <2>1, <2>2, SizeAssumption DEF RoomReserved
  <2> QED
    BY <2>1, <2>2, <2>3, SizeAssumption DEF Init, RoomInv
<1>2. RoomInv => RoomReserved
  BY DEF RoomInv
<1>3. Inv /\ RoomInv /\ Inv' /\ [Next]_vars => RoomInv'
  BY RoomStep
<1> QED
  BY <1>1, <1>2, <1>3, Invariance, PTL DEF Spec

-----------------------------------------------------------------------------
(* The log implements AtomicDisk.                                           *)

(* What recovery takes from the log, and what it leaves alone.              *)
LEMMA RecoveredAt ==
  ASSUME TypeOK, HeadInv
  PROVE  /\ \A i \in 1 .. Len(head) : Recovered[head[i]] = logdata[i]
         /\ \A b \in Blocks \ Entries(head) : Recovered[b] = home[b]
<1>1. ASSUME NEW i \in 1 .. Len(head) PROVE Recovered[head[i]] = logdata[i]
  <2>1. head[i] \in Blocks /\ head[i] \in Entries(head)
    BY DEF TypeOK, Entries
  <2>2. (CHOOSE j \in 1 .. Len(head) : head[j] = head[i]) = i
    BY DEF HeadInv, Distinct
  <2> QED
    BY <2>1, <2>2 DEF Recovered
<1>2. ASSUME NEW b \in Blocks \ Entries(head) PROVE Recovered[b] = home[b]
  BY DEF Recovered
<1> QED
  BY <1>1, <1>2

(* Recovered is the function f if it agrees with the log and the disk.      *)
LEMMA RecoveredIs ==
  ASSUME TypeOK, HeadInv, NEW f, f \in [Blocks -> Vals],
         \A i \in 1 .. Len(head) : f[head[i]] = logdata[i],
         \A b \in Blocks \ Entries(head) : f[b] = home[b]
  PROVE  Recovered = f
<1>1. ASSUME NEW b \in Blocks PROVE Recovered[b] = f[b]
  <2>1. CASE b \in Entries(head)
    BY <2>1, RecoveredAt DEF Entries
  <2>2. CASE b \notin Entries(head)
    BY <2>2, RecoveredAt
  <2> QED
    BY <2>1, <2>2
<1>2. DOMAIN Recovered = Blocks /\ Recovered = [b \in Blocks |-> Recovered[b]]
  BY DEF Recovered
<1> QED
  BY <1>1, <1>2

(* A freshly made disk is an initial state of AtomicDisk.                   *)
LEMMA RefineInit == Init => Abstract!Init
<1> SUFFICES ASSUME Init PROVE Abstract!Init
  OBVIOUS
<1>1. Recovered = home
  BY DEF Init, Recovered, Entries
<1>2. InOp = {}
  BY DEF Init, InOp
<1> QED
  BY <1>1, <1>2 DEF Init, Abstract!Init

(* The same, after a step.                                                  *)
LEMMA RecoveredIsNext ==
  ASSUME TypeOK', HeadInv', NEW f, f \in [Blocks -> Vals],
         \A i \in 1 .. Len(head') : f[head'[i]] = logdata'[i],
         \A b \in Blocks \ Entries(head') : f[b] = home'[b]
  PROVE  Recovered' = f
<1>1. ASSUME NEW i \in 1 .. Len(head') PROVE Recovered'[head'[i]] = logdata'[i]
  <2>1. head'[i] \in Blocks /\ head'[i] \in Entries(head')
    BY DEF TypeOK, Entries
  <2>2. (CHOOSE j \in 1 .. Len(head') : head'[j] = head'[i]) = i
    BY DEF HeadInv, Distinct
  <2> QED
    BY <2>1, <2>2 DEF Recovered
<1>2. ASSUME NEW b \in Blocks PROVE Recovered'[b] = f[b]
  <2>1. CASE b \in Entries(head')
    BY <1>1, <2>1 DEF Entries
  <2>2. CASE b \notin Entries(head')
    BY <2>2 DEF Recovered
  <2> QED
    BY <2>1, <2>2
<1>3. Recovered' = [b \in Blocks |-> Recovered'[b]]
  BY DEF Recovered
<1> QED
  BY <1>2, <1>3

(* Each step of the log is a step of AtomicDisk or changes nothing it can   *)
(* see; write_head() is the commit.                                         *)
LEMMA RefineStep ==
  Inv /\ Inv' /\ [Next]_vars => [Abstract!Next]_(Abstract!vars)
<1> SUFFICES ASSUME Inv, Inv', [Next]_vars
             PROVE  [Abstract!Next]_(Abstract!vars)
  OBVIOUS
<1> DEFINE View == IF mode = "boot" THEN Recovered ELSE cache
           Stutter == /\ Recovered' = Recovered /\ View' = View /\ InOp' = InOp
<1>a. ASSUME UNCHANGED <<home, head, logdata>> PROVE Recovered' = Recovered
  BY <1>a DEF Recovered, Entries
<1>b. Stutter => [Abstract!Next]_(Abstract!vars)
  BY DEF Abstract!vars
<1> USE DEF diskVars, logVars, procVars
<1>1. ASSUME NEW p \in Procs, BeginOp(p) PROVE [Abstract!Next]_(Abstract!vars)
  <2>1. Recovered' = Recovered /\ View' = View
    BY <1>1, <1>a DEF BeginOp
  <2>2. p \notin InOp /\ InOp' = InOp \cup {p}
    BY <1>1 DEF BeginOp, InOp, Inv, TypeOK
  <2>3. Abstract!Begin(p)
    BY <2>1, <2>2 DEF Abstract!Begin
  <2> QED
    BY <2>3 DEF Abstract!Next
<1>2. ASSUME NEW p \in Procs, BeginSleep(p) PROVE [Abstract!Next]_(Abstract!vars)
  <2>1. Recovered' = Recovered /\ View' = View
    BY <1>2, <1>a DEF BeginSleep
  <2>2. InOp' = InOp
    BY <1>2 DEF BeginSleep, InOp, Inv, TypeOK
  <2> QED
    BY <1>b, <2>1, <2>2
<1>3. ASSUME NEW p \in Procs, LogAppend(p) PROVE [Abstract!Next]_(Abstract!vars)
  <2>1. Recovered' = Recovered /\ View' = View
    BY <1>3, <1>a DEF LogAppend
  <2>2. InOp' = InOp
    BY <1>3 DEF LogAppend, InOp, Inv, TypeOK
  <2> QED
    BY <1>b, <2>1, <2>2
<1>4. ASSUME NEW p \in Procs, EndOp(p) PROVE [Abstract!Next]_(Abstract!vars)
  <2>1. Recovered' = Recovered /\ View' = View
    BY <1>4, <1>a DEF EndOp
  <2>2. p \in InOp /\ InOp' = InOp \ {p}
    BY <1>4 DEF EndOp, InOp, Inv, TypeOK, Woken
  <2>3. Abstract!End(p)
    BY <2>1, <2>2 DEF Abstract!End
  <2> QED
    BY <2>3 DEF Abstract!Next
<1>5. ASSUME NEW p \in Procs, EndOpLast(p) PROVE [Abstract!Next]_(Abstract!vars)
  <2>1. Recovered' = Recovered /\ View' = View
    BY <1>5, <1>a DEF EndOpLast
  <2>2. p \in InOp /\ InOp' = InOp \ {p}
    BY <1>5 DEF EndOpLast, InOp, Inv, TypeOK
  <2>3. Abstract!End(p)
    BY <2>1, <2>2 DEF Abstract!End
  <2> QED
    BY <2>3 DEF Abstract!Next
<1>6. ASSUME NEW p \in Procs, EndCommit(p) PROVE [Abstract!Next]_(Abstract!vars)
  <2>1. Recovered' = Recovered /\ View' = View
    BY <1>6, <1>a DEF EndCommit
  <2>2. InOp' = InOp
    BY <1>6 DEF EndCommit, InOp, Inv, TypeOK, Woken
  <2> QED
    BY <1>b, <2>1, <2>2
<1>7. ASSUME NEW p \in Procs, NEW b \in Blocks, NEW v \in Vals,
            LogWrite(p, b, v)
     PROVE  [Abstract!Next]_(Abstract!vars)
  <2>1. Recovered' = Recovered
    BY <1>7, <1>a DEF LogWrite
  <2>2. View = cache /\ View' = [cache EXCEPT ![b] = v]
    BY <1>7 DEF LogWrite, MayWrite
  <2>3. p \in InOp /\ InOp' = InOp
    BY <1>7 DEF LogWrite, MayWrite, InOp, Inv, TypeOK
  <2>4. Abstract!Write(p, b, v)
    BY <2>1, <2>2, <2>3 DEF Abstract!Write
  <2> QED
    BY <2>4 DEF Abstract!Next
<1>8. ASSUME NEW p \in Procs, NEW b \in Blocks, NEW v \in Vals,
            LogTooBig(p, b, v)
     PROVE  [Abstract!Next]_(Abstract!vars)
  <2>1. Recovered' = Recovered
    BY <1>8, <1>a DEF LogTooBig
  <2>2. View = cache /\ View' = [cache EXCEPT ![b] = v]
    BY <1>8 DEF LogTooBig, MayWrite
  <2>3. p \in InOp /\ InOp' = InOp
    BY <1>8 DEF LogTooBig, MayWrite, InOp, Inv, TypeOK
  <2>4. Abstract!Write(p, b, v)
    BY <2>1, <2>2, <2>3 DEF Abstract!Write
  <2> QED
    BY <2>4 DEF Abstract!Next
<1>9. CASE WriteLog
  <2>1. head = <<>> /\ head' = <<>> /\ home' = home
    BY <1>9 DEF WriteLog, Inv, DataInv
  <2>2. Recovered' = Recovered
    BY <2>1 DEF Recovered, Entries
  <2>3. View' = View /\ InOp' = InOp
    BY <1>9, <2>2 DEF WriteLog, InOp
  <2> QED
    BY <1>b, <2>2, <2>3
<1>10. CASE WriteLogPastEnd
  <2>1. Recovered' = Recovered /\ View' = View
    BY <1>10, <1>a DEF WriteLogPastEnd
  <2>2. InOp' = InOp
    BY <1>10 DEF WriteLogPastEnd, InOp, Inv, TypeOK
  <2> QED
    BY <1>b, <2>1, <2>2
<1>11. CASE WriteHead
  <2>1. InOp = {} /\ InOp' = InOp
    BY <1>11 DEF WriteHead, InOp, Inv, PhaseInv, TypeOK, Modes
  <2>2. View = cache /\ View' = cache
    BY <1>11 DEF WriteHead
  <2>3. /\ \A i \in 1 .. Len(head') : cache'[head'[i]] = logdata'[i]
        /\ \A b \in Blocks \ Entries(head') : cache'[b] = home'[b]
    BY <1>11 DEF WriteHead, Inv, DataInv, TypeOK, Entries
  <2>4. Recovered' = cache'
    BY <2>3, RecoveredIsNext DEF Inv, TypeOK
  <2>5. Abstract!Commit
    BY <1>11, <2>1, <2>2, <2>4 DEF WriteHead, Abstract!Commit
  <2> QED
    BY <2>5 DEF Abstract!Next
<1>12. CASE InstallTrans
  <2>1. /\ \A i \in 1 .. Len(head) : Recovered[head[i]] = logdata[i]
        /\ \A b \in Blocks \ Entries(head) : Recovered[b] = home[b]
    BY RecoveredAt DEF Inv
  <2>2. Recovered' = Recovered
    <3>1. \A b \in Blocks \ Entries(head) : home'[b] = home[b]
      BY <1>12 DEF InstallTrans, Inv, DataInv, TypeOK, Entries
    <3>2. logdata' = logdata /\ head' = head
      BY <1>12 DEF InstallTrans
    <3> QED
      BY <3>1, <3>2 DEF Recovered, Entries
  <2>3. View' = View
    <3>1. CASE mode = "boot"
      BY <1>12, <2>2, <3>1 DEF InstallTrans
    <3>2. CASE mode = "run"
      BY <1>12, <3>2 DEF InstallTrans, Inv, DataInv, TypeOK
    <3> QED
      BY <1>12, <3>1, <3>2 DEF InstallTrans
  <2>4. InOp' = InOp
    BY <1>12 DEF InstallTrans, InOp
  <2> QED
    BY <1>b, <2>2, <2>3, <2>4
<1>13. CASE InstallDone
  <2>1. Recovered' = Recovered /\ View' = View
    BY <1>13, <1>a DEF InstallDone
  <2>2. InOp' = InOp
    BY <1>13 DEF InstallDone, InOp, Inv, TypeOK
  <2> QED
    BY <1>b, <2>1, <2>2
<1>14. CASE EraseHead
  <2>1. Recovered = home
    BY <1>14, RecoveredIs DEF EraseHead, Inv, DataInv, TypeOK
  <2>2. head' = <<>> /\ home' = home
    BY <1>14 DEF EraseHead, Inv, DataInv
  <2>3. Recovered' = home
    BY <2>2 DEF Recovered, Entries, Inv, TypeOK
  <2>4. cache = home /\ cache' = cache /\ mode' = "run"
    BY <1>14 DEF EraseHead, Inv, DataInv
  <2>5. View' = View
    BY <2>1, <2>4
  <2>6. InOp' = InOp
    BY <1>14 DEF EraseHead, InOp
  <2> QED
    BY <1>b, <2>1, <2>3, <2>5, <2>6
<1>15. CASE ReadHead
  <2>1. Recovered' = Recovered /\ View' = View
    BY <1>15, <1>a DEF ReadHead
  <2>2. InOp' = InOp
    BY <1>15 DEF ReadHead, InOp, Inv, TypeOK
  <2> QED
    BY <1>b, <2>1, <2>2
<1>16. CASE Crash
  <2>1. Recovered' = Recovered
    BY <1>16, <1>a DEF Crash
  <2>2. View' = Recovered
    BY <1>16, <2>1 DEF Crash
  <2>3. InOp' = {}
    BY <1>16 DEF Crash, InOp
  <2>4. Abstract!Crash
    BY <2>1, <2>2, <2>3 DEF Abstract!Crash
  <2> QED
    BY <2>4 DEF Abstract!Next
<1>17. CASE UNCHANGED vars
  <2>1. Recovered' = Recovered /\ View' = View
    BY <1>17, <1>a DEF vars
  <2>2. InOp' = InOp
    BY <1>17 DEF vars, InOp
  <2> QED
    BY <1>b, <2>1, <2>2
<1> QED
  BY <1>1, <1>2, <1>3, <1>4, <1>5, <1>6, <1>7, <1>8, <1>9, <1>10, <1>11,
     <1>12, <1>13, <1>14, <1>15, <1>16, <1>17 DEF Next, OpStep,
     CommitStep, Halted

(* The promise of the logging layer, for every number of processes, blocks  *)
(* and crashes: a file-system call is on disk entirely or not at all,       *)
(* wherever in a commit or in a recovery the machine stops.                 *)
THEOREM LogIsAtomic == Spec => Atomic
<1>1. Spec => Abstract!Init
  BY RefineInit DEF Spec
<1>2. Spec => [][Abstract!Next]_(Abstract!vars)
  BY Invariance, RefineStep, PTL DEF Spec
<1> QED
  BY <1>1, <1>2, PTL DEF Atomic, Abstract!Spec
=============================================================================
