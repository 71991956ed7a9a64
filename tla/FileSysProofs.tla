--------------------------- MODULE FileSysProofs ---------------------------
(***************************************************************************)
(* Proofs about FileSys, for every number of processes, inodes, files and  *)
(* descriptors and every set of programs: reference counts are exact, what *)
(* is open or somebody's current directory is allocated, link counts cover *)
(* the names, directories form a tree without cycles, processes wait for   *)
(* each other's inode locks in a circle only through iput(), unlink()      *)
(* never finds a link count below one, and ilock() panics only for an      *)
(* inode that was reached through "..".                                    *)
(***************************************************************************)
EXTENDS FileSys, Integers, FiniteSetTheorems, SequenceTheorems, TLAPS

-----------------------------------------------------------------------------
(* The inductive invariant.                                                 *)

Ptrs == Inums \cup {None}
Calls == PathCalls \cup {"none", "link"}
Resting == {"user", "exiting", "dead"}
Stages == Resting \cup {"walk", "got", "exists", "made", "taken", "bad",
                        "target", "notempty", "unlinked"}
InodeType == [type : {"none", "dir", "file", "dev"}, nlink : Int,
              ent : [AllNames -> Ptrs]]
FileType == [ref : Int, ip : Ptrs]
ThType == [call : Calls, at : Stages, ip : Ptrs, dp : Ptrs, ln : Ptrs,
           path : Seq(AllNames), new : PathRecords,
           put : Ptrs, also : Ptrs, drop : Ptrs]

TypeInv ==
  /\ dinode \in [Inums -> InodeType]
  /\ ref \in [Inums -> Int]
  /\ lock \in [Inums -> Procs \cup {None}]
  /\ file \in [Files -> FileType]
  /\ ofile \in [Procs -> [Fds -> Files \cup {None}]]
  /\ cwd \in [Procs -> Ptrs]
  /\ th \in [Procs -> ThType]
  /\ prog \in Programs

(* Which variables of a call point to an inode at each stage.               *)
Stage(r) ==
  /\ r.put = None => r.also = None
  /\ r.ln # None => r.call = "link"
  /\ r.at \in Resting => r.ip = None /\ r.dp = None /\ r.ln = None
  /\ r.at \in {"walk", "got"} => r.ip # None /\ r.dp = None
  /\ r.at = "walk" \/ (r.at = "got" /\ WantsParent(r)) => r.path # <<>>
  /\ r.at \in {"exists", "made", "unlinked"} =>
       r.ip # None /\ r.dp = None /\ r.ln = None
  /\ r.at = "taken" => r.ip # None /\ r.dp = None /\ r.ln # None
  /\ r.at = "bad" => r.ip = None /\ r.dp = None /\ r.ln # None
  /\ r.at = "target" => r.ip # None /\ r.dp # None /\ r.ln = None /\ r.path # <<>>
  /\ r.at = "notempty" => r.ip = None /\ r.dp # None /\ r.ln = None

StageInv == \A p \in Procs : Stage(th[p])

(* Only processes that exist have a current directory and open files, and   *)
(* only files in use have an inode.                                         *)
TableInv ==
  /\ \A p \in Procs : cwd[p] = None <=> th[p].at = "dead"
  /\ \A p \in Procs, d \in Fds : th[p].at = "dead" => ofile[p][d] = None
  /\ \A f \in Files : file[f].ref = 0 <=> file[f].ip = None

Allocated(i) == dinode[i].type # "none"
IsDir(i) == dinode[i].type = "dir"

(* What a call knows of the inodes it points to, though it may hold no lock *)
(* on them: the pointer keeps iput() from freeing them.                     *)
Knows(r) ==
  /\ r.at = "got" /\ WantsParent(r) => IsDir(r.ip)
  /\ r.at = "made" => Allocated(r.ip)
  /\ r.ln # None => Allocated(r.ln) /\ ~IsDir(r.ln)
  /\ r.at = "target" => /\ IsDir(r.dp)
                        /\ Head(r.path) \in Names
                        /\ dinode[r.dp].ent[Head(r.path)] = r.ip

KnowsInv ==
  /\ \A p \in Procs : Knows(th[p])
  /\ \A p \in Procs : cwd[p] # None => Allocated(cwd[p])
  /\ \A f \in Files : file[f].ip # None => Allocated(file[f].ip)

(* The inode whose lock a call keeps from one step to the next.             *)
Keeps(r) ==
  IF r.at \in {"target", "notempty"} THEN r.dp
  ELSE IF r.at \in {"made", "taken", "unlinked"} THEN r.ip
  ELSE None

LockInv ==
  /\ \A i \in Inums, p \in Procs : lock[i] = p <=> Keeps(th[p]) = i
  /\ \A i \in Inums : lock[i] # None => Allocated(i)

(* Links that link() has counted and not entered yet, and that unlink() has *)
(* erased and not uncounted yet.                                            *)
Linking(i) == {p \in Procs : th[p].ln = i}
Unlinking(i) == {p \in Procs : th[p].at = "unlinked" /\ th[p].ip = i}

(* mkfs gave the root one link that no name stands for.                     *)
Rooted(i) == IF i = ROOTINO THEN 1 ELSE 0

LinkInv ==
  /\ \A i \in Inums :
       Cardinality(NamesOf(i)) + Cardinality(Subdirs(i)) + Cardinality(Linking(i))
         + Cardinality(Unlinking(i)) + Rooted(i) <= dinode[i].nlink
  /\ \A i \in Inums : ~Allocated(i) => dinode[i].nlink = 0

(* Every directory names itself and a parent, and no set of directories has *)
(* each of its members name another one: there is no cycle of names.        *)
TreeInv ==
  /\ \A d \in Dirs : dinode[d].ent["."] = d /\ dinode[d].ent[".."] # None
  /\ TreeShape
  /\ \A S \in SUBSET Dirs :
       S # {} => \E d \in S : \A n \in Names : dinode[d].ent[n] \notin S

Inv ==
  /\ TypeInv /\ StageInv /\ TableInv /\ RefCounts /\ KnowsInv
  /\ LockInv /\ LinkInv /\ TreeInv

-----------------------------------------------------------------------------
(* Counting pointers.                                                       *)

One(x, i) == IF x = i THEN 1 ELSE 0

(* The pointers to i that a call's record holds.                            *)
Own(r, i) ==
  One(r.ip, i) + One(r.dp, i) + One(r.ln, i)
    + One(r.put, i) + One(r.also, i) + One(r.drop, i)

(* The root's extra link is a number that can be counted with.              *)
LEMMA RootedType == \A i : Rooted(i) \in Int /\ Rooted(i) >= 0
BY DEF Rooted

(* Two sets that differ at most in x differ in size by x.                   *)
LEMMA CountOne ==
  ASSUME NEW S, IsFiniteSet(S), NEW A \in SUBSET S, NEW B \in SUBSET S, NEW x \in S,
         A \ {x} = B \ {x}
  PROVE  /\ Cardinality(A) \in Nat /\ Cardinality(B) \in Nat
         /\ x \in A /\ x \in B => Cardinality(B) = Cardinality(A)
         /\ x \notin A /\ x \notin B => Cardinality(B) = Cardinality(A)
         /\ x \in A /\ x \notin B => Cardinality(B) = Cardinality(A) - 1
         /\ x \notin A /\ x \in B => Cardinality(B) = Cardinality(A) + 1
<1>1. IsFiniteSet(A) /\ IsFiniteSet(B)
  BY FS_Subset
<1>2. Cardinality(A) \in Nat /\ Cardinality(B) \in Nat
  BY <1>1, FS_CardinalityType
<1>3. CASE x \in A /\ x \notin B
  <2>1. B = A \ {x}
    BY <1>3
  <2> QED
    BY <1>1, <1>2, <1>3, <2>1, FS_RemoveElement
<1>4. CASE x \notin A /\ x \in B
  <2>1. A = B \ {x}
    BY <1>4
  <2> QED
    BY <1>1, <1>2, <1>4, <2>1, FS_RemoveElement
<1>5. CASE (x \in A /\ x \in B) \/ (x \notin A /\ x \notin B)
  <2>1. A = B
    BY <1>5
  <2> QED
    BY <1>2, <1>5, <2>1
<1> QED
  BY <1>2, <1>3, <1>4, <1>5

(* The tables are finite.                                                   *)
LEMMA FiniteTables ==
  IsFiniteSet(Procs) /\ IsFiniteSet(Inums) /\ IsFiniteSet(Files) /\ IsFiniteSet(Fds)
BY SizeAssumption, FS_Interval DEF Procs, Inums, Files, Fds

(* A step that replaces the record of one process changes the pointers to   *)
(* each inode by what the two records hold.                                 *)
LEMMA PointersStep ==
  ASSUME th \in [Procs -> ThType], NEW p \in Procs, NEW r,
         th' = [th EXCEPT ![p] = r], NEW i \in Inums
  PROVE  /\ Pointers(i) \in Int
         /\ Pointers(i)' = Pointers(i) + Own(r, i) - Own(th[p], i)
<1> DEFINE C(v) == Cardinality({q \in Procs : th[q][v] = i})
           D(v) == Cardinality({q \in Procs : th'[q][v] = i})
<1>1. ASSUME NEW v
      PROVE  /\ C(v) \in Nat
             /\ D(v) = C(v) - One(th[p][v], i) + One(r[v], i)
  <2> DEFINE A == {q \in Procs : th[q][v] = i}
             B == {q \in Procs : th'[q][v] = i}
  <2>1. A \ {p} = B \ {p}
    OBVIOUS
  <2>2. (p \in A <=> th[p][v] = i) /\ (p \in B <=> r[v] = i)
    OBVIOUS
  <2>3. A \in SUBSET Procs /\ B \in SUBSET Procs
    OBVIOUS
  <2> HIDE DEF A, B
  <2>4. Cardinality(A) \in Nat /\ Cardinality(B) = Cardinality(A) - One(th[p][v], i) + One(r[v], i)
    BY <2>1, <2>2, <2>3, FiniteTables, CountOne DEF One
  <2> QED
    BY <2>4 DEF A, B
<1>2. Pointers(i) = C("ip") + C("dp") + C("ln") + C("put") + C("also") + C("drop")
  BY DEF Pointers
<1>3. Pointers(i)' = D("ip") + D("dp") + D("ln") + D("put") + D("also") + D("drop")
  BY DEF Pointers
<1>4. Own(th[p], i) = One(th[p]["ip"], i) + One(th[p]["dp"], i) + One(th[p]["ln"], i)
        + One(th[p]["put"], i) + One(th[p]["also"], i) + One(th[p]["drop"], i)
  BY DEF Own
<1>5. Own(r, i) = One(r["ip"], i) + One(r["dp"], i) + One(r["ln"], i)
        + One(r["put"], i) + One(r["also"], i) + One(r["drop"], i)
  BY DEF Own
<1>6. \A x : One(x, i) \in Int
  BY DEF One
<1> HIDE DEF C, D
<1> QED
  BY <1>1, <1>2, <1>3, <1>4, <1>5, <1>6

(* Current directories and open files.                                      *)
LEMMA UsersType ==
  ASSUME NEW i
  PROVE  /\ Users(i) \in Nat
         /\ Cardinality({p \in Procs : cwd[p] = i}) \in Nat
         /\ Cardinality({f \in Files : file[f].ip = i}) \in Nat
<1>1. IsFiniteSet({p \in Procs : cwd[p] = i}) /\ IsFiniteSet({f \in Files : file[f].ip = i})
  BY FiniteTables, FS_Subset
<1> QED
  BY <1>1, FS_CardinalityType DEF Users

(* A step that changes the current directory of one process.                *)
LEMMA CwdStep ==
  ASSUME cwd \in [Procs -> Ptrs], NEW p \in Procs, NEW c, cwd' = [cwd EXCEPT ![p] = c],
         \A f \in Files : file'[f].ip = file[f].ip, NEW i
  PROVE  Users(i)' = Users(i) - One(cwd[p], i) + One(c, i)
<1> DEFINE A == {q \in Procs : cwd[q] = i}
           B == {q \in Procs : cwd'[q] = i}
           F == Cardinality({f \in Files : file[f].ip = i})
<1>1. A \ {p} = B \ {p}
  OBVIOUS
<1>2. (p \in A <=> cwd[p] = i) /\ (p \in B <=> c = i)
  OBVIOUS
<1>3. A \in SUBSET Procs /\ B \in SUBSET Procs
  OBVIOUS
<1>4. Users(i) = Cardinality(A) + F /\ Users(i)' = Cardinality(B) + F /\ F \in Nat
  <2>1. {f \in Files : file'[f].ip = i} = {f \in Files : file[f].ip = i}
    OBVIOUS
  <2>2. F \in Nat
    BY UsersType
  <2> QED
    BY <2>1, <2>2 DEF Users
<1>5. One(c, i) \in Int /\ One(cwd[p], i) \in Int
  BY DEF One
<1> HIDE DEF A, B, F
<1>6. Cardinality(A) \in Nat /\ Cardinality(B) = Cardinality(A) - One(cwd[p], i) + One(c, i)
  BY <1>1, <1>2, <1>3, FiniteTables, CountOne DEF One
<1> QED
  BY <1>4, <1>5, <1>6

(* A step that changes the inode of one open file.                          *)
LEMMA FileStep ==
  ASSUME file \in [Files -> FileType], NEW f \in Files, NEW e,
         file' = [file EXCEPT ![f] = e], cwd' = cwd, NEW i
  PROVE  Users(i)' = Users(i) - One(file[f].ip, i) + One(e.ip, i)
<1> DEFINE A == {g \in Files : file[g].ip = i}
           B == {g \in Files : file'[g].ip = i}
           C == Cardinality({p \in Procs : cwd[p] = i})
<1>1. A \ {f} = B \ {f}
  OBVIOUS
<1>2. (f \in A <=> file[f].ip = i) /\ (f \in B <=> e.ip = i)
  OBVIOUS
<1>3. A \in SUBSET Files /\ B \in SUBSET Files
  OBVIOUS
<1>4. Users(i) = C + Cardinality(A) /\ Users(i)' = C + Cardinality(B) /\ C \in Nat
  BY UsersType DEF Users
<1>5. One(e.ip, i) \in Int /\ One(file[f].ip, i) \in Int
  BY DEF One
<1> HIDE DEF A, B, C
<1>6. Cardinality(A) \in Nat /\ Cardinality(B) = Cardinality(A) - One(file[f].ip, i) + One(e.ip, i)
  BY <1>1, <1>2, <1>3, FiniteTables, CountOne DEF One
<1> QED
  BY <1>4, <1>5, <1>6

(* The descriptors of file f.                                               *)
Descriptors(f) == {x \in Procs \X Fds : ofile[x[1]][x[2]] = f}

(* There are finitely many descriptors.                                     *)
LEMMA DescriptorsFinite ==
  ASSUME NEW f
  PROVE  IsFiniteSet(Procs \X Fds) /\ IsFiniteSet(Descriptors(f))
         /\ Cardinality(Descriptors(f)) \in Nat
<1>1. IsFiniteSet(Procs \X Fds)
  BY FiniteTables, FS_Product
<1>2. IsFiniteSet(Descriptors(f))
  BY <1>1, FS_Subset DEF Descriptors
<1> QED
  BY <1>1, <1>2, FS_CardinalityType

(* A step that changes one descriptor.                                      *)
LEMMA DescriptorStep ==
  ASSUME NEW p \in Procs, NEW d \in Fds, NEW g, NEW f \in Files,
         \A q \in Procs, c \in Fds :
           ofile'[q][c] = IF q = p /\ c = d THEN g ELSE ofile[q][c]
  PROVE  Cardinality(Descriptors(f))' =
           Cardinality(Descriptors(f)) - One(ofile[p][d], f) + One(g, f)
<1> DEFINE A == Descriptors(f)
           B == Descriptors(f)'
<1>1. A \ {<<p, d>>} = B \ {<<p, d>>}
  BY DEF Descriptors
<1>2. <<p, d>> \in Procs \X Fds
  OBVIOUS
<1>3. (<<p, d>> \in A <=> ofile[p][d] = f) /\ (<<p, d>> \in B <=> g = f)
  BY DEF Descriptors
<1>4. A \in SUBSET (Procs \X Fds) /\ B \in SUBSET (Procs \X Fds)
  BY DEF Descriptors
<1>5. Cardinality(Descriptors(f))' = Cardinality(B)
  OBVIOUS
<1>6. IsFiniteSet(Procs \X Fds)
  BY DescriptorsFinite
<1>7. PICK S : S = Procs \X Fds
  OBVIOUS
<1>8. PICK x : x = <<p, d>>
  OBVIOUS
<1> HIDE DEF A, B
<1>9. /\ IsFiniteSet(S) /\ A \in SUBSET S /\ B \in SUBSET S /\ x \in S
      /\ A \ {x} = B \ {x}
      /\ x \in A <=> ofile[p][d] = f
      /\ x \in B <=> g = f
  BY <1>1, <1>2, <1>3, <1>4, <1>6, <1>7, <1>8
<1>10. Cardinality(B) = Cardinality(A) - One(ofile[p][d], f) + One(g, f)
  BY <1>9, CountOne DEF One
<1> QED
  BY <1>5, <1>10 DEF A

(* An inode has finitely many names and subdirectories.                     *)
LEMMA NamesFinite ==
  ASSUME NEW i
  PROVE  /\ IsFiniteSet(Inums \X Names)
         /\ IsFiniteSet(NamesOf(i)) /\ IsFiniteSet(Subdirs(i))
         /\ Cardinality(NamesOf(i)) \in Nat /\ Cardinality(Subdirs(i)) \in Nat
<1>1. IsFiniteSet(Inums \X Names)
  BY FiniteTables, NamesAssumption, FS_Product
<1>2. NamesOf(i) \subseteq Inums \X Names
  BY DEF NamesOf, Dirs
<1>3. Subdirs(i) \subseteq Names
  BY DEF Subdirs
<1>4. IsFiniteSet(NamesOf(i)) /\ IsFiniteSet(Subdirs(i))
  BY <1>1, <1>2, <1>3, FS_Subset, NamesAssumption
<1> QED
  BY <1>1, <1>4, FS_CardinalityType

-----------------------------------------------------------------------------
(* The records of calls.                                                    *)

(* 0 is no inode number.                                                    *)
LEMMA NoInum == \A i \in Inums : i # None /\ i \in Ptrs
BY SizeAssumption DEF Inums, None, Ptrs

(* A process outside of any call points to nothing.                         *)
LEMMA IdleRecord ==
  /\ Idle \in ThType /\ Stage(Idle) /\ Knows(Idle) /\ Keeps(Idle) = None
  /\ Idle.at = "user" /\ Idle.ln = None
  /\ \A j \in Inums : Own(Idle, j) = 0
<1>1. NoPath \in PathRecords
  <2>1. <<>> \in Seq(AllNames) /\ FALSE \in BOOLEAN
    OBVIOUS
  <2> QED
    BY <2>1, Zenon DEF NoPath, PathRecords
<1>2. Idle \in ThType
  <2>1. /\ "none" \in Calls /\ "user" \in Stages /\ None \in Ptrs /\ <<>> \in Seq(AllNames)
    BY DEF Calls, Stages, Resting, Ptrs
  <2> QED
    BY <1>1, <2>1 DEF Idle, ThType
<1>3. Stage(Idle) /\ Knows(Idle) /\ Keeps(Idle) = None /\ Idle.at = "user" /\ Idle.ln = None
  BY DEF Idle, Stage, Resting, WantsParent, Knows, Keeps
<1>4. \A j \in Inums : Own(Idle, j) = 0
  BY NoInum DEF Own, One, Idle
<1> QED
  BY <1>2, <1>3, <1>4

(* A call that returns after iput(i) points to i only.                      *)
LEMMA ReturnRecord ==
  ASSUME NEW i \in Inums
  PROVE  /\ Return(i) \in ThType /\ Stage(Return(i)) /\ Knows(Return(i))
         /\ Keeps(Return(i)) = None
         /\ Return(i).at = "user" /\ Return(i).ln = None
         /\ \A j \in Inums : Own(Return(i), j) = One(i, j)
<1>1. Return(i) \in ThType
  BY IdleRecord, NoInum DEF Return, ThType
<1>2. /\ Return(i).at = "user" /\ Return(i).ip = None /\ Return(i).dp = None
      /\ Return(i).ln = None /\ Return(i).put = i /\ Return(i).also = None
      /\ Return(i).drop = None /\ Return(i).call = "none"
  BY DEF Return, Idle
<1>3. Stage(Return(i)) /\ Knows(Return(i)) /\ Keeps(Return(i)) = None
  BY <1>2 DEF Stage, Resting, WantsParent, Knows, Keeps
<1>4. \A j \in Inums : Own(Return(i), j) = One(i, j)
  BY <1>2, NoInum DEF Own, One
<1> QED
  BY <1>1, <1>2, <1>3, <1>4

(* The record of a call with nothing left to put.                           *)
Settled(r) == r.put = None /\ r.also = None /\ r.drop = None

(* A call that fails after iput(i) has i instead of ip.                     *)
LEMMA FailRecord ==
  ASSUME NEW r \in ThType, Settled(r), r.dp = None, r.ln # None => r.call = "link",
         r.ln # None => Allocated(r.ln) /\ ~IsDir(r.ln), NEW i \in Inums
  PROVE  /\ Fail(r, i) \in ThType /\ Stage(Fail(r, i)) /\ Knows(Fail(r, i))
         /\ Keeps(Fail(r, i)) = None
         /\ Fail(r, i).at \in {"user", "bad"} /\ Fail(r, i).ln = r.ln
         /\ \A j \in Inums : Own(Fail(r, i), j) = Own(r, j) - One(r.ip, j) + One(i, j)
<1>1. CASE r.ln = None
  <2>1. Fail(r, i) = Return(i)
    BY <1>1 DEF Fail
  <2>2. \A j \in Inums : Own(r, j) = One(r.ip, j)
    BY <1>1, NoInum DEF Own, One, Settled
  <2>3. \A j \in Inums : One(i, j) = Own(r, j) - One(r.ip, j) + One(i, j)
    BY <2>2 DEF One
  <2> QED
    BY <1>1, <2>1, <2>3, ReturnRecord
<1>2. CASE r.ln # None
  <2> DEFINE s == [r EXCEPT !.at = "bad", !.ip = None, !.path = <<>>, !.put = i]
  <2>1. Fail(r, i) = s
    BY <1>2 DEF Fail
  <2>2. s \in ThType
    <3>1. "bad" \in Stages /\ None \in Ptrs /\ i \in Ptrs /\ <<>> \in Seq(AllNames)
      BY NoInum DEF Stages, Ptrs
    <3> QED
      BY <3>1 DEF ThType
  <2>3. /\ s.at = "bad" /\ s.ip = None /\ s.dp = None /\ s.ln = r.ln /\ s.put = i
        /\ s.also = None /\ s.drop = None /\ s.call = r.call
    BY DEF ThType, Settled
  <2> HIDE DEF s
  <2>4. Stage(s) /\ Knows(s) /\ Keeps(s) = None
    BY <1>2, <2>3, NoInum DEF Stage, Resting, Knows, Keeps
  <2>5. \A j \in Inums : Own(s, j) = Own(r, j) - One(r.ip, j) + One(i, j)
    BY <2>3, NoInum DEF Own, One, Settled
  <2> QED
    BY <2>1, <2>2, <2>3, <2>4, <2>5
<1> QED
  BY <1>1, <1>2

(* A call that sets out for a path has the directory as ip.                 *)
LEMMA WalkRecord ==
  ASSUME NEW r \in ThType, Settled(r), r.dp = None, r.ln # None => r.call = "link",
         r.ln # None => Allocated(r.ln) /\ ~IsDir(r.ln), NEW d \in Inums,
         NEW path \in PathRecords
  PROVE  /\ Walk(r, d, path) \in ThType /\ Stage(Walk(r, d, path)) /\ Knows(Walk(r, d, path))
         /\ Keeps(Walk(r, d, path)) = None
         /\ Walk(r, d, path).at \in {"user", "bad", "walk", "got"}
         /\ Walk(r, d, path).ln = r.ln
         /\ \A j \in Inums : Own(Walk(r, d, path), j) = Own(r, j) - One(r.ip, j) + One(d, j)
<1>1. CASE path.elems = <<>> /\ WantsParent(r)
  <2>1. Walk(r, d, path) = Fail(r, d)
    BY <1>1 DEF Walk
  <2> QED
    BY <2>1, FailRecord
<1>2. CASE ~(path.elems = <<>> /\ WantsParent(r))
  <2>1. PICK a : a = IF path.elems = <<>> THEN "got" ELSE "walk"
    OBVIOUS
  <2> DEFINE s == [r EXCEPT !.ip = d, !.path = path.elems, !.at = a]
  <2>2. Walk(r, d, path) = s
    BY <1>2, <2>1 DEF Walk
  <2>3. path.elems \in Seq(AllNames)
    BY DEF PathRecords
  <2>4. a \in Stages /\ d \in Ptrs
    BY <2>1, NoInum DEF Stages
  <2>5. s \in ThType
    BY <2>3, <2>4 DEF ThType
  <2>6. /\ s.at = a /\ s.ip = d /\ s.dp = None /\ s.ln = r.ln /\ s.put = None
        /\ s.also = None /\ s.drop = None /\ s.call = r.call /\ s.path = path.elems
    BY DEF ThType, Settled
  <2> HIDE DEF s
  <2>7. WantsParent(s) <=> WantsParent(r)
    BY <2>6 DEF WantsParent
  <2>8. Stage(s) /\ Knows(s) /\ Keeps(s) = None
    BY <1>2, <2>1, <2>6, <2>7, NoInum DEF Stage, Resting, Knows, Keeps
  <2>9. \A j \in Inums : Own(s, j) = Own(r, j) - One(r.ip, j) + One(d, j)
    BY <2>6, NoInum DEF Own, One, Settled
  <2> QED
    BY <2>1, <2>2, <2>5, <2>6, <2>8, <2>9
<1> QED
  BY <1>1, <1>2

-----------------------------------------------------------------------------
(* Steps of a call.                                                         *)

(* A step inside a call keeps the tables typed and the reference counts     *)
(* exact if it changes each count by as much as its own pointers.           *)
LEMMA CallStep ==
  ASSUME TypeInv, StageInv, TableInv, RefCounts, NEW p \in Procs, NEW r \in ThType,
         Set(p, r), Stage(r), r.at = "dead" <=> th[p].at = "dead",
         UNCHANGED <<fileVars, prog>>,
         dinode' \in [Inums -> InodeType], lock' \in [Inums -> Procs \cup {None}],
         ref' \in [Inums -> Int],
         \A j \in Inums : ref'[j] = ref[j] + Own(r, j) - Own(th[p], j)
  PROVE  TypeInv' /\ StageInv' /\ TableInv' /\ RefCounts'
<1>1. th' \in [Procs -> ThType]
  BY DEF TypeInv, Set
<1>2. TypeInv'
  BY <1>1 DEF TypeInv, fileVars
<1>3. StageInv'
  BY DEF StageInv, Set, TypeInv
<1>4. TableInv'
  BY DEF TableInv, Set, TypeInv, fileVars
<1>5. ASSUME NEW j \in Inums PROVE ref'[j] = (Users(j) + Pointers(j))'
  <2>1. Pointers(j) \in Int /\ Pointers(j)' = Pointers(j) + Own(r, j) - Own(th[p], j)
    BY PointersStep DEF Set, TypeInv
  <2>2. Users(j)' = Users(j) /\ Users(j) \in Int
    <3>1. Users(j)' = Users(j)
      BY DEF Users, fileVars
    <3>2. Users(j) \in Nat
      BY UsersType, Zenon
    <3> QED
      BY <3>1, <3>2
  <2>3. Own(r, j) \in Int /\ Own(th[p], j) \in Int
    BY DEF Own, One
  <2>4. ref[j] = Users(j) + Pointers(j)
    BY DEF RefCounts
  <2> QED
    BY <2>1, <2>2, <2>3, <2>4
<1>6. RefCounts'
  BY <1>5 DEF RefCounts, fileVars
<1> QED
  BY <1>2, <1>3, <1>4, <1>6

(* A step that leaves the inodes alone and neither counts nor erases a link *)
(* keeps the link counts and the tree.                                      *)
LEMMA QuietStep ==
  ASSUME TypeInv, KnowsInv, LinkInv, TreeInv, NEW p \in Procs, NEW r \in ThType, Set(p, r),
         dinode' = dinode, Knows(r), r.ln \in {None, th[p].ln},
         r.at = "unlinked" => th[p].at = "unlinked" /\ r.ip = th[p].ip
  PROVE  LinkInv' /\ TreeInv' /\ \A q \in Procs : Knows(th[q])'
<1>1. \A i \in Inums : NamesOf(i)' = NamesOf(i) /\ Subdirs(i)' = Subdirs(i)
  BY DEF NamesOf, Subdirs, Dirs
<1>2. ASSUME NEW i \in Inums
      PROVE  /\ Cardinality(Linking(i))' <= Cardinality(Linking(i))
             /\ Cardinality(Unlinking(i))' <= Cardinality(Unlinking(i))
             /\ Cardinality(Linking(i)) \in Nat /\ Cardinality(Linking(i))' \in Nat
             /\ Cardinality(Unlinking(i)) \in Nat /\ Cardinality(Unlinking(i))' \in Nat
  <2>1. Linking(i)' \subseteq Linking(i)
    BY NoInum DEF Linking, Set, TypeInv
  <2>2. Unlinking(i)' \subseteq Unlinking(i)
    BY DEF Unlinking, Set, TypeInv
  <2>3. IsFiniteSet(Linking(i)) /\ IsFiniteSet(Unlinking(i))
    BY FiniteTables, FS_Subset DEF Linking, Unlinking
  <2>4. /\ Cardinality(Linking(i)') <= Cardinality(Linking(i))
        /\ Cardinality(Linking(i)) \in Nat /\ Cardinality(Linking(i)') \in Nat
    BY <2>1, <2>3, FS_Subset, FS_CardinalityType
  <2>5. /\ Cardinality(Unlinking(i)') <= Cardinality(Unlinking(i))
        /\ Cardinality(Unlinking(i)) \in Nat /\ Cardinality(Unlinking(i)') \in Nat
    BY <2>2, <2>3, FS_Subset, FS_CardinalityType
  <2> QED
    BY <2>4, <2>5
<1>3. ASSUME NEW i \in Inums
      PROVE  Cardinality(NamesOf(i)) \in Nat /\ Cardinality(Subdirs(i)) \in Nat
  BY NamesFinite
<1>4. LinkInv'
  <2>1. \A i \in Inums : dinode[i].nlink \in Int
    BY DEF TypeInv, InodeType
  <2> QED
    BY <1>1, <1>2, <1>3, <2>1, RootedType DEF LinkInv, Allocated
<1>5. TreeInv'
  BY DEF TreeInv, TreeShape, Dirs
<1>6. \A q \in Procs : Knows(th[q])'
  BY DEF KnowsInv, Knows, Set, TypeInv, Allocated, IsDir, WantsParent
<1> QED
  BY <1>4, <1>5, <1>6

(* No lock changes hands.                                                   *)
LEMMA LockSame ==
  ASSUME TypeInv, LockInv, NEW p \in Procs, NEW r \in ThType, Set(p, r), lock' = lock,
         Keeps(r) = Keeps(th[p]), \A i \in Inums : lock[i] # None => Allocated(i)'
  PROVE  LockInv'
<1>1. \A q \in Procs : Keeps(th'[q]) = Keeps(th[q])
  BY DEF Set, TypeInv
<1>2. \A q \in Procs : Keeps(th[q])' = Keeps(th'[q])
  BY DEF Keeps
<1> QED
  BY <1>1, <1>2 DEF LockInv

(* A call that keeps no lock takes that of inode i.                         *)
LEMMA LockTake ==
  ASSUME TypeInv, LockInv, NEW p \in Procs, NEW r \in ThType, Set(p, r), NEW i \in Inums,
         lock[i] = None, lock' = [lock EXCEPT ![i] = p],
         Keeps(th[p]) = None, Keeps(r) = i,
         \A j \in Inums : lock'[j] # None => Allocated(j)'
  PROVE  LockInv'
<1>1. \A q \in Procs : Keeps(th'[q]) = IF q = p THEN i ELSE Keeps(th[q])
  BY DEF Set, TypeInv
<1>2. \A q \in Procs : Keeps(th[q])' = Keeps(th'[q])
  BY DEF Keeps
<1>3. None \notin Procs
  BY SizeAssumption DEF Procs, None
<1>4. \A j \in Inums : lock'[j] = IF j = i THEN p ELSE lock[j]
  BY DEF TypeInv
<1>5. ASSUME NEW j \in Inums, NEW q \in Procs PROVE lock'[j] = q <=> Keeps(th[q])' = j
  <2>1. lock[j] = q <=> Keeps(th[q]) = j
    BY DEF LockInv
  <2> QED
    BY <1>1, <1>2, <1>3, <1>4, <2>1, NoInum
<1> QED
  BY <1>5 DEF LockInv

(* A call releases the lock of inode i, which it kept.                      *)
LEMMA LockDrop ==
  ASSUME TypeInv, LockInv, NEW p \in Procs, NEW r \in ThType, Set(p, r), NEW i \in Inums,
         lock' = [lock EXCEPT ![i] = None], Keeps(th[p]) = i, Keeps(r) = None,
         \A j \in Inums : lock'[j] # None => Allocated(j)'
  PROVE  LockInv'
<1>1. \A q \in Procs : Keeps(th'[q]) = IF q = p THEN None ELSE Keeps(th[q])
  BY DEF Set, TypeInv
<1>2. \A q \in Procs : Keeps(th[q])' = Keeps(th'[q])
  BY DEF Keeps
<1>3. None \notin Procs
  BY SizeAssumption DEF Procs, None
<1>4. \A j \in Inums : lock'[j] = IF j = i THEN None ELSE lock[j]
  BY DEF TypeInv
<1>5. ASSUME NEW j \in Inums, NEW q \in Procs PROVE lock'[j] = q <=> Keeps(th[q])' = j
  <2>1. (lock[j] = q <=> Keeps(th[q]) = j) /\ lock[i] = p
    BY DEF LockInv
  <2> QED
    BY <1>1, <1>2, <1>3, <1>4, <2>1, NoInum
<1> QED
  BY <1>5 DEF LockInv

(* A step of a call that changes no inode and no table of the process.      *)
LEMMA QuietCall ==
  ASSUME Inv, NEW p \in Procs, NEW r \in ThType, Set(p, r), Stage(r), Knows(r),
         r.at = "dead" <=> th[p].at = "dead", r.ln \in {None, th[p].ln},
         r.at = "unlinked" => th[p].at = "unlinked" /\ r.ip = th[p].ip,
         UNCHANGED <<dinode, fileVars, prog>>,
         lock' \in [Inums -> Procs \cup {None}], LockInv',
         ref' \in [Inums -> Int],
         \A j \in Inums : ref'[j] = ref[j] + Own(r, j) - Own(th[p], j)
  PROVE  Inv'
<1>1. dinode' \in [Inums -> InodeType]
  BY DEF Inv, TypeInv
<1>2. TypeInv' /\ StageInv' /\ TableInv' /\ RefCounts'
  BY <1>1, CallStep DEF Inv
<1>3. LinkInv' /\ TreeInv' /\ \A q \in Procs : Knows(th[q])'
  BY QuietStep DEF Inv
<1>4. KnowsInv'
  BY <1>3 DEF Inv, KnowsInv, Allocated, fileVars
<1> QED
  BY <1>2, <1>3, <1>4 DEF Inv

(* What the invariant says of a call that has no iput() to finish.          *)
LEMMA AtFacts ==
  ASSUME Inv, NEW p \in Procs, NEW l, At(p, l)
  PROVE  /\ th[p] \in ThType /\ Settled(th[p]) /\ Stage(th[p]) /\ Knows(th[p])
         /\ th[p].at = l
BY DEF Inv, At, TypeInv, StageInv, KnowsInv, Stage, Settled

(* Numbers of pointers are integers.                                        *)
LEMMA OwnType == \A r, j : Own(r, j) \in Int /\ \A x : One(x, j) \in Int
BY DEF Own, One

(* Types of the counts and of the locks; what is locked is allocated.       *)
LEMMA RefType ==
  ASSUME Inv
  PROVE  /\ ref \in [Inums -> Int] /\ \A i \in Inums : ref[i] \in Int
         /\ lock \in [Inums -> Procs \cup {None}]
         /\ \A i \in Inums : lock[i] # None => Allocated(i)
BY DEF Inv, TypeInv, LockInv

(* iget() adds one reference.                                               *)
LEMMA GotRef ==
  ASSUME Inv, NEW i \in Inums, ref' = Got(i)
  PROVE  ref' \in [Inums -> Int] /\ \A j \in Inums : ref'[j] = ref[j] + One(i, j)
BY RefType DEF Got, One

(* Nothing is freed while the inodes stay as they are.                      *)
LEMMA AllocatedSame ==
  ASSUME Inv, dinode' = dinode, NEW i \in Inums
  PROVE  Allocated(i)' <=> Allocated(i)
BY DEF Allocated

-----------------------------------------------------------------------------
(* The steps that change no inode.                                          *)

(* The reference that iput() drops is that of its own pointer.              *)
LEMMA IputRefInv ==
  ASSUME Inv, NEW p \in Procs, IputRef(p)
  PROVE  Inv'
<1> DEFINE i == th[p].drop
           r == [th[p] EXCEPT !.drop = None]
<1>1. th[p] \in ThType /\ Stage(th[p]) /\ Knows(th[p])
  BY DEF Inv, TypeInv, StageInv, KnowsInv
<1>2. i \in Inums
  BY <1>1 DEF IputRef, ThType, Ptrs
<1>3. r \in ThType
  BY <1>1 DEF ThType, Ptrs
<1>4. /\ r.at = th[p].at /\ r.ip = th[p].ip /\ r.dp = th[p].dp /\ r.ln = th[p].ln
      /\ r.put = th[p].put /\ r.also = th[p].also /\ r.drop = None
      /\ r.call = th[p].call /\ r.path = th[p].path
  BY <1>1 DEF ThType
<1>5. Set(p, r)
  BY DEF IputRef
<1> HIDE DEF r
<1>6. Stage(r) /\ Knows(r) /\ Keeps(r) = Keeps(th[p])
  BY <1>1, <1>4 DEF Stage, Knows, Keeps, WantsParent
<1>7. \A j \in Inums : Own(r, j) = Own(th[p], j) - One(i, j)
  BY <1>2, <1>4, NoInum DEF Own, One
<1>8. ref' \in [Inums -> Int] /\ \A j \in Inums : ref'[j] = ref[j] - One(i, j)
  BY <1>2, RefType DEF IputRef, One
<1>9. \A j \in Inums : ref'[j] = ref[j] + Own(r, j) - Own(th[p], j)
  BY <1>7, <1>8, OwnType, RefType
<1>10. LockInv'
  BY <1>3, <1>5, <1>6, LockSame, RefType, AllocatedSame DEF IputRef, Inv
<1> QED
  BY <1>3, <1>4, <1>5, <1>6, <1>8, <1>9, <1>10, QuietCall, RefType DEF IputRef

(* Path lookup starts at an inode: the root or the current directory.       *)
LEMMA StartDirInum ==
  ASSUME Inv, NEW p \in Procs, th[p].at # "dead", NEW path
  PROVE  StartDir(p, path) \in Inums
BY SizeAssumption DEF Inv, TypeInv, TableInv, StartDir, ROOTINO, Inums, Ptrs

(* The record of a call that starts.                                        *)
LEMMA StartRecord ==
  ASSUME NEW c \in Calls, NEW new \in PathRecords
  PROVE  LET r == [Idle EXCEPT !.call = c, !.new = new]
         IN /\ r \in ThType /\ Settled(r) /\ r.dp = None /\ r.ln = None /\ r.ip = None
            /\ \A j \in Inums : Own(r, j) = 0
<1> DEFINE r == [Idle EXCEPT !.call = c, !.new = new]
<1>1. r \in ThType
  BY IdleRecord DEF ThType
<1>2. /\ r.ip = None /\ r.dp = None /\ r.ln = None /\ r.put = None /\ r.also = None
      /\ r.drop = None
  BY DEF Idle
<1> HIDE DEF r
<1>3. \A j \in Inums : Own(r, j) = 0
  BY <1>2, NoInum DEF Own, One
<1> QED
  BY <1>1, <1>2, <1>3 DEF r, Settled

(* A call that starts to walk from directory d.                             *)
LEMMA StartWalk ==
  ASSUME Inv, NEW p \in Procs, At(p, "user"), NEW c \in Calls, NEW path \in PathRecords,
         NEW new \in PathRecords,
         ref' = Got(StartDir(p, path)),
         Set(p, Walk([Idle EXCEPT !.call = c, !.new = new], StartDir(p, path), path)),
         UNCHANGED <<dinode, lock, fileVars, prog>>
  PROVE  Inv'
<1>1. /\ th[p] \in ThType /\ Settled(th[p]) /\ Stage(th[p]) /\ th[p].at = "user"
  BY AtFacts
<1>2. PICK d \in Inums : d = StartDir(p, path)
  BY <1>1, StartDirInum
<1>3. PICK s \in ThType : /\ s = [Idle EXCEPT !.call = c, !.new = new]
                          /\ Settled(s) /\ s.dp = None /\ s.ln = None /\ s.ip = None
                          /\ \A j \in Inums : Own(s, j) = 0
  BY StartRecord
<1>4. PICK r : r = Walk(s, d, path)
  OBVIOUS
<1>5. /\ r \in ThType /\ Stage(r) /\ Knows(r) /\ Keeps(r) = None
      /\ r.at \in {"user", "bad", "walk", "got"} /\ r.ln = None
      /\ \A j \in Inums : Own(r, j) = Own(s, j) - One(s.ip, j) + One(d, j)
  BY <1>3, <1>4, WalkRecord
<1>6. Set(p, r)
  BY <1>2, <1>3, <1>4
<1>7. ref' \in [Inums -> Int] /\ \A j \in Inums : ref'[j] = ref[j] + One(d, j)
  BY <1>2, GotRef
<1>8. \A j \in Inums : Own(th[p], j) = 0
  BY <1>1, NoInum DEF Own, One, Settled, Stage, Resting
<1>9. \A j \in Inums : One(s.ip, j) = 0
  BY <1>3, NoInum DEF One
<1>10. \A j \in Inums : ref'[j] = ref[j] + Own(r, j) - Own(th[p], j)
  BY <1>3, <1>5, <1>7, <1>8, <1>9, OwnType, RefType
<1>11. Keeps(th[p]) = None
  BY <1>1 DEF Keeps
<1>12. LockInv'
  BY <1>5, <1>6, <1>11, LockSame, RefType, AllocatedSame DEF Inv
<1> QED
  BY <1>1, <1>5, <1>6, <1>7, <1>10, <1>12, QuietCall, RefType

(* A call with a path starts.                                               *)
LEMMA SysPathInv ==
  ASSUME Inv, NEW p \in Procs, NEW u \in prog.uses, SysPath(p, u[1], u[2])
  PROVE  Inv'
<1>1. u[1] \in PathCalls /\ u[2] \in PathRecords
  BY ProgramsAssumption DEF Inv, TypeInv
<1>2. PICK c \in Calls : c = u[1]
  BY <1>1 DEF Calls
<1>3. PICK path \in PathRecords : path = u[2]
  BY <1>1
<1>4. Idle.new \in PathRecords
  BY IdleRecord DEF ThType
<1>5. [Idle EXCEPT !.call = c] = [Idle EXCEPT !.call = c, !.new = Idle.new]
  BY DEF Idle
<1> QED
  BY <1>2, <1>3, <1>4, <1>5, StartWalk DEF SysPath

(* link() starts.                                                           *)
LEMMA SysLinkInv ==
  ASSUME Inv, NEW p \in Procs, NEW l \in prog.links, SysLink(p, l[1], l[2])
  PROVE  Inv'
<1>1. l[1] \in PathRecords /\ l[2] \in PathRecords
  BY ProgramsAssumption DEF Inv, TypeInv
<1>2. "link" \in Calls
  BY DEF Calls
<1> QED
  BY <1>1, <1>2, StartWalk DEF SysLink

(* exit() starts.                                                           *)
LEMMA SysExitInv ==
  ASSUME Inv, NEW p \in Procs, SysExit(p)
  PROVE  Inv'
<1>1. /\ th[p] \in ThType /\ Settled(th[p]) /\ Stage(th[p]) /\ th[p].at = "user"
  BY AtFacts DEF SysExit
<1> DEFINE r == [Idle EXCEPT !.at = "exiting"]
<1>2. r \in ThType
  <2>1. "exiting" \in Stages
    BY DEF Stages, Resting
  <2> QED
    BY <2>1, IdleRecord DEF ThType
<1>3. /\ r.at = "exiting" /\ r.ip = None /\ r.dp = None /\ r.ln = None /\ r.put = None
      /\ r.also = None /\ r.drop = None
  BY DEF Idle
<1>4. Set(p, r)
  BY DEF SysExit
<1> HIDE DEF r
<1>5. Stage(r) /\ Knows(r) /\ Keeps(r) = None /\ Keeps(th[p]) = None
  BY <1>1, <1>3 DEF Stage, Resting, Knows, Keeps, WantsParent
<1>6. \A j \in Inums : Own(r, j) = 0 /\ Own(th[p], j) = 0
  BY <1>1, <1>3, NoInum DEF Own, One, Settled, Stage, Resting
<1>7. ref' \in [Inums -> Int] /\ \A j \in Inums : ref'[j] = ref[j] + Own(r, j) - Own(th[p], j)
  BY <1>6, RefType DEF SysExit
<1>8. LockInv'
  BY <1>2, <1>4, <1>5, LockSame, RefType, AllocatedSame DEF SysExit, Inv
<1> QED
  BY <1>1, <1>2, <1>3, <1>4, <1>5, <1>7, <1>8, QuietCall, RefType DEF SysExit

(* The name that a lookup is at, and what it names.                         *)
LEMMA HeadFacts ==
  ASSUME Inv, NEW r \in ThType, r.path # <<>>, NEW d \in Inums
  PROVE  Head(r.path) \in AllNames /\ dinode[d].ent[Head(r.path)] \in Ptrs
<1>1. r.path \in Seq(AllNames)
  BY DEF ThType
<1>2. Head(r.path) \in AllNames
  BY <1>1, HeadTailProperties
<1> QED
  BY <1>2 DEF Inv, TypeInv, InodeType

(* One turn of namex(): in each of its four cases it gives back, keeps or   *)
(* exchanges the one reference it holds.                                    *)
LEMMA NamexStepInv ==
  ASSUME Inv, NEW p \in Procs, NamexStep(p)
  PROVE  Inv'
<1>1. /\ th[p] \in ThType /\ Settled(th[p]) /\ Stage(th[p]) /\ Knows(th[p])
      /\ th[p].at = "walk"
  BY AtFacts DEF NamexStep
<1>2. PICK o \in ThType : o = th[p]
  BY <1>1
<1>3. /\ o.ip \in Inums /\ o.dp = None /\ o.path # <<>> /\ o.path \in Seq(AllNames)
      /\ Settled(o) /\ o.at = "walk"
      /\ o.ln # None => o.call = "link" /\ Allocated(o.ln) /\ ~IsDir(o.ln)
      /\ Keeps(o) = None
  BY <1>1, <1>2 DEF Stage, Knows, Keeps, ThType, Ptrs
<1>4. PICK i \in Inums : i = o.ip
  BY <1>3
<1>5. PICK next \in Ptrs : next = dinode[i].ent[Head(o.path)]
  BY <1>3, <1>4, HeadFacts
<1>6. \/ Set(p, Fail(o, i)) /\ ref' = ref
      \/ /\ IsDir(i) /\ Len(o.path) = 1
         /\ Set(p, [o EXCEPT !.at = "got"]) /\ ref' = ref
      \/ /\ ~(WantsParent(o) /\ Len(o.path) = 1)
         /\ next # None
         /\ Set(p, [o EXCEPT !.ip = next, !.path = Tail(@), !.put = i,
                             !.at = IF Len(o.path) = 1 THEN "got" ELSE "walk"])
         /\ ref' = Got(next)
  BY <1>2, <1>4, <1>5 DEF NamexStep, IsDir
<1>7. UNCHANGED <<dinode, lock, fileVars, prog>>
  BY DEF NamexStep
<1> USE <1>7
<1>8. CASE Set(p, Fail(o, i)) /\ ref' = ref
  <2>1. PICK r : r = Fail(o, i)
    OBVIOUS
  <2>2. /\ r \in ThType /\ Stage(r) /\ Knows(r) /\ Keeps(r) = None
        /\ r.at \in {"user", "bad"} /\ r.ln = o.ln
        /\ \A j \in Inums : Own(r, j) = Own(o, j) - One(o.ip, j) + One(i, j)
    BY <1>3, <2>1, FailRecord
  <2>3. ref' \in [Inums -> Int] /\ \A j \in Inums : ref'[j] = ref[j] + Own(r, j) - Own(th[p], j)
    BY <1>2, <1>4, <1>8, <2>2, OwnType, RefType
  <2>4. LockInv'
    BY <1>2, <1>3, <1>8, <2>1, <2>2, LockSame, RefType, AllocatedSame DEF Inv
  <2> QED
    BY <1>2, <1>3, <1>8, <2>1, <2>2, <2>3, <2>4, QuietCall, RefType
<1>9. CASE /\ IsDir(i) /\ Len(o.path) = 1
           /\ Set(p, [o EXCEPT !.at = "got"]) /\ ref' = ref
  <2>1. PICK r : r = [o EXCEPT !.at = "got"]
    OBVIOUS
  <2>2. r \in ThType
    <3>1. "got" \in Stages
      BY DEF Stages
    <3> QED
      BY <2>1, <3>1 DEF ThType
  <2>3. /\ r.at = "got" /\ r.ip = i /\ r.dp = None /\ r.ln = o.ln /\ r.put = o.put
        /\ r.also = o.also /\ r.drop = o.drop /\ r.call = o.call /\ r.path = o.path
    BY <1>3, <1>4, <2>1 DEF ThType
  <2>4. Stage(r) /\ Knows(r) /\ Keeps(r) = None
    BY <1>3, <1>9, <2>3, NoInum DEF Stage, Resting, Knows, Keeps, Settled
  <2>5. \A j \in Inums : Own(r, j) = Own(o, j)
    BY <1>3, <1>4, <2>3 DEF Own
  <2>6. ref' \in [Inums -> Int] /\ \A j \in Inums : ref'[j] = ref[j] + Own(r, j) - Own(th[p], j)
    BY <1>2, <1>9, <2>5, OwnType, RefType
  <2>7. LockInv'
    BY <1>2, <1>3, <1>9, <2>1, <2>2, <2>4, LockSame, RefType, AllocatedSame DEF Inv
  <2> QED
    BY <1>2, <1>3, <1>9, <2>1, <2>2, <2>3, <2>4, <2>6, <2>7, QuietCall, RefType
<1>10. CASE /\ ~(WantsParent(o) /\ Len(o.path) = 1)
            /\ next # None
            /\ Set(p, [o EXCEPT !.ip = next, !.path = Tail(@), !.put = i,
                                !.at = IF Len(o.path) = 1 THEN "got" ELSE "walk"])
            /\ ref' = Got(next)
  <2>1. PICK a : a = IF Len(o.path) = 1 THEN "got" ELSE "walk"
    OBVIOUS
  <2>2. PICK r : r = [o EXCEPT !.ip = next, !.path = Tail(@), !.put = i, !.at = a]
    OBVIOUS
  <2>3. Set(p, r)
    BY <1>10, <2>1, <2>2
  <2>4. Tail(o.path) \in Seq(AllNames) /\ (Len(o.path) # 1 => Tail(o.path) # <<>>)
    <3>1. /\ Tail(o.path) \in Seq(AllNames) /\ Len(Tail(o.path)) = Len(o.path) - 1
          /\ Len(o.path) \in Nat
      BY <1>3, HeadTailProperties, LenProperties
    <3>2. Len(o.path) # 1 => Len(Tail(o.path)) # 0
      BY <3>1
    <3> QED
      BY <3>1, <3>2, EmptySeq
  <2>5. r \in ThType
    <3>1. a \in Stages /\ i \in Ptrs
      BY <2>1, NoInum DEF Stages
    <3> QED
      BY <2>2, <2>4, <3>1 DEF ThType
  <2>6. /\ r.at = a /\ r.ip = next /\ r.dp = None /\ r.ln = o.ln /\ r.put = i
        /\ r.also = o.also /\ r.drop = o.drop /\ r.call = o.call /\ r.path = Tail(o.path)
    BY <1>3, <2>2 DEF ThType
  <2>7. WantsParent(r) <=> WantsParent(o)
    BY <2>6 DEF WantsParent
  <2>8. Stage(r) /\ Knows(r) /\ Keeps(r) = None
    BY <1>3, <1>10, <2>1, <2>4, <2>6, <2>7, NoInum DEF Stage, Resting, Knows, Keeps, Settled
  <2>9. next \in Inums
    BY <1>10 DEF Ptrs
  <2>10. \A j \in Inums : Own(r, j) = Own(o, j) + One(next, j)
    BY <1>3, <1>4, <2>6, NoInum DEF Own, One, Settled
  <2>11. ref' \in [Inums -> Int] /\ \A j \in Inums : ref'[j] = ref[j] + One(next, j)
    BY <1>10, <2>9, GotRef
  <2>12. \A j \in Inums : ref'[j] = ref[j] + Own(r, j) - Own(th[p], j)
    BY <1>2, <2>10, <2>11, OwnType, RefType
  <2>13. LockInv'
    BY <1>2, <1>3, <2>3, <2>5, <2>8, LockSame, RefType, AllocatedSame DEF Inv
  <2> QED
    BY <1>2, <1>3, <2>1, <2>3, <2>5, <2>6, <2>8, <2>11, <2>12, <2>13, QuietCall, RefType
<1> QED
  BY <1>6, <1>8, <1>9, <1>10

(* A call that looks for a parent has found it.                             *)
LEMMA GotFacts ==
  ASSUME Inv, NEW p \in Procs, At(p, "got"), WantsParent(th[p])
  PROVE  /\ th[p] \in ThType /\ Settled(th[p]) /\ th[p].at = "got"
         /\ th[p].ip \in Inums /\ th[p].dp = None /\ IsDir(th[p].ip)
         /\ Head(th[p].path) \in AllNames /\ th[p].path # <<>>
         /\ dinode[th[p].ip].ent[Head(th[p].path)] \in Ptrs
         /\ th[p].ln # None => th[p].call = "link" /\ Allocated(th[p].ln) /\ ~IsDir(th[p].ln)
         /\ Keeps(th[p]) = None
<1>1. /\ th[p] \in ThType /\ Settled(th[p]) /\ Stage(th[p]) /\ Knows(th[p])
      /\ th[p].at = "got"
  BY AtFacts
<1>2. /\ th[p].ip \in Inums /\ th[p].dp = None /\ th[p].path # <<>> /\ IsDir(th[p].ip)
      /\ Keeps(th[p]) = None
      /\ th[p].ln # None => th[p].call = "link" /\ Allocated(th[p].ln) /\ ~IsDir(th[p].ln)
  BY <1>1 DEF Stage, Knows, Keeps, ThType, Ptrs
<1> QED
  BY <1>1, <1>2, HeadFacts

(* create() exchanges the directory for the inode it found.                 *)
LEMMA CreateFoundInv ==
  ASSUME Inv, NEW p \in Procs, CreateFound(p)
  PROVE  Inv'
<1>1. At(p, "got") /\ WantsParent(th[p]) /\ th[p].call \in Creating /\ th[p].call # "link"
  BY DEF CreateFound, WantsParent, Creating
<1>2. /\ th[p] \in ThType /\ Settled(th[p]) /\ th[p].at = "got"
      /\ th[p].ip \in Inums /\ th[p].dp = None
      /\ dinode[th[p].ip].ent[Head(th[p].path)] \in Ptrs
      /\ th[p].ln = None /\ Keeps(th[p]) = None
  BY <1>1, GotFacts
<1>3. PICK o \in ThType : o = th[p]
  BY <1>2
<1>4. PICK d \in Inums : d = o.ip
  BY <1>2, <1>3
<1>5. PICK i \in Inums : i = dinode[d].ent[Head(o.path)]
  BY <1>2, <1>3, <1>4 DEF CreateFound, Ptrs
<1>6. PICK r : r = [o EXCEPT !.at = "exists", !.ip = i, !.path = <<>>, !.put = d]
  OBVIOUS
<1>7. Set(p, r) /\ ref' = Got(i) /\ UNCHANGED <<dinode, lock, fileVars, prog>>
  BY <1>3, <1>4, <1>5, <1>6 DEF CreateFound
<1>8. r \in ThType
  <2>1. "exists" \in Stages /\ i \in Ptrs /\ d \in Ptrs /\ <<>> \in Seq(AllNames)
    BY NoInum DEF Stages
  <2> QED
    BY <1>6, <2>1 DEF ThType
<1>9. /\ r.at = "exists" /\ r.ip = i /\ r.dp = None /\ r.ln = None /\ r.put = d
      /\ r.also = o.also /\ r.drop = o.drop
  BY <1>2, <1>3, <1>6 DEF ThType
<1>10. Stage(r) /\ Knows(r) /\ Keeps(r) = None
  BY <1>9, NoInum DEF Stage, Resting, Knows, Keeps
<1>11. \A j \in Inums : Own(r, j) = Own(o, j) + One(i, j)
  BY <1>2, <1>3, <1>4, <1>9, NoInum DEF Own, One, Settled
<1>12. ref' \in [Inums -> Int] /\ \A j \in Inums : ref'[j] = ref[j] + One(i, j)
  BY <1>7, GotRef
<1>13. \A j \in Inums : ref'[j] = ref[j] + Own(r, j) - Own(th[p], j)
  BY <1>3, <1>11, <1>12, OwnType, RefType
<1>14. LockInv'
  BY <1>2, <1>7, <1>8, <1>10, LockSame, RefType, AllocatedSame DEF Inv
<1> QED
  BY <1>2, <1>7, <1>8, <1>9, <1>10, <1>12, <1>13, <1>14, QuietCall, RefType

(* dirlink() has found the name taken: one more reference, to be put, and   *)
(* the directory stays locked.                                              *)
LEMMA LinkTakenInv ==
  ASSUME Inv, NEW p \in Procs, LinkTaken(p)
  PROVE  Inv'
<1>1. At(p, "got") /\ WantsParent(th[p]) /\ th[p].call = "link" /\ th[p].ln # None
  BY DEF LinkTaken, WantsParent
<1>2. /\ th[p] \in ThType /\ Settled(th[p]) /\ th[p].at = "got"
      /\ th[p].ip \in Inums /\ th[p].dp = None /\ IsDir(th[p].ip)
      /\ dinode[th[p].ip].ent[Head(th[p].path)] \in Ptrs
      /\ Allocated(th[p].ln) /\ ~IsDir(th[p].ln) /\ Keeps(th[p]) = None
  BY <1>1, GotFacts
<1>3. PICK o \in ThType : o = th[p]
  BY <1>2
<1>4. PICK d \in Inums : d = o.ip
  BY <1>2, <1>3
<1>5. PICK i \in Inums : i = dinode[d].ent[Head(o.path)]
  BY <1>2, <1>3, <1>4 DEF LinkTaken, Ptrs
<1>6. PICK r : r = [o EXCEPT !.at = "taken", !.path = <<>>, !.put = i]
  OBVIOUS
<1>7. /\ Set(p, r) /\ ref' = Got(i) /\ lock[d] = None /\ Allocated(d)
      /\ lock' = [lock EXCEPT ![d] = p] /\ UNCHANGED <<dinode, fileVars, prog>>
  BY <1>3, <1>4, <1>5, <1>6 DEF LinkTaken, Lockable, Allocated
<1>8. r \in ThType
  <2>1. "taken" \in Stages /\ i \in Ptrs /\ <<>> \in Seq(AllNames)
    BY NoInum DEF Stages
  <2> QED
    BY <1>6, <2>1 DEF ThType
<1>9. /\ r.at = "taken" /\ r.ip = d /\ r.dp = None /\ r.ln = o.ln /\ r.put = i
      /\ r.also = o.also /\ r.drop = o.drop /\ r.call = "link"
  BY <1>1, <1>2, <1>3, <1>4, <1>6 DEF ThType
<1>10. Stage(r) /\ Knows(r) /\ Keeps(r) = d
  BY <1>1, <1>2, <1>3, <1>9, NoInum DEF Stage, Resting, Knows, Keeps
<1>11. \A j \in Inums : Own(r, j) = Own(o, j) + One(i, j)
  BY <1>2, <1>3, <1>4, <1>9, NoInum DEF Own, One, Settled
<1>12. ref' \in [Inums -> Int] /\ \A j \in Inums : ref'[j] = ref[j] + One(i, j)
  BY <1>7, GotRef
<1>13. \A j \in Inums : ref'[j] = ref[j] + Own(r, j) - Own(th[p], j)
  BY <1>3, <1>11, <1>12, OwnType, RefType
<1>14. /\ lock' \in [Inums -> Procs \cup {None}]
       /\ \A j \in Inums : lock'[j] # None => Allocated(j)'
  BY <1>7, RefType, AllocatedSame
<1>15. LockInv'
  BY <1>2, <1>7, <1>8, <1>10, <1>14, LockTake DEF Inv
<1> QED
  BY <1>2, <1>3, <1>7, <1>8, <1>9, <1>10, <1>12, <1>13, <1>14, <1>15, QuietCall

(* link() then unlocks and puts the directory.                              *)
LEMMA LinkTakenDoneInv ==
  ASSUME Inv, NEW p \in Procs, LinkTakenDone(p)
  PROVE  Inv'
<1>1. /\ th[p] \in ThType /\ Settled(th[p]) /\ Stage(th[p]) /\ Knows(th[p])
      /\ th[p].at = "taken"
  BY AtFacts DEF LinkTakenDone
<1>2. PICK o \in ThType : o = th[p]
  BY <1>1
<1>3. /\ o.ip \in Inums /\ o.dp = None /\ o.ln # None /\ o.call = "link"
      /\ Settled(o) /\ o.at = "taken" /\ Allocated(o.ln) /\ ~IsDir(o.ln) /\ Keeps(o) = o.ip
  BY <1>1, <1>2 DEF Stage, Knows, Keeps, ThType, Ptrs
<1>4. PICK d \in Inums : d = o.ip
  BY <1>3
<1>5. PICK r : r = Fail(o, d)
  OBVIOUS
<1>6. /\ Set(p, r) /\ ref' = ref /\ lock' = [lock EXCEPT ![d] = None]
      /\ UNCHANGED <<dinode, fileVars, prog>>
  BY <1>2, <1>4, <1>5 DEF LinkTakenDone
<1>7. /\ r \in ThType /\ Stage(r) /\ Knows(r) /\ Keeps(r) = None
      /\ r.at \in {"user", "bad"} /\ r.ln = o.ln
      /\ \A j \in Inums : Own(r, j) = Own(o, j) - One(o.ip, j) + One(d, j)
  BY <1>3, <1>5, FailRecord
<1>8. ref' \in [Inums -> Int] /\ \A j \in Inums : ref'[j] = ref[j] + Own(r, j) - Own(th[p], j)
  BY <1>2, <1>4, <1>6, <1>7, OwnType, RefType
<1>9. /\ lock' \in [Inums -> Procs \cup {None}]
      /\ \A j \in Inums : lock'[j] # None => Allocated(j)'
  BY <1>6, RefType, AllocatedSame
<1>10. LockInv'
  BY <1>2, <1>3, <1>4, <1>6, <1>7, <1>9, LockDrop DEF Inv
<1> QED
  BY <1>2, <1>3, <1>6, <1>7, <1>8, <1>9, <1>10, QuietCall

(* unlink() gives the directory back.                                       *)
LEMMA UnlinkRefusedInv ==
  ASSUME Inv, NEW p \in Procs, UnlinkRefused(p)
  PROVE  Inv'
<1>1. At(p, "got") /\ WantsParent(th[p]) /\ th[p].call = "unlink"
  BY DEF UnlinkRefused, WantsParent
<1>2. /\ th[p] \in ThType /\ Settled(th[p]) /\ th[p].at = "got"
      /\ th[p].ip \in Inums /\ th[p].dp = None /\ th[p].ln = None /\ Keeps(th[p]) = None
  BY <1>1, GotFacts
<1>3. PICK d \in Inums : d = th[p].ip
  BY <1>2
<1>4. PICK r : r = Return(d)
  OBVIOUS
<1>5. Set(p, r) /\ ref' = ref /\ UNCHANGED <<dinode, lock, fileVars, prog>>
  BY <1>3, <1>4 DEF UnlinkRefused
<1>6. /\ r \in ThType /\ Stage(r) /\ Knows(r) /\ Keeps(r) = None
      /\ r.at = "user" /\ r.ln = None
      /\ \A j \in Inums : Own(r, j) = One(d, j)
  BY <1>4, ReturnRecord
<1>7. \A j \in Inums : Own(th[p], j) = One(d, j)
  BY <1>2, <1>3, NoInum DEF Own, One, Settled
<1>8. ref' \in [Inums -> Int] /\ \A j \in Inums : ref'[j] = ref[j] + Own(r, j) - Own(th[p], j)
  BY <1>5, <1>6, <1>7, OwnType, RefType
<1>9. LockInv'
  BY <1>2, <1>5, <1>6, LockSame, RefType, AllocatedSame DEF Inv
<1> QED
  BY <1>2, <1>5, <1>6, <1>8, <1>9, QuietCall, RefType

(* unlink() locks the directory; the entry cannot change any more, so it is *)
(* known to name the inode found.                                           *)
LEMMA UnlinkFoundInv ==
  ASSUME Inv, NEW p \in Procs, UnlinkFound(p)
  PROVE  Inv'
<1>1. At(p, "got") /\ WantsParent(th[p]) /\ th[p].call = "unlink"
  BY DEF UnlinkFound, WantsParent
<1>2. /\ th[p] \in ThType /\ Settled(th[p]) /\ th[p].at = "got" /\ th[p].path # <<>>
      /\ th[p].ip \in Inums /\ th[p].dp = None /\ th[p].ln = None /\ Keeps(th[p]) = None
      /\ IsDir(th[p].ip) /\ Head(th[p].path) \in AllNames
      /\ dinode[th[p].ip].ent[Head(th[p].path)] \in Ptrs
  BY <1>1, GotFacts
<1>3. PICK o \in ThType : o = th[p]
  BY <1>2
<1>4. PICK d \in Inums : d = o.ip
  BY <1>2, <1>3
<1>5. PICK i \in Inums : i = dinode[d].ent[Head(o.path)]
  BY <1>2, <1>3, <1>4 DEF UnlinkFound, Ptrs
<1>6. PICK r : r = [o EXCEPT !.at = "target", !.ip = i, !.dp = d]
  OBVIOUS
<1>7. /\ Set(p, r) /\ ref' = Got(i) /\ lock[d] = None /\ Allocated(d)
      /\ lock' = [lock EXCEPT ![d] = p] /\ UNCHANGED <<dinode, fileVars, prog>>
      /\ Head(o.path) \in Names
  BY <1>2, <1>3, <1>4, <1>5, <1>6 DEF UnlinkFound, Lockable, Allocated, AllNames
<1>8. r \in ThType
  <2>1. "target" \in Stages /\ i \in Ptrs /\ d \in Ptrs
    BY NoInum DEF Stages
  <2> QED
    BY <1>6, <2>1 DEF ThType
<1>9. /\ r.at = "target" /\ r.ip = i /\ r.dp = d /\ r.ln = None /\ r.put = o.put
      /\ r.also = o.also /\ r.drop = o.drop /\ r.path = o.path
  BY <1>2, <1>3, <1>6 DEF ThType
<1>10. Stage(r) /\ Knows(r) /\ Keeps(r) = d
  BY <1>2, <1>3, <1>4, <1>5, <1>7, <1>9, NoInum DEF Stage, Resting, Knows, Keeps, Settled
<1>11. \A j \in Inums : Own(r, j) = Own(o, j) + One(i, j)
  BY <1>2, <1>3, <1>4, <1>9, NoInum DEF Own, One, Settled
<1>12. ref' \in [Inums -> Int] /\ \A j \in Inums : ref'[j] = ref[j] + One(i, j)
  BY <1>7, GotRef
<1>13. \A j \in Inums : ref'[j] = ref[j] + Own(r, j) - Own(th[p], j)
  BY <1>3, <1>11, <1>12, OwnType, RefType
<1>14. /\ lock' \in [Inums -> Procs \cup {None}]
       /\ \A j \in Inums : lock'[j] # None => Allocated(j)'
  BY <1>7, RefType, AllocatedSame
<1>15. LockInv'
  BY <1>2, <1>7, <1>8, <1>10, <1>14, LockTake DEF Inv
<1> QED
  BY <1>2, <1>3, <1>7, <1>8, <1>9, <1>10, <1>12, <1>13, <1>14, <1>15, QuietCall

(* unlink() refuses and puts the inode, the directory still locked.         *)
LEMMA UnlinkNotEmptyInv ==
  ASSUME Inv, NEW p \in Procs, UnlinkNotEmpty(p)
  PROVE  Inv'
<1>1. /\ th[p] \in ThType /\ Settled(th[p]) /\ Stage(th[p]) /\ th[p].at = "target"
  BY AtFacts DEF UnlinkNotEmpty
<1>2. PICK o \in ThType : o = th[p]
  BY <1>1
<1>3. /\ o.ip \in Inums /\ o.dp \in Inums /\ o.ln = None /\ Settled(o) /\ Keeps(o) = o.dp
      /\ o.at = "target"
  BY <1>1, <1>2 DEF Stage, Keeps, ThType, Ptrs
<1>4. PICK i \in Inums : i = o.ip
  BY <1>3
<1>5. PICK r : r = [o EXCEPT !.at = "notempty", !.ip = None, !.path = <<>>, !.put = i]
  OBVIOUS
<1>6. Set(p, r) /\ ref' = ref /\ UNCHANGED <<dinode, lock, fileVars, prog>>
  BY <1>2, <1>4, <1>5 DEF UnlinkNotEmpty
<1>7. r \in ThType
  <2>1. "notempty" \in Stages /\ None \in Ptrs /\ i \in Ptrs /\ <<>> \in Seq(AllNames)
    BY NoInum DEF Stages, Ptrs
  <2> QED
    BY <1>5, <2>1 DEF ThType
<1>8. /\ r.at = "notempty" /\ r.ip = None /\ r.dp = o.dp /\ r.ln = None /\ r.put = i
      /\ r.also = o.also /\ r.drop = o.drop
  BY <1>3, <1>5 DEF ThType
<1>9. Stage(r) /\ Knows(r) /\ Keeps(r) = o.dp
  BY <1>3, <1>8, NoInum DEF Stage, Resting, Knows, Keeps
<1>10. \A j \in Inums : Own(r, j) = Own(o, j)
  BY <1>3, <1>4, <1>8, NoInum DEF Own, One, Settled
<1>11. ref' \in [Inums -> Int] /\ \A j \in Inums : ref'[j] = ref[j] + Own(r, j) - Own(th[p], j)
  BY <1>2, <1>6, <1>10, OwnType, RefType
<1>12. LockInv'
  BY <1>2, <1>3, <1>6, <1>7, <1>9, LockSame, RefType, AllocatedSame DEF Inv
<1> QED
  BY <1>2, <1>3, <1>6, <1>7, <1>8, <1>9, <1>11, <1>12, QuietCall, RefType

(* unlink() then unlocks and puts the directory.                            *)
LEMMA UnlinkNotEmptyDoneInv ==
  ASSUME Inv, NEW p \in Procs, UnlinkNotEmptyDone(p)
  PROVE  Inv'
<1>1. /\ th[p] \in ThType /\ Settled(th[p]) /\ Stage(th[p]) /\ th[p].at = "notempty"
  BY AtFacts DEF UnlinkNotEmptyDone
<1>2. PICK o \in ThType : o = th[p]
  BY <1>1
<1>3. /\ o.dp \in Inums /\ o.ip = None /\ o.ln = None /\ Settled(o) /\ Keeps(o) = o.dp
      /\ o.at = "notempty"
  BY <1>1, <1>2 DEF Stage, Keeps, ThType, Ptrs
<1>4. PICK d \in Inums : d = o.dp
  BY <1>3
<1>5. PICK r : r = Return(d)
  OBVIOUS
<1>6. /\ Set(p, r) /\ ref' = ref /\ lock' = [lock EXCEPT ![d] = None]
      /\ UNCHANGED <<dinode, fileVars, prog>>
  BY <1>2, <1>4, <1>5 DEF UnlinkNotEmptyDone
<1>7. /\ r \in ThType /\ Stage(r) /\ Knows(r) /\ Keeps(r) = None
      /\ r.at = "user" /\ r.ln = None
      /\ \A j \in Inums : Own(r, j) = One(d, j)
  BY <1>5, ReturnRecord
<1>8. \A j \in Inums : Own(o, j) = One(d, j)
  BY <1>3, <1>4, NoInum DEF Own, One, Settled
<1>9. ref' \in [Inums -> Int] /\ \A j \in Inums : ref'[j] = ref[j] + Own(r, j) - Own(th[p], j)
  BY <1>2, <1>6, <1>7, <1>8, OwnType, RefType
<1>10. /\ lock' \in [Inums -> Procs \cup {None}]
       /\ \A j \in Inums : lock'[j] # None => Allocated(j)'
  BY <1>6, RefType, AllocatedSame
<1>11. LockInv'
  BY <1>2, <1>3, <1>4, <1>6, <1>7, <1>10, LockDrop DEF Inv
<1> QED
  BY <1>2, <1>3, <1>6, <1>7, <1>9, <1>10, <1>11, QuietCall

-----------------------------------------------------------------------------
(* The steps that change tables of the process or the file table.           *)

(* A step that changes a table keeps the invariant if the new counts are    *)
(* those of the new tables.                                                 *)
LEMMA TableStep ==
  ASSUME Inv, NEW p \in Procs, NEW r \in ThType, Set(p, r), Stage(r), Knows(r),
         r.ln = None, r.at # "unlinked", UNCHANGED <<dinode, prog>>,
         lock' \in [Inums -> Procs \cup {None}], LockInv', ref' \in [Inums -> Int],
         file' \in [Files -> FileType],
         ofile' \in [Procs -> [Fds -> Files \cup {None}]], cwd' \in [Procs -> Ptrs],
         TableInv',
         \A j \in Inums : ref'[j] = Users(j)' + Pointers(j) + Own(r, j) - Own(th[p], j),
         \A f \in Files : file'[f].ref = Cardinality(Descriptors(f))',
         \A q \in Procs : cwd'[q] # None => Allocated(cwd'[q]),
         \A f \in Files : file'[f].ip # None => Allocated(file'[f].ip)
  PROVE  Inv'
<1>1. TypeInv'
  BY DEF Inv, TypeInv, Set
<1>2. StageInv'
  BY DEF Inv, StageInv, Set, TypeInv
<1>3. RefCounts'
  <2>1. ASSUME NEW j \in Inums PROVE ref'[j] = (Users(j) + Pointers(j))'
    <3>1. Pointers(j) \in Int /\ Pointers(j)' = Pointers(j) + Own(r, j) - Own(th[p], j)
      BY PointersStep DEF Inv, Set, TypeInv
    <3>2. Users(j)' \in Int
      <4>1. Users(j)' \in Nat
        <5> DEFINE A == {q \in Procs : cwd'[q] = j}
                   B == {f \in Files : file'[f].ip = j}
        <5>1. IsFiniteSet(A) /\ IsFiniteSet(B)
          BY FiniteTables, FS_Subset
        <5>2. Users(j)' = Cardinality(A) + Cardinality(B)
          BY DEF Users
        <5> HIDE DEF A, B
        <5> QED
          BY <5>1, <5>2, FS_CardinalityType
      <4> QED
        BY <4>1
    <3>3. Own(r, j) \in Int /\ Own(th[p], j) \in Int
      BY OwnType
    <3> QED
      BY <3>1, <3>2, <3>3
  <2> QED
    BY <2>1 DEF RefCounts, Descriptors
<1>4. LinkInv' /\ TreeInv' /\ \A q \in Procs : Knows(th[q])'
  BY QuietStep DEF Inv
<1>5. KnowsInv'
  BY <1>4 DEF KnowsInv, Allocated
<1> QED
  BY <1>1, <1>2, <1>3, <1>4, <1>5 DEF Inv

(* What the invariant says of the tables.                                   *)
LEMMA TableFacts ==
  ASSUME Inv
  PROVE  /\ ofile \in [Procs -> [Fds -> Files \cup {None}]]
         /\ file \in [Files -> FileType] /\ cwd \in [Procs -> Ptrs]
         /\ th \in [Procs -> ThType]
         /\ \A j \in Inums : /\ ref[j] = Users(j) + Pointers(j)
                             /\ Users(j) \in Int /\ Pointers(j) \in Int
         /\ \A f \in Files : file[f].ref = Cardinality(Descriptors(f))
         /\ \A f \in Files : file[f].ref \in Nat
         /\ None \notin Files /\ None \notin Procs
         /\ \A q \in Procs : cwd[q] # None => Allocated(cwd[q])
         /\ \A f \in Files : file[f].ip # None => Allocated(file[f].ip)
<1>1. \A f \in Files : file[f].ref = Cardinality(Descriptors(f))
  BY DEF Inv, RefCounts, Descriptors
<1>2. \A f \in Files : file[f].ref \in Nat
  BY <1>1, DescriptorsFinite
<1>3. ASSUME NEW j \in Inums PROVE Users(j) \in Int /\ Pointers(j) \in Int
  <2>1. Users(j) \in Nat
    BY UsersType, Zenon
  <2> DEFINE C(v) == Cardinality({q \in Procs : th[q][v] = j})
  <2>2. ASSUME NEW v PROVE C(v) \in Nat
    <3>1. IsFiniteSet({q \in Procs : th[q][v] = j})
      BY FiniteTables, FS_Subset
    <3> QED
      BY <3>1, FS_CardinalityType
  <2>3. Pointers(j) = C("ip") + C("dp") + C("ln") + C("put") + C("also") + C("drop")
    BY DEF Pointers
  <2> HIDE DEF C
  <2>4. Pointers(j) \in Int
    BY <2>2, <2>3
  <2> QED
    BY <2>1, <2>4
<1>4. None \notin Files /\ None \notin Procs
  BY SizeAssumption DEF Files, Procs, None
<1>5. \A j \in Inums : ref[j] = Users(j) + Pointers(j)
  BY DEF Inv, RefCounts
<1>6. /\ \A q \in Procs : cwd[q] # None => Allocated(cwd[q])
      /\ \A f \in Files : file[f].ip # None => Allocated(file[f].ip)
  BY DEF Inv, KnowsInv
<1>7. /\ ofile \in [Procs -> [Fds -> Files \cup {None}]] /\ file \in [Files -> FileType]
      /\ cwd \in [Procs -> Ptrs] /\ th \in [Procs -> ThType]
  BY DEF Inv, TypeInv
<1> QED
  BY <1>1, <1>2, <1>3, <1>4, <1>5, <1>6, <1>7

(* The tail of open() has the record of a call that is over.                *)
LEMMA OpenTailRecord ==
  ASSUME NEW p \in Procs, NEW i \in Inums, OpenTail(p, i) \/ Set(p, Return(i))
  PROVE  \E r \in ThType : Set(p, r) /\ Keeps(r) = None
BY IdleRecord, ReturnRecord DEF OpenTail

(* filealloc() and fdalloc(): the reference moves from the call to the      *)
(* file, or is put.                                                         *)
LEMMA OpenTailInv ==
  ASSUME Inv, NEW p \in Procs, NEW i \in Inums,
         Settled(th[p]), th[p].ip = i, th[p].dp = None, th[p].ln = None,
         th[p].at # "dead", Allocated(i),
         OpenTail(p, i) \/ (Set(p, Return(i)) /\ UNCHANGED <<file, ofile>>),
         UNCHANGED <<dinode, ref, cwd, prog>>,
         lock' \in [Inums -> Procs \cup {None}], LockInv'
  PROVE  Inv'
<1>1. \A j \in Inums : Own(th[p], j) = One(i, j)
  BY NoInum DEF Own, One, Settled
<1>2. CASE Set(p, Return(i)) /\ UNCHANGED <<file, ofile>>
  <2>1. PICK r : r = Return(i)
    OBVIOUS
  <2>2. /\ r \in ThType /\ Stage(r) /\ Knows(r)
        /\ r.at = "user" /\ r.ln = None
        /\ \A j \in Inums : Own(r, j) = One(i, j)
    BY <2>1, ReturnRecord
  <2>3. ref' \in [Inums -> Int] /\ \A j \in Inums : ref'[j] = ref[j] + Own(r, j) - Own(th[p], j)
    BY <1>1, <2>2, OwnType, RefType
  <2>4. Set(p, r) /\ UNCHANGED <<dinode, fileVars, prog>>
    BY <1>2, <2>1 DEF fileVars
  <2> QED
    BY <2>2, <2>3, <2>4, QuietCall
<1>3. CASE \E f \in Files, d \in Fds :
             /\ IsFirst(f, FreeFiles) /\ IsFirst(d, FreeFds(p))
             /\ file' = [file EXCEPT ![f] = [ref |-> 1, ip |-> i]]
             /\ ofile' = [ofile EXCEPT ![p][d] = f]
             /\ Set(p, Idle)
  <2>1. PICK f \in Files, d \in Fds :
             /\ IsFirst(f, FreeFiles) /\ IsFirst(d, FreeFds(p))
             /\ file' = [file EXCEPT ![f] = [ref |-> 1, ip |-> i]]
             /\ ofile' = [ofile EXCEPT ![p][d] = f]
             /\ Set(p, Idle)
    BY <1>3
  <2>2. file[f].ref = 0 /\ ofile[p][d] = None /\ file[f].ip = None
    BY <2>1 DEF IsFirst, FreeFiles, FreeFds, Inv, TableInv
  <2>3. PICK e : e = [ref |-> 1, ip |-> i]
    OBVIOUS
  <2>4. e \in FileType /\ e.ref = 1 /\ e.ip = i
    BY <2>3, NoInum DEF FileType
  <2>5. /\ file' = [file EXCEPT ![f] = e] /\ file' \in [Files -> FileType]
        /\ ofile' \in [Procs -> [Fds -> Files \cup {None}]] /\ cwd' \in [Procs -> Ptrs]
    BY <2>1, <2>3, <2>4, TableFacts
  <2>6. TableInv'
    <3>1. Idle.at = "user" /\ th'[p] = Idle
      BY <2>1, IdleRecord, TableFacts DEF Set
    <3>2. \A q \in Procs : cwd'[q] = None <=> th'[q].at = "dead"
      BY <2>1, <3>1, TableFacts DEF Inv, TableInv, Set
    <3>3. \A q \in Procs, c \in Fds : th'[q].at = "dead" => ofile'[q][c] = None
      BY <2>1, <3>1, TableFacts DEF Inv, TableInv, Set
    <3>4. \A g \in Files : file'[g].ref = 0 <=> file'[g].ip = None
      BY <2>4, <2>5, TableFacts, NoInum DEF Inv, TableInv
    <3> QED
      BY <3>2, <3>3, <3>4 DEF TableInv
  <2>7. ASSUME NEW j \in Inums
        PROVE  ref'[j] = Users(j)' + Pointers(j) + Own(Idle, j) - Own(th[p], j)
    <3>1. Users(j)' = Users(j) - One(file[f].ip, j) + One(e.ip, j)
      BY <2>5, FileStep, TableFacts
    <3>2. One(file[f].ip, j) = 0 /\ Own(Idle, j) = 0 /\ Own(th[p], j) = One(i, j)
      BY <1>1, <2>2, NoInum, IdleRecord DEF One
    <3> QED
      BY <2>4, <3>1, <3>2, OwnType, TableFacts
  <2>8. ASSUME NEW g \in Files PROVE file'[g].ref = Cardinality(Descriptors(g))'
    <3>1. Cardinality(Descriptors(g))' =
            Cardinality(Descriptors(g)) - One(ofile[p][d], g) + One(f, g)
      <4>1. ofile \in [Procs -> [Fds -> Files \cup {None}]]
        BY TableFacts
      <4>2. \A q \in Procs, c \in Fds :
              ofile'[q][c] = IF q = p /\ c = d THEN f ELSE ofile[q][c]
        BY <2>1, <4>1
      <4> QED
        BY <4>2, DescriptorStep
    <3>2. One(ofile[p][d], g) = 0
      BY <2>2, TableFacts DEF One
    <3>3. Cardinality(Descriptors(g)) = file[g].ref /\ file[g].ref \in Nat
      BY TableFacts
    <3>4. file'[g].ref = file[g].ref + One(f, g)
      <4>1. CASE g = f
        BY <2>2, <2>4, <2>5, <4>1, TableFacts DEF One
      <4>2. CASE g # f
        <5>1. file'[g] = file[g] /\ One(f, g) = 0
          BY <2>5, <4>2, TableFacts DEF One
        <5> QED
          BY <3>3, <5>1
      <4> QED
        BY <4>1, <4>2
    <3> QED
      BY <3>1, <3>2, <3>3, <3>4, OwnType
  <2>9. /\ \A q \in Procs : cwd'[q] # None => Allocated(cwd'[q])
        /\ \A g \in Files : file'[g].ip # None => Allocated(file'[g].ip)
    BY <2>4, <2>5, TableFacts
  <2>10. ref' \in [Inums -> Int]
    BY RefType
  <2>11. Idle.ln = None /\ Idle.at # "unlinked"
    BY IdleRecord
  <2> QED
    BY <2>1, <2>5, <2>6, <2>7, <2>8, <2>9, <2>10, <2>11, TableStep, IdleRecord
<1> QED
  BY <1>2, <1>3 DEF OpenTail

(* open() of an existing inode.                                             *)
LEMMA OpenFoundInv ==
  ASSUME Inv, NEW p \in Procs, OpenFound(p)
  PROVE  Inv'
<1>1. /\ th[p] \in ThType /\ Settled(th[p]) /\ Stage(th[p]) /\ th[p].at = "got"
      /\ th[p].call # "link"
  BY AtFacts DEF OpenFound
<1>2. /\ th[p].ip \in Inums /\ th[p].dp = None /\ th[p].ln = None /\ Keeps(th[p]) = None
  BY <1>1 DEF Stage, Keeps, ThType, Ptrs
<1>3. PICK i \in Inums : i = th[p].ip
  BY <1>2
<1>4. /\ OpenTail(p, i) \/ (Set(p, Return(i)) /\ UNCHANGED <<file, ofile>>)
      /\ Allocated(i) /\ UNCHANGED <<dinode, ref, lock, cwd, prog>>
  BY <1>3 DEF OpenFound, Lockable, Allocated
<1>5. LockInv'
  <2>1. PICK r \in ThType : Set(p, r) /\ Keeps(r) = None
    BY <1>4, OpenTailRecord
  <2> QED
    BY <1>2, <1>4, <2>1, LockSame, RefType, AllocatedSame DEF Inv
<1> QED
  BY <1>1, <1>2, <1>3, <1>4, <1>5, OpenTailInv, RefType

(* open() with O_CREATE, mkdir() and mknod() of an existing inode.          *)
LEMMA CreateExistsInv ==
  ASSUME Inv, NEW p \in Procs, CreateExists(p)
  PROVE  Inv'
<1>1. /\ th[p] \in ThType /\ Settled(th[p]) /\ Stage(th[p]) /\ th[p].at = "exists"
  BY AtFacts DEF CreateExists
<1>2. /\ th[p].ip \in Inums /\ th[p].dp = None /\ th[p].ln = None /\ Keeps(th[p]) = None
  BY <1>1 DEF Stage, Keeps, ThType, Ptrs
<1>3. PICK i \in Inums : i = th[p].ip
  BY <1>2
<1>4. /\ OpenTail(p, i) \/ (Set(p, Return(i)) /\ UNCHANGED <<file, ofile>>)
      /\ Allocated(i) /\ UNCHANGED <<dinode, ref, lock, cwd, prog>>
  BY <1>3 DEF CreateExists, Lockable, Allocated
<1>5. LockInv'
  <2>1. PICK r \in ThType : Set(p, r) /\ Keeps(r) = None
    BY <1>4, OpenTailRecord
  <2> QED
    BY <1>2, <1>4, <2>1, LockSame, RefType, AllocatedSame DEF Inv
<1> QED
  BY <1>1, <1>2, <1>3, <1>4, <1>5, OpenTailInv, RefType

(* open() with O_CREATE, mkdir() and mknod() of the new inode, which stops  *)
(* being locked.                                                            *)
LEMMA CreateDoneInv ==
  ASSUME Inv, NEW p \in Procs, CreateDone(p)
  PROVE  Inv'
<1>1. /\ th[p] \in ThType /\ Settled(th[p]) /\ Stage(th[p]) /\ Knows(th[p])
      /\ th[p].at = "made"
  BY AtFacts DEF CreateDone
<1>2. /\ th[p].ip \in Inums /\ th[p].dp = None /\ th[p].ln = None
      /\ Keeps(th[p]) = th[p].ip /\ Allocated(th[p].ip)
  BY <1>1 DEF Stage, Knows, Keeps, ThType, Ptrs
<1>3. PICK i \in Inums : i = th[p].ip
  BY <1>2
<1>4. /\ OpenTail(p, i) \/ (Set(p, Return(i)) /\ UNCHANGED <<file, ofile>>)
      /\ lock' = [lock EXCEPT ![i] = None] /\ UNCHANGED <<dinode, ref, cwd, prog>>
  BY <1>3 DEF CreateDone
<1>5. /\ lock' \in [Inums -> Procs \cup {None}]
      /\ \A j \in Inums : lock'[j] # None => Allocated(j)'
  BY <1>4, RefType, AllocatedSame
<1>6. LockInv'
  <2>1. PICK r \in ThType : Set(p, r) /\ Keeps(r) = None
    BY <1>4, OpenTailRecord
  <2> QED
    BY <1>2, <1>3, <1>4, <1>5, <2>1, LockDrop DEF Inv
<1> QED
  BY <1>1, <1>2, <1>3, <1>4, <1>5, <1>6, OpenTailInv

(* chdir() exchanges the current directory and puts the old one.            *)
LEMMA ChdirInv ==
  ASSUME Inv, NEW p \in Procs, Chdir(p)
  PROVE  Inv'
<1>1. /\ th[p] \in ThType /\ Settled(th[p]) /\ Stage(th[p]) /\ th[p].at = "got"
      /\ th[p].call # "link"
  BY AtFacts DEF Chdir
<1>2. /\ th[p].ip \in Inums /\ th[p].dp = None /\ th[p].ln = None /\ Keeps(th[p]) = None
  BY <1>1 DEF Stage, Keeps, ThType, Ptrs
<1>3. PICK i \in Inums : i = th[p].ip
  BY <1>2
<1>4. PICK c \in Inums : c = cwd[p]
  BY <1>1 DEF Inv, TableInv, TypeInv, Ptrs
<1>5. \A j \in Inums : Own(th[p], j) = One(i, j)
  BY <1>1, <1>2, <1>3, NoInum DEF Own, One, Settled
<1>6. /\ Allocated(i) /\ UNCHANGED <<dinode, ref, lock, file, ofile, prog>>
      /\ \/ Set(p, Return(c)) /\ cwd' = [cwd EXCEPT ![p] = i]
         \/ Set(p, Return(i)) /\ cwd' = cwd
  BY <1>3, <1>4 DEF Chdir, Lockable, Allocated
<1>7. CASE Set(p, Return(i)) /\ cwd' = cwd
  <2>1. LockInv'
    BY <1>2, <1>6, <1>7, ReturnRecord, LockSame, RefType, AllocatedSame DEF Inv
  <2> QED
    BY <1>1, <1>2, <1>3, <1>6, <1>7, <2>1, OpenTailInv, RefType
<1>8. CASE Set(p, Return(c)) /\ cwd' = [cwd EXCEPT ![p] = i]
  <2>1. PICK r : r = Return(c)
    OBVIOUS
  <2>2. /\ r \in ThType /\ Stage(r) /\ Knows(r) /\ Keeps(r) = None
        /\ r.at = "user" /\ r.ln = None /\ Set(p, r)
        /\ \A j \in Inums : Own(r, j) = One(c, j)
    BY <1>8, <2>1, ReturnRecord
  <2>3. LockInv'
    BY <1>2, <1>6, <2>2, LockSame, RefType, AllocatedSame DEF Inv
  <2>4. cwd' \in [Procs -> Ptrs]
    BY <1>8, TableFacts, NoInum
  <2>5. TableInv'
    BY <1>1, <1>6, <1>8, <2>2, TableFacts, NoInum DEF Inv, TableInv, Set
  <2>6. ASSUME NEW j \in Inums
        PROVE  ref'[j] = Users(j)' + Pointers(j) + Own(r, j) - Own(th[p], j)
    <3>1. Users(j)' = Users(j) - One(cwd[p], j) + One(i, j)
      BY <1>6, <1>8, CwdStep, TableFacts
    <3> QED
      BY <1>4, <1>5, <1>6, <2>2, <3>1, OwnType, TableFacts
  <2>7. \A f \in Files : file'[f].ref = Cardinality(Descriptors(f))'
    BY <1>6, TableFacts DEF Descriptors
  <2>8. /\ \A q \in Procs : cwd'[q] # None => Allocated(cwd'[q])
        /\ \A f \in Files : file'[f].ip # None => Allocated(file'[f].ip)
    BY <1>6, <1>8, TableFacts
  <2>9. /\ file' \in [Files -> FileType] /\ lock' \in [Inums -> Procs \cup {None}]
        /\ ofile' \in [Procs -> [Fds -> Files \cup {None}]] /\ ref' \in [Inums -> Int]
    BY <1>6, TableFacts, RefType
  <2> QED
    BY <1>6, <2>2, <2>3, <2>4, <2>5, <2>6, <2>7, <2>8, <2>9, TableStep
<1> QED
  BY <1>6, <1>7, <1>8

(* close(): the reference of the file's last descriptor goes to iput().     *)
LEMMA CloseInv ==
  ASSUME Inv, NEW p \in Procs, NEW d \in Fds, Close(p, d)
  PROVE  Inv'
<1>1. /\ th[p] \in ThType /\ Settled(th[p]) /\ Stage(th[p]) /\ Knows(th[p])
      /\ th[p].at \in {"user", "exiting"}
  BY AtFacts DEF Close
<1>2. /\ th[p].ip = None /\ th[p].dp = None /\ th[p].ln = None
      /\ Keeps(th[p]) = None
  BY <1>1 DEF Stage, Resting, Keeps
<1>3. PICK f \in Files : f = ofile[p][d]
  BY TableFacts DEF Close
<1>4. /\ ofile' = [ofile EXCEPT ![p][d] = None]
      /\ UNCHANGED <<dinode, ref, lock, cwd, prog>>
      /\ \/ /\ file[f].ref > 1
            /\ file' = [file EXCEPT ![f].ref = @ - 1] /\ th' = th
         \/ /\ ~(file[f].ref > 1)
            /\ file' = [file EXCEPT ![f] = [ref |-> 0, ip |-> None]]
            /\ Set(p, [th[p] EXCEPT !.put = file[f].ip])
  BY <1>3 DEF Close
<1>5. file[f].ref \in Nat /\ file[f].ref # 0 /\ file[f].ip \in Inums
  <2>1. <<p, d>> \in Descriptors(f)
    BY <1>3 DEF Descriptors
  <2>2. IsFiniteSet(Descriptors(f)) /\ Descriptors(f) # {}
    BY <2>1, DescriptorsFinite
  <2>3. Cardinality(Descriptors(f)) # 0
    BY <2>2, FS_EmptySet
  <2>4. file[f].ref = Cardinality(Descriptors(f)) /\ file[f].ref \in Nat
    BY TableFacts
  <2>5. file[f].ip # None /\ file[f] \in FileType
    BY <2>3, <2>4, TableFacts DEF Inv, TableInv
  <2> QED
    BY <2>3, <2>4, <2>5 DEF FileType, Ptrs
<1>6. ofile' \in [Procs -> [Fds -> Files \cup {None}]] /\ cwd' \in [Procs -> Ptrs]
  BY <1>4, TableFacts
<1>7. ASSUME NEW g \in Files
      PROVE  Cardinality(Descriptors(g))' = file[g].ref - One(f, g)
  <2>1. \A q \in Procs, c \in Fds :
          ofile'[q][c] = IF q = p /\ c = d THEN None ELSE ofile[q][c]
    BY <1>4, TableFacts
  <2>2. Cardinality(Descriptors(g))' =
          Cardinality(Descriptors(g)) - One(ofile[p][d], g) + One(None, g)
    BY <2>1, DescriptorStep
  <2>3. One(None, g) = 0 /\ Cardinality(Descriptors(g)) = file[g].ref /\ file[g].ref \in Nat
    BY TableFacts DEF One
  <2>4. One(ofile[p][d], g) = One(f, g) /\ One(f, g) \in Int
    BY <1>3, OwnType
  <2> QED
    BY <2>2, <2>3, <2>4
<1>8. ASSUME NEW r \in ThType, NEW e \in FileType, Set(p, r), Stage(r), Knows(r),
             Keeps(r) = None, r.ln = None, r.at = th[p].at,
             file' = [file EXCEPT ![f] = e], e.ref = file[f].ref - 1,
             e.ip \in {None, file[f].ip}, e.ref = 0 <=> e.ip = None,
             \A j \in Inums : Own(r, j) + One(e.ip, j) = One(file[f].ip, j)
      PROVE  Inv'
  <2>1. \A j \in Inums : Own(th[p], j) = 0
    BY <1>1, <1>2, NoInum DEF Own, One, Settled
  <2>2. LockInv'
    BY <1>2, <1>4, <1>8, LockSame, RefType, AllocatedSame DEF Inv
  <2>3. file' \in [Files -> FileType]
    BY <1>8, TableFacts
  <2>4. TableInv'
    <3>1. \A q \in Procs : th'[q].at = th[q].at
      BY <1>8, TableFacts DEF Set
    <3>2. \A q \in Procs : cwd'[q] = None <=> th'[q].at = "dead"
      BY <1>4, <3>1 DEF Inv, TableInv
    <3>3. \A q \in Procs, c \in Fds : th'[q].at = "dead" => ofile'[q][c] = None
      BY <1>4, <3>1, TableFacts DEF Inv, TableInv
    <3>4. \A g \in Files : file'[g].ref = 0 <=> file'[g].ip = None
      BY <1>8, TableFacts DEF Inv, TableInv
    <3> QED
      BY <3>2, <3>3, <3>4 DEF TableInv
  <2>5. ASSUME NEW j \in Inums
        PROVE  ref'[j] = Users(j)' + Pointers(j) + Own(r, j) - Own(th[p], j)
    <3>1. Users(j)' = Users(j) - One(file[f].ip, j) + One(e.ip, j)
      <4>1. file \in [Files -> FileType] /\ cwd' = cwd /\ file' = [file EXCEPT ![f] = e]
        BY <1>4, <1>8, TableFacts
      <4> QED
        BY <4>1, FileStep
    <3>2. Own(r, j) + One(e.ip, j) = One(file[f].ip, j) /\ Own(th[p], j) = 0
      BY <1>8, <2>1
    <3>3. ref'[j] = Users(j) + Pointers(j) /\ Users(j) \in Int /\ Pointers(j) \in Int
      BY <1>4, TableFacts
    <3>4. Own(r, j) \in Int /\ One(e.ip, j) \in Int /\ One(file[f].ip, j) \in Int
      BY OwnType
    <3> QED
      BY <3>1, <3>2, <3>3, <3>4
  <2>6. ASSUME NEW g \in Files PROVE file'[g].ref = Cardinality(Descriptors(g))'
    <3>1. CASE g = f
      BY <1>5, <1>7, <1>8, <3>1, TableFacts DEF One
    <3>2. CASE g # f
      <4>1. file'[g] = file[g] /\ One(f, g) = 0 /\ file[g].ref \in Nat
        BY <1>8, <3>2, TableFacts DEF One
      <4> QED
        BY <1>7, <4>1
    <3> QED
      BY <3>1, <3>2
  <2>7. /\ \A q \in Procs : cwd'[q] # None => Allocated(cwd'[q])
        /\ \A g \in Files : file'[g].ip # None => Allocated(file'[g].ip)
    BY <1>4, <1>8, TableFacts
  <2>8. r.at # "unlinked" /\ lock' \in [Inums -> Procs \cup {None}] /\ ref' \in [Inums -> Int]
    BY <1>1, <1>4, <1>8, RefType
  <2> QED
    BY <1>4, <1>6, <1>8, <2>2, <2>3, <2>4, <2>5, <2>6, <2>7, <2>8, TableStep
<1>9. CASE /\ file[f].ref > 1
           /\ file' = [file EXCEPT ![f].ref = @ - 1] /\ th' = th
  <2>1. PICK e : e = [file[f] EXCEPT !.ref = @ - 1]
    OBVIOUS
  <2>2. file[f] \in FileType
    BY TableFacts
  <2>3. e \in FileType /\ e.ref = file[f].ref - 1 /\ e.ip = file[f].ip
    BY <1>5, <2>1, <2>2 DEF FileType
  <2>4. file' = [file EXCEPT ![f] = e] /\ Set(p, th[p])
    BY <1>9, <2>1, TableFacts DEF Set
  <2>5. e.ref # 0 /\ e.ip # None
    BY <1>5, <1>9, <2>3, NoInum
  <2>6. \A j \in Inums : Own(th[p], j) + One(e.ip, j) = One(file[f].ip, j)
    BY <1>1, <1>2, <2>3, NoInum DEF Own, One, Settled
  <2> QED
    BY <1>1, <1>2, <1>8, <2>3, <2>4, <2>5, <2>6
<1>10. CASE /\ ~(file[f].ref > 1)
            /\ file' = [file EXCEPT ![f] = [ref |-> 0, ip |-> None]]
            /\ Set(p, [th[p] EXCEPT !.put = file[f].ip])
  <2>1. PICK e : e = [ref |-> 0, ip |-> None]
    OBVIOUS
  <2>2. PICK i \in Inums : i = file[f].ip
    BY <1>5
  <2>3. PICK r : r = [th[p] EXCEPT !.put = i]
    OBVIOUS
  <2>4. e \in FileType /\ e.ref = 0 /\ e.ip = None /\ file[f].ref = 1
    BY <1>5, <1>10, <2>1 DEF FileType, Ptrs
  <2>5. r \in ThType
    BY <1>1, <2>3, NoInum DEF ThType
  <2>6. /\ r.at = th[p].at /\ r.ip = None /\ r.dp = None /\ r.ln = None /\ r.put = i
        /\ r.also = None /\ r.drop = None
    BY <1>1, <1>2, <2>3 DEF ThType, Settled
  <2>7. Stage(r) /\ Knows(r) /\ Keeps(r) = None
    BY <1>1, <2>6, NoInum DEF Stage, Resting, Knows, Keeps
  <2>8. \A j \in Inums : Own(r, j) + One(e.ip, j) = One(file[f].ip, j)
    BY <2>2, <2>4, <2>6, NoInum DEF Own, One
  <2>9. file' = [file EXCEPT ![f] = e] /\ Set(p, r)
    BY <1>10, <2>1, <2>2, <2>3
  <2>10. /\ e.ref = file[f].ref - 1 /\ e.ip \in {None, file[f].ip}
         /\ e.ref = 0 <=> e.ip = None
    BY <2>4
  <2> QED
    BY <1>8, <2>4, <2>5, <2>6, <2>7, <2>8, <2>9, <2>10
<1> QED
  BY <1>4, <1>9, <1>10

(* dup(): one more descriptor, one more reference to the file.              *)
LEMMA SysDupInv ==
  ASSUME Inv, NEW p \in Procs, NEW d \in Fds, SysDup(p, d)
  PROVE  Inv'
<1>1. /\ th[p] \in ThType /\ Settled(th[p]) /\ Stage(th[p]) /\ Knows(th[p])
      /\ th[p].at = "user"
  BY AtFacts DEF SysDup
<1>2. /\ th[p].ln = None /\ Keeps(th[p]) = None
  BY <1>1 DEF Stage, Resting, Keeps
<1>3. PICK f \in Files : f = ofile[p][d]
  BY TableFacts DEF SysDup
<1>4. PICK c \in Fds : ofile[p][c] = None /\ ofile' = [ofile EXCEPT ![p][c] = f]
  BY <1>3 DEF SysDup, IsFirst, FreeFds
<1>5. /\ file' = [file EXCEPT ![f].ref = @ + 1]
      /\ UNCHANGED <<dinode, ref, lock, cwd, th, prog>>
  BY <1>3 DEF SysDup
<1>6. PICK e : e = [file[f] EXCEPT !.ref = @ + 1]
  OBVIOUS
<1>7. file[f] \in FileType /\ file[f].ref \in Nat
  BY TableFacts
<1>8. e \in FileType /\ e.ref = file[f].ref + 1 /\ e.ip = file[f].ip
  BY <1>6, <1>7 DEF FileType
<1>9. file' = [file EXCEPT ![f] = e] /\ Set(p, th[p]) /\ file' \in [Files -> FileType]
  BY <1>5, <1>6, <1>8, TableFacts DEF Set
<1>10. ofile' \in [Procs -> [Fds -> Files \cup {None}]]
  BY <1>4, TableFacts
<1>11. file[f].ref # 0
  <2>1. <<p, d>> \in Descriptors(f)
    BY <1>3 DEF Descriptors
  <2>2. IsFiniteSet(Descriptors(f)) /\ Descriptors(f) # {}
    BY <2>1, DescriptorsFinite
  <2>3. Cardinality(Descriptors(f)) # 0
    BY <2>2, FS_EmptySet
  <2> QED
    BY <2>3, TableFacts
<1>12. TableInv'
  <2>1. \A q \in Procs : cwd'[q] = None <=> th'[q].at = "dead"
    BY <1>5 DEF Inv, TableInv
  <2>2. \A q \in Procs, x \in Fds : th'[q].at = "dead" => ofile'[q][x] = None
    BY <1>1, <1>4, <1>5, TableFacts DEF Inv, TableInv
  <2>3. \A g \in Files : file'[g].ref = 0 <=> file'[g].ip = None
    BY <1>7, <1>8, <1>9, <1>11, TableFacts DEF Inv, TableInv
  <2> QED
    BY <2>1, <2>2, <2>3 DEF TableInv
<1>13. ASSUME NEW j \in Inums
       PROVE  ref'[j] = Users(j)' + Pointers(j) + Own(th[p], j) - Own(th[p], j)
  <2>1. Users(j)' = Users(j) - One(file[f].ip, j) + One(e.ip, j)
    <3>1. file \in [Files -> FileType] /\ cwd' = cwd /\ file' = [file EXCEPT ![f] = e]
      BY <1>5, <1>9, TableFacts
    <3> QED
      BY <3>1, FileStep
  <2> QED
    BY <1>5, <1>8, <2>1, OwnType, TableFacts
<1>14. ASSUME NEW g \in Files PROVE file'[g].ref = Cardinality(Descriptors(g))'
  <2>1. \A q \in Procs, x \in Fds :
          ofile'[q][x] = IF q = p /\ x = c THEN f ELSE ofile[q][x]
    BY <1>4, TableFacts
  <2>2. Cardinality(Descriptors(g))' =
          Cardinality(Descriptors(g)) - One(ofile[p][c], g) + One(f, g)
    BY <2>1, DescriptorStep
  <2>3. One(ofile[p][c], g) = 0 /\ Cardinality(Descriptors(g)) = file[g].ref /\ file[g].ref \in Nat
    BY <1>4, TableFacts DEF One
  <2>4. CASE g = f
    BY <1>8, <1>9, <2>2, <2>3, <2>4, TableFacts DEF One
  <2>5. CASE g # f
    <3>1. file'[g] = file[g] /\ One(f, g) = 0
      BY <1>9, <2>5, TableFacts DEF One
    <3> QED
      BY <2>2, <2>3, <3>1
  <2> QED
    BY <2>4, <2>5
<1>15. /\ \A q \in Procs : cwd'[q] # None => Allocated(cwd'[q])
       /\ \A g \in Files : file'[g].ip # None => Allocated(file'[g].ip)
  BY <1>5, <1>8, <1>9, TableFacts
<1>16. LockInv'
  BY <1>1, <1>2, <1>5, <1>9, LockSame, RefType, AllocatedSame DEF Inv
<1>17. /\ lock' \in [Inums -> Procs \cup {None}] /\ ref' \in [Inums -> Int]
       /\ cwd' \in [Procs -> Ptrs]
  BY <1>5, RefType, TableFacts
<1> QED
  BY <1>1, <1>2, <1>5, <1>9, <1>10, <1>12, <1>13, <1>14, <1>15, <1>16, <1>17, TableStep

(* fork(): as many references more as the child has descriptors, and one    *)
(* for its current directory.                                               *)
LEMMA ForkInv ==
  ASSUME Inv, NEW p \in Procs, NEW q \in Procs, Fork(p, q)
  PROVE  Inv'
<1>1. /\ th[p].at = "user"
      /\ th[q] \in ThType /\ Settled(th[q]) /\ Stage(th[q]) /\ th[q].at = "dead"
  BY AtFacts DEF Fork
<1>2. /\ p # q /\ th[q].ip = None /\ th[q].dp = None /\ th[q].ln = None
      /\ Keeps(th[q]) = None
  BY <1>1 DEF Stage, Resting, Keeps
<1>3. PICK c \in Inums : c = cwd[p]
  BY <1>1 DEF Inv, TableInv, TypeInv, Ptrs
<1>4. cwd[q] = None /\ \A d \in Fds : ofile[q][d] = None
  BY <1>1 DEF Inv, TableInv
<1>5. /\ ofile' = [ofile EXCEPT ![q] = ofile[p]] /\ cwd' = [cwd EXCEPT ![q] = c]
      /\ file' = [f \in Files |-> [file[f] EXCEPT !.ref = @ + Cardinality(FdsOf(p, f))]]
      /\ ref' = Got(c) /\ Set(q, Idle) /\ UNCHANGED <<dinode, lock, prog>>
  BY <1>3 DEF Fork
<1>6. ASSUME NEW f \in Files
      PROVE  IsFiniteSet(FdsOf(p, f)) /\ Cardinality(FdsOf(p, f)) \in Nat
  BY FiniteTables, FS_Subset, FS_CardinalityType DEF FdsOf
<1>7. ASSUME NEW f \in Files
      PROVE  /\ file'[f] \in FileType /\ file'[f].ip = file[f].ip
             /\ file'[f].ref = file[f].ref + Cardinality(FdsOf(p, f))
  <2>1. file[f] \in FileType /\ file[f].ref \in Nat
    BY TableFacts
  <2> QED
    BY <1>5, <1>6, <2>1 DEF FileType
<1>8. /\ file' \in [Files -> FileType] /\ cwd' \in [Procs -> Ptrs]
      /\ ofile' \in [Procs -> [Fds -> Files \cup {None}]]
  BY <1>3, <1>5, <1>7, TableFacts, NoInum
<1>9. ASSUME NEW f \in Files PROVE file'[f].ref = Cardinality(Descriptors(f))'
  <2> DEFINE A == Descriptors(f)
             B == {q} \X FdsOf(p, f)
  <2>1. Descriptors(f)' = A \cup B
    <3>1. \A x \in Procs, y \in Fds : ofile'[x][y] = IF x = q THEN ofile[p][y] ELSE ofile[x][y]
      BY <1>5, TableFacts
    <3>2. f # None
      BY TableFacts
    <3> QED
      BY <1>4, <3>1, <3>2 DEF Descriptors, FdsOf
  <2>2. A \cap B = {}
    <3>1. f # None
      BY TableFacts
    <3> QED
      BY <1>4, <3>1 DEF Descriptors, FdsOf
  <2>3. IsFiniteSet(A)
    BY DescriptorsFinite
  <2>4. IsFiniteSet({q}) /\ Cardinality({q}) = 1
    BY FS_Singleton
  <2>5. IsFiniteSet(B) /\ Cardinality(B) = 1 * Cardinality(FdsOf(p, f))
    BY <1>6, <2>4, FS_Product
  <2>6. Cardinality({}) = 0
    BY FS_EmptySet
  <2>7. Cardinality(A) = file[f].ref /\ file[f].ref \in Nat
    BY TableFacts
  <2> HIDE DEF A, B
  <2>8. Cardinality(A \cup B) = Cardinality(A) + Cardinality(B) - Cardinality(A \cap B)
    BY <2>3, <2>5, FS_Union
  <2>9. Cardinality(Descriptors(f))' = Cardinality(A \cup B)
    BY <2>1
  <2>10. PICK k \in Nat : k = Cardinality(FdsOf(p, f))
    BY <1>6
  <2>11. Cardinality(B) = k /\ Cardinality(A \cap B) = 0
    <3>1. Cardinality(A \cap B) = 0
      BY <2>2, <2>6, Zenon
    <3>2. Cardinality(B) = 1 * k
      BY <2>5, <2>10, Zenon
    <3>3. 1 * k = k
      OBVIOUS
    <3> QED
      BY <3>1, <3>2, <3>3
  <2>12. file'[f].ref = file[f].ref + k
    BY <1>7, <2>10
  <2> QED
    BY <2>7, <2>8, <2>9, <2>11, <2>12
<1>10. TableInv'
  <2>1. Idle.at = "user" /\ th'[q] = Idle /\ \A x \in Procs : x # q => th'[x] = th[x]
    BY <1>5, IdleRecord, TableFacts DEF Set
  <2>2. \A x \in Procs : cwd'[x] = None <=> th'[x].at = "dead"
    BY <1>5, <2>1, TableFacts, NoInum DEF Inv, TableInv
  <2>3. \A x \in Procs, y \in Fds : th'[x].at = "dead" => ofile'[x][y] = None
    BY <1>5, <2>1, TableFacts DEF Inv, TableInv
  <2>4. ASSUME NEW f \in Files PROVE file'[f].ref = 0 <=> file'[f].ip = None
    <3>1. file[f].ref = 0 => Cardinality(FdsOf(p, f)) = 0
      <4>1. CASE file[f].ref = 0
        <5>1. IsFiniteSet(Descriptors(f)) /\ Cardinality(Descriptors(f)) = 0
          BY <4>1, TableFacts, DescriptorsFinite
        <5>2. Descriptors(f) = {}
          BY <5>1, FS_EmptySet
        <5>3. FdsOf(p, f) = {}
          <6>1. ASSUME NEW y \in Fds, ofile[p][y] = f PROVE FALSE
            <7>1. <<p, y>> \in Descriptors(f)
              BY <6>1 DEF Descriptors
            <7> QED
              BY <5>2, <7>1
          <6> QED
            BY <6>1 DEF FdsOf
        <5> QED
          BY <5>3, FS_EmptySet
      <4> QED
        BY <4>1
    <3>2. file[f].ref \in Nat /\ (file[f].ref = 0 <=> file[f].ip = None)
      BY TableFacts DEF Inv, TableInv
    <3> QED
      BY <1>6, <1>7, <3>1, <3>2
  <2> QED
    BY <2>2, <2>3, <2>4 DEF TableInv
<1>11. ASSUME NEW j \in Inums
       PROVE  ref'[j] = Users(j)' + Pointers(j) + Own(Idle, j) - Own(th[q], j)
  <2>1. Users(j)' = Users(j) - One(cwd[q], j) + One(c, j)
    BY <1>5, <1>7, CwdStep, TableFacts
  <2>2. One(cwd[q], j) = 0 /\ Own(Idle, j) = 0 /\ Own(th[q], j) = 0
    BY <1>1, <1>2, <1>4, IdleRecord, NoInum DEF One, Own, Settled
  <2>3. ref'[j] = ref[j] + One(c, j)
    BY <1>5, GotRef
  <2> QED
    BY <2>1, <2>2, <2>3, OwnType, TableFacts
<1>12. /\ \A x \in Procs : cwd'[x] # None => Allocated(cwd'[x])
       /\ \A f \in Files : file'[f].ip # None => Allocated(file'[f].ip)
  <2>1. Allocated(c)
    BY <1>3, TableFacts, NoInum
  <2> QED
    BY <1>5, <1>7, <2>1, TableFacts
<1>13. LockInv'
  BY <1>2, <1>5, IdleRecord, LockSame, RefType, AllocatedSame DEF Inv
<1>14. /\ lock' \in [Inums -> Procs \cup {None}] /\ ref' \in [Inums -> Int]
       /\ Idle.ln = None /\ Idle.at # "unlinked"
  BY <1>5, RefType, GotRef, IdleRecord
<1> QED
  BY <1>5, <1>8, <1>9, <1>10, <1>11, <1>12, <1>13, <1>14, TableStep, IdleRecord

(* exit() puts the current directory.                                       *)
LEMMA ExitCwdInv ==
  ASSUME Inv, NEW p \in Procs, ExitCwd(p)
  PROVE  Inv'
<1>1. /\ th[p] \in ThType /\ Settled(th[p]) /\ Stage(th[p]) /\ th[p].at = "exiting"
  BY AtFacts DEF ExitCwd
<1>2. /\ th[p].ip = None /\ th[p].dp = None /\ th[p].ln = None /\ Keeps(th[p]) = None
  BY <1>1 DEF Stage, Resting, Keeps
<1>3. PICK c \in Inums : c = cwd[p]
  BY <1>1 DEF Inv, TableInv, TypeInv, Ptrs
<1>4. PICK r : r = [Idle EXCEPT !.at = "dead", !.put = c]
  OBVIOUS
<1>5. /\ Set(p, r) /\ cwd' = [cwd EXCEPT ![p] = None]
      /\ UNCHANGED <<dinode, ref, lock, file, ofile, prog>>
      /\ \A d \in Fds : ofile[p][d] = None
  BY <1>3, <1>4 DEF ExitCwd, FreeFds
<1>6. r \in ThType
  <2>1. "dead" \in Stages /\ c \in Ptrs
    BY NoInum DEF Stages, Resting
  <2> QED
    BY <1>4, <2>1, IdleRecord DEF ThType
<1>7. /\ r.at = "dead" /\ r.ip = None /\ r.dp = None /\ r.ln = None /\ r.put = c
      /\ r.also = None /\ r.drop = None
  BY <1>4 DEF Idle
<1>8. Stage(r) /\ Knows(r) /\ Keeps(r) = None
  BY <1>7, NoInum DEF Stage, Resting, Knows, Keeps
<1>9. TableInv'
  <2>1. th'[p] = r /\ \A x \in Procs : x # p => th'[x] = th[x]
    BY <1>5, TableFacts DEF Set
  <2>2. \A x \in Procs : cwd'[x] = None <=> th'[x].at = "dead"
    BY <1>5, <1>7, <2>1, TableFacts DEF Inv, TableInv
  <2>3. \A x \in Procs, y \in Fds : th'[x].at = "dead" => ofile'[x][y] = None
    BY <1>5, <2>1 DEF Inv, TableInv
  <2> QED
    BY <1>5, <2>2, <2>3 DEF Inv, TableInv
<1>10. ASSUME NEW j \in Inums
       PROVE  ref'[j] = Users(j)' + Pointers(j) + Own(r, j) - Own(th[p], j)
  <2>1. Users(j)' = Users(j) - One(cwd[p], j) + One(None, j)
    BY <1>5, CwdStep, TableFacts
  <2>2. One(None, j) = 0 /\ Own(r, j) = One(c, j) /\ Own(th[p], j) = 0
    BY <1>1, <1>2, <1>7, NoInum DEF One, Own, Settled
  <2> QED
    BY <1>3, <1>5, <2>1, <2>2, OwnType, TableFacts
<1>11. \A f \in Files : file'[f].ref = Cardinality(Descriptors(f))'
  BY <1>5, TableFacts DEF Descriptors
<1>12. /\ \A x \in Procs : cwd'[x] # None => Allocated(cwd'[x])
       /\ \A f \in Files : file'[f].ip # None => Allocated(file'[f].ip)
  BY <1>5, TableFacts
<1>13. LockInv'
  BY <1>2, <1>5, <1>6, <1>8, LockSame, RefType, AllocatedSame DEF Inv
<1>14. /\ lock' \in [Inums -> Procs \cup {None}] /\ ref' \in [Inums -> Int]
       /\ file' \in [Files -> FileType] /\ cwd' \in [Procs -> Ptrs]
       /\ ofile' \in [Procs -> [Fds -> Files \cup {None}]]
  BY <1>5, RefType, TableFacts DEF Ptrs
<1> QED
  BY <1>5, <1>6, <1>7, <1>8, <1>9, <1>10, <1>11, <1>12, <1>13, <1>14, TableStep

(* Steps that change none of this: a panic, and no step at all.             *)
LEMMA SameInv ==
  ASSUME Inv, UNCHANGED <<dinode, ref, lock, fileVars, th, prog>>
  PROVE  Inv'
<1>1. TypeInv' /\ StageInv' /\ TableInv'
  BY DEF Inv, TypeInv, StageInv, TableInv, fileVars
<1>2. RefCounts'
  BY DEF Inv, RefCounts, Users, Pointers, fileVars
<1>3. KnowsInv' /\ LockInv'
  BY DEF Inv, KnowsInv, LockInv, Knows, Keeps, Allocated, IsDir, fileVars
<1>4. LinkInv'
  BY DEF Inv, LinkInv, NamesOf, Subdirs, Dirs, Linking, Unlinking, Allocated
<1>5. TreeInv'
  BY DEF Inv, TreeInv, TreeShape, Dirs
<1> QED
  BY <1>1, <1>2, <1>3, <1>4, <1>5 DEF Inv

-----------------------------------------------------------------------------
(* The steps that change inodes.                                            *)

(* The inode whose entry unlink() has erased and not uncounted yet.         *)
Erased(r) == IF r.at = "unlinked" THEN r.ip ELSE None

(* The links under way change by those of the one call that steps.          *)
LEMMA PendingStep ==
  ASSUME TypeInv, NEW p \in Procs, NEW r \in ThType, Set(p, r), NEW i \in Inums
  PROVE  /\ Cardinality(Linking(i)) \in Nat /\ Cardinality(Unlinking(i)) \in Nat
         /\ Cardinality(Linking(i))' =
              Cardinality(Linking(i)) - One(th[p].ln, i) + One(r.ln, i)
         /\ Cardinality(Unlinking(i))' =
              Cardinality(Unlinking(i)) - One(Erased(th[p]), i) + One(Erased(r), i)
<1> DEFINE A == Linking(i)
           B == Linking(i)'
           C == Unlinking(i)
           D == Unlinking(i)'
<1>1. A \ {p} = B \ {p} /\ C \ {p} = D \ {p}
  BY DEF Linking, Unlinking, Set, TypeInv
<1>2. (p \in A <=> th[p].ln = i) /\ (p \in B <=> r.ln = i)
  BY DEF Linking, Set, TypeInv
<1>3. (p \in C <=> Erased(th[p]) = i) /\ (p \in D <=> Erased(r) = i)
  BY NoInum DEF Unlinking, Erased, Set, TypeInv
<1>4. /\ A \in SUBSET Procs /\ B \in SUBSET Procs
      /\ C \in SUBSET Procs /\ D \in SUBSET Procs
  BY DEF Linking, Unlinking
<1>5. Cardinality(Linking(i))' = Cardinality(B) /\ Cardinality(Unlinking(i))' = Cardinality(D)
  OBVIOUS
<1> HIDE DEF A, B, C, D
<1>6. Cardinality(A) \in Nat /\ Cardinality(B) = Cardinality(A) - One(th[p].ln, i) + One(r.ln, i)
  BY <1>1, <1>2, <1>4, FiniteTables, CountOne DEF One
<1>7. /\ Cardinality(C) \in Nat
      /\ Cardinality(D) = Cardinality(C) - One(Erased(th[p]), i) + One(Erased(r), i)
  BY <1>1, <1>3, <1>4, FiniteTables, CountOne DEF One
<1> QED
  BY <1>5, <1>6, <1>7 DEF A, C

(* Only finitely many links are under way.                                  *)
LEMMA PendingFinite ==
  ASSUME NEW i
  PROVE  /\ IsFiniteSet(Linking(i)) /\ IsFiniteSet(Unlinking(i))
         /\ Cardinality(Linking(i)) \in Nat /\ Cardinality(Unlinking(i)) \in Nat
<1>1. IsFiniteSet(Linking(i)) /\ IsFiniteSet(Unlinking(i))
  BY FiniteTables, FS_Subset DEF Linking, Unlinking
<1> QED
  BY <1>1, FS_CardinalityType

(* The link counts still cover the names if no inode's count falls behind   *)
(* its names, subdirectories and the links under way.                       *)
LEMMA LinkStep ==
  ASSUME Inv, NEW p \in Procs, NEW r \in ThType, Set(p, r),
         dinode' \in [Inums -> InodeType],
         \A j \in Inums : ~Allocated(j)' => dinode'[j].nlink = 0,
         \A j \in Inums :
           /\ Cardinality(NamesOf(j))' \in Nat /\ Cardinality(Subdirs(j))' \in Nat
           /\ Cardinality(NamesOf(j))' + Cardinality(Subdirs(j))'
                + One(r.ln, j) + One(Erased(r), j) - dinode'[j].nlink
              <= Cardinality(NamesOf(j)) + Cardinality(Subdirs(j))
                + One(th[p].ln, j) + One(Erased(th[p]), j) - dinode[j].nlink
  PROVE  LinkInv'
<1>1. ASSUME NEW j \in Inums
      PROVE  Cardinality(NamesOf(j))' + Cardinality(Subdirs(j))' + Cardinality(Linking(j))'
               + Cardinality(Unlinking(j))' + Rooted(j) <= dinode'[j].nlink
  <2>1. /\ Cardinality(Linking(j)) \in Nat /\ Cardinality(Unlinking(j)) \in Nat
        /\ Cardinality(Linking(j))' =
             Cardinality(Linking(j)) - One(th[p].ln, j) + One(r.ln, j)
        /\ Cardinality(Unlinking(j))' =
             Cardinality(Unlinking(j)) - One(Erased(th[p]), j) + One(Erased(r), j)
    BY PendingStep DEF Inv
  <2>2. Cardinality(NamesOf(j)) + Cardinality(Subdirs(j)) + Cardinality(Linking(j))
          + Cardinality(Unlinking(j)) + Rooted(j) <= dinode[j].nlink
    BY DEF Inv, LinkInv
  <2>3. Cardinality(NamesOf(j)) \in Nat /\ Cardinality(Subdirs(j)) \in Nat
    BY NamesFinite
  <2>4. dinode[j].nlink \in Int /\ dinode'[j].nlink \in Int
    BY DEF Inv, TypeInv, InodeType
  <2>5. /\ One(r.ln, j) \in Int /\ One(Erased(r), j) \in Int
        /\ One(th[p].ln, j) \in Int /\ One(Erased(th[p]), j) \in Int
        /\ Rooted(j) \in Int
    BY OwnType, RootedType
  <2> QED
    BY <2>1, <2>2, <2>3, <2>4, <2>5
<1> QED
  BY <1>1 DEF LinkInv

(* Steps that change link counts and no entry and no type.                  *)
LEMMA NlinkStep ==
  ASSUME Inv, NEW p \in Procs, NEW r \in ThType, Set(p, r), Stage(r), Knows(r),
         r.at = "dead" <=> th[p].at = "dead", UNCHANGED <<fileVars, prog>>,
         NEW i \in Inums, Allocated(i), NEW k \in Int,
         dinode' = [dinode EXCEPT ![i].nlink = k],
         \A j \in Inums : One(r.ln, j) + One(Erased(r), j) - dinode'[j].nlink
           <= One(th[p].ln, j) + One(Erased(th[p]), j) - dinode[j].nlink,
         lock' \in [Inums -> Procs \cup {None}],
         (\A j \in Inums : Allocated(j)' <=> Allocated(j)) => LockInv',
         ref' \in [Inums -> Int],
         \A j \in Inums : ref'[j] = ref[j] + Own(r, j) - Own(th[p], j)
  PROVE  Inv'
<1>1. /\ dinode' \in [Inums -> InodeType]
      /\ \A j \in Inums : /\ dinode'[j].type = dinode[j].type
                          /\ dinode'[j].ent = dinode[j].ent
                          /\ dinode'[j].nlink = IF j = i THEN k ELSE dinode[j].nlink
  BY DEF Inv, TypeInv, InodeType
<1>2. TypeInv' /\ StageInv' /\ TableInv' /\ RefCounts'
  BY <1>1, CallStep DEF Inv
<1>3. \A j \in Inums : (Allocated(j)' <=> Allocated(j)) /\ (IsDir(j)' <=> IsDir(j))
  BY <1>1 DEF Allocated, IsDir
<1>4. Dirs' = Dirs
  BY <1>1 DEF Dirs
<1>5. TreeInv'
  <2>1. Dirs \subseteq Inums
    BY DEF Dirs
  <2>2. TreeShape'
    BY <1>1, <1>4, <2>1 DEF Inv, TreeInv, TreeShape
  <2>3. \A d \in Dirs' : dinode'[d].ent["."] = d /\ dinode'[d].ent[".."] # None
    BY <1>1, <1>4, <2>1 DEF Inv, TreeInv
  <2>4. ASSUME NEW S \in SUBSET Dirs, S # {}
        PROVE  \E d \in S : \A n \in Names : dinode'[d].ent[n] \notin S
    <3>1. PICK d \in S : \A n \in Names : dinode[d].ent[n] \notin S
      BY <2>4 DEF Inv, TreeInv
    <3> QED
      BY <1>1, <2>1, <3>1
  <2> QED
    BY <1>4, <2>2, <2>3, <2>4 DEF TreeInv
<1>6. KnowsInv'
  <2>1. ASSUME NEW q \in Procs PROVE Knows(th[q])'
    <3>1. PICK s \in ThType : s = th'[q]
      BY DEF Inv, TypeInv, Set
    <3>2. Knows(s) /\ Stage(s)
      BY <3>1 DEF Inv, KnowsInv, StageInv, Set, TypeInv
    <3>3. /\ s.ip \in Ptrs /\ s.dp \in Ptrs /\ s.ln \in Ptrs
      BY DEF ThType
    <3>4. /\ s.at \in {"got", "made"} => s.ip \in Inums
          /\ s.at = "target" => s.dp \in Inums
          /\ s.ln # None => s.ln \in Inums
      BY <3>2, <3>3 DEF Stage, Ptrs
    <3>5. /\ s.at = "got" /\ WantsParent(s) => IsDir(s.ip)'
          /\ s.at = "made" => Allocated(s.ip)'
          /\ s.ln # None => Allocated(s.ln)' /\ ~IsDir(s.ln)'
      BY <1>3, <3>2, <3>4 DEF Knows
    <3>6. s.at = "target" => /\ IsDir(s.dp)' /\ Head(s.path) \in Names
                             /\ dinode'[s.dp].ent[Head(s.path)] = s.ip
      BY <1>1, <1>3, <3>2, <3>4 DEF Knows
    <3> QED
      BY <3>1, <3>5, <3>6 DEF Knows, WantsParent, Allocated, IsDir
  <2>2. /\ \A q \in Procs : cwd'[q] # None => Allocated(cwd'[q])
        /\ \A f \in Files : file'[f].ip # None => Allocated(file'[f].ip)
        /\ \A q \in Procs : cwd'[q] \in Ptrs
        /\ \A f \in Files : file'[f].ip \in Ptrs
    BY TableFacts DEF fileVars, FileType
  <2> QED
    BY <1>1, <2>1, <2>2 DEF KnowsInv, Allocated, Ptrs
<1>7. LinkInv'
  <2>1. \A j \in Inums : NamesOf(j)' = NamesOf(j) /\ Subdirs(j)' = Subdirs(j)
    <3>1. Dirs \subseteq Inums
      BY DEF Dirs
    <3> QED
      BY <1>1, <1>4, <3>1 DEF NamesOf, Subdirs
  <2>2. ASSUME NEW j \in Inums
        PROVE  /\ Cardinality(NamesOf(j))' = Cardinality(NamesOf(j))
               /\ Cardinality(Subdirs(j))' = Cardinality(Subdirs(j))
               /\ Cardinality(NamesOf(j)) \in Nat /\ Cardinality(Subdirs(j)) \in Nat
    BY <2>1, NamesFinite
  <2>3. \A j \in Inums : ~Allocated(j)' => dinode'[j].nlink = 0
    BY <1>1, <1>3 DEF Inv, LinkInv
  <2>4. \A j \in Inums : dinode[j].nlink \in Int /\ dinode'[j].nlink \in Int
    BY <1>1 DEF Inv, TypeInv, InodeType
  <2>5. ASSUME NEW j \in Inums
        PROVE  Cardinality(NamesOf(j))' + Cardinality(Subdirs(j))'
                + One(r.ln, j) + One(Erased(r), j) - dinode'[j].nlink
              <= Cardinality(NamesOf(j)) + Cardinality(Subdirs(j))
                + One(th[p].ln, j) + One(Erased(th[p]), j) - dinode[j].nlink
    <3>1. One(r.ln, j) + One(Erased(r), j) - dinode'[j].nlink
           <= One(th[p].ln, j) + One(Erased(th[p]), j) - dinode[j].nlink
      OBVIOUS
    <3>2. /\ One(r.ln, j) \in Int /\ One(Erased(r), j) \in Int
          /\ One(th[p].ln, j) \in Int /\ One(Erased(th[p]), j) \in Int
      BY OwnType
    <3> QED
      BY <2>2, <2>4, <3>1, <3>2
  <2> QED
    BY <1>1, <2>2, <2>3, <2>5, LinkStep
<1> QED
  BY <1>2, <1>3, <1>5, <1>6, <1>7 DEF Inv

(* Types of inodes.                                                         *)
LEMMA NlinkType ==
  ASSUME Inv, NEW i \in Inums
  PROVE  dinode[i].nlink \in Int /\ dinode[i] \in InodeType
BY DEF Inv, TypeInv, InodeType

(* link() uncounts the link it could not enter: it was still counted as one *)
(* under way.                                                               *)
LEMMA LinkBadInv ==
  ASSUME Inv, NEW p \in Procs, LinkBad(p)
  PROVE  Inv'
<1>1. /\ th[p] \in ThType /\ Settled(th[p]) /\ Stage(th[p]) /\ th[p].at = "bad"
  BY AtFacts DEF LinkBad
<1>2. /\ th[p].ln \in Inums /\ th[p].ip = None /\ th[p].dp = None
      /\ Keeps(th[p]) = None /\ Erased(th[p]) = None
  BY <1>1 DEF Stage, Keeps, Erased, ThType, Ptrs
<1>3. PICK i \in Inums : i = th[p].ln
  BY <1>2
<1>4. PICK k \in Int : k = dinode[i].nlink - 1
  BY NlinkType
<1>5. PICK r : r = Return(i)
  OBVIOUS
<1>6. /\ Set(p, r) /\ ref' = ref /\ lock' = lock /\ Allocated(i)
      /\ UNCHANGED <<fileVars, prog>> /\ dinode' = [dinode EXCEPT ![i].nlink = k]
  BY <1>3, <1>4, <1>5 DEF LinkBad, Lockable, Allocated
<1>7. /\ r \in ThType /\ Stage(r) /\ Knows(r) /\ Keeps(r) = None
      /\ r.at = "user" /\ r.ln = None
      /\ \A j \in Inums : Own(r, j) = One(i, j)
  BY <1>5, ReturnRecord
<1>8. \A j \in Inums : Own(th[p], j) = One(i, j)
  BY <1>1, <1>2, <1>3, NoInum DEF Own, One, Settled
<1>9. ref' \in [Inums -> Int] /\ \A j \in Inums : ref'[j] = ref[j] + Own(r, j) - Own(th[p], j)
  BY <1>6, <1>7, <1>8, OwnType, RefType
<1>10. (\A j \in Inums : Allocated(j)' <=> Allocated(j)) => LockInv'
  BY <1>2, <1>6, <1>7, LockSame, RefType DEF Inv
<1>11. ASSUME NEW j \in Inums
       PROVE  One(r.ln, j) + One(Erased(r), j) - dinode'[j].nlink
                <= One(th[p].ln, j) + One(Erased(th[p]), j) - dinode[j].nlink
  <2>1. One(r.ln, j) = 0 /\ One(Erased(r), j) = 0 /\ One(Erased(th[p]), j) = 0
    BY <1>2, <1>7, NoInum DEF One, Erased
  <2>2. dinode[j].nlink \in Int /\ dinode[i].nlink \in Int /\ dinode[i] \in InodeType
    BY NlinkType
  <2>3. dinode'[j].nlink = IF j = i THEN k ELSE dinode[j].nlink
    BY <1>6, <2>2 DEF Inv, TypeInv, InodeType
  <2> QED
    BY <1>3, <1>4, <2>1, <2>2, <2>3 DEF One
<1> QED
  BY <1>1, <1>6, <1>7, <1>9, <1>10, <1>11, NlinkStep, RefType

(* unlink() uncounts the link it has erased.                                *)
LEMMA UnlinkDoneInv ==
  ASSUME Inv, NEW p \in Procs, UnlinkDone(p)
  PROVE  Inv'
<1>1. /\ th[p] \in ThType /\ Settled(th[p]) /\ Stage(th[p]) /\ th[p].at = "unlinked"
  BY AtFacts DEF UnlinkDone
<1>2. /\ th[p].ip \in Inums /\ th[p].dp = None /\ th[p].ln = None
      /\ Keeps(th[p]) = th[p].ip /\ Erased(th[p]) = th[p].ip
  BY <1>1 DEF Stage, Keeps, Erased, ThType, Ptrs
<1>3. PICK i \in Inums : i = th[p].ip
  BY <1>2
<1>4. PICK k \in Int : k = dinode[i].nlink - 1
  BY NlinkType
<1>5. PICK r : r = Return(i)
  OBVIOUS
<1>6. /\ Set(p, r) /\ ref' = ref /\ lock' = [lock EXCEPT ![i] = None]
      /\ UNCHANGED <<fileVars, prog>> /\ dinode' = [dinode EXCEPT ![i].nlink = k]
  BY <1>3, <1>4, <1>5 DEF UnlinkDone
<1>7. Allocated(i)
  <2>1. lock[i] = p
    BY <1>2, <1>3 DEF Inv, LockInv
  <2> QED
    BY <2>1, RefType, TableFacts
<1>8. /\ r \in ThType /\ Stage(r) /\ Knows(r) /\ Keeps(r) = None
      /\ r.at = "user" /\ r.ln = None
      /\ \A j \in Inums : Own(r, j) = One(i, j)
  BY <1>5, ReturnRecord
<1>9. \A j \in Inums : Own(th[p], j) = One(i, j)
  BY <1>1, <1>2, <1>3, NoInum DEF Own, One, Settled
<1>10. ref' \in [Inums -> Int] /\ \A j \in Inums : ref'[j] = ref[j] + Own(r, j) - Own(th[p], j)
  BY <1>6, <1>8, <1>9, OwnType, RefType
<1>11. /\ lock' \in [Inums -> Procs \cup {None}]
       /\ \A j \in Inums : lock'[j] # None => Allocated(j)
  BY <1>6, RefType
<1>12. (\A j \in Inums : Allocated(j)' <=> Allocated(j)) => LockInv'
  BY <1>2, <1>3, <1>6, <1>8, <1>11, LockDrop DEF Inv
<1>13. ASSUME NEW j \in Inums
       PROVE  One(r.ln, j) + One(Erased(r), j) - dinode'[j].nlink
                <= One(th[p].ln, j) + One(Erased(th[p]), j) - dinode[j].nlink
  <2>1. One(r.ln, j) = 0 /\ One(Erased(r), j) = 0 /\ One(th[p].ln, j) = 0
    BY <1>2, <1>8, NoInum DEF One, Erased
  <2>2. dinode[j].nlink \in Int /\ dinode[i].nlink \in Int /\ dinode[i] \in InodeType
    BY NlinkType
  <2>3. dinode'[j].nlink = IF j = i THEN k ELSE dinode[j].nlink
    BY <1>6, <2>2 DEF Inv, TypeInv, InodeType
  <2> QED
    BY <1>2, <1>3, <1>4, <2>1, <2>2, <2>3 DEF One
<1> QED
  BY <1>1, <1>6, <1>7, <1>8, <1>10, <1>11, <1>12, <1>13, NlinkStep

(* link() counts the link it is going to enter.                             *)
LEMMA LinkOldInv ==
  ASSUME Inv, NEW p \in Procs, LinkOld(p)
  PROVE  Inv'
<1>1. /\ th[p] \in ThType /\ Settled(th[p]) /\ Stage(th[p]) /\ th[p].at = "got"
      /\ th[p].call = "link" /\ th[p].ln = None
  BY AtFacts DEF LinkOld
<1>2. PICK o \in ThType : o = th[p]
  BY <1>1
<1>3. /\ o.ip \in Inums /\ o.dp = None /\ o.ln = None /\ Settled(o) /\ o.at = "got"
      /\ o.call = "link" /\ Keeps(o) = None /\ Erased(o) = None /\ o.new \in PathRecords
  BY <1>1, <1>2 DEF Stage, Keeps, Erased, ThType, Ptrs
<1>4. PICK i \in Inums : i = o.ip
  BY <1>3
<1>5. PICK d \in Inums : d = StartDir(p, o.new)
  BY <1>1, StartDirInum
<1>6. /\ Allocated(i) /\ UNCHANGED <<lock, fileVars, prog>>
      /\ \/ Set(p, Return(i)) /\ UNCHANGED <<dinode, ref>>
         \/ /\ ~IsDir(i) /\ dinode' = Counted(i) /\ ref' = Got(d)
            /\ Set(p, Walk([o EXCEPT !.ln = i], d, o.new))
  BY <1>2, <1>4, <1>5 DEF LinkOld, Lockable, Allocated, IsDir
<1>7. CASE Set(p, Return(i)) /\ UNCHANGED <<dinode, ref>>
  <2>1. PICK r : r = Return(i)
    OBVIOUS
  <2>2. /\ r \in ThType /\ Stage(r) /\ Knows(r) /\ Keeps(r) = None
        /\ r.at = "user" /\ r.ln = None
        /\ \A j \in Inums : Own(r, j) = One(i, j)
    BY <2>1, ReturnRecord
  <2>3. \A j \in Inums : Own(o, j) = One(i, j)
    BY <1>3, <1>4, NoInum DEF Own, One, Settled
  <2>4. ref' \in [Inums -> Int] /\ \A j \in Inums : ref'[j] = ref[j] + Own(r, j) - Own(th[p], j)
    BY <1>2, <1>7, <2>2, <2>3, OwnType, RefType
  <2>5. LockInv'
    BY <1>2, <1>3, <1>6, <1>7, <2>1, <2>2, LockSame, RefType, AllocatedSame DEF Inv
  <2> QED
    BY <1>2, <1>3, <1>6, <1>7, <2>1, <2>2, <2>4, <2>5, QuietCall, RefType
<1>8. CASE /\ ~IsDir(i) /\ dinode' = Counted(i) /\ ref' = Got(d)
           /\ Set(p, Walk([o EXCEPT !.ln = i], d, o.new))
  <2>1. PICK s : s = [o EXCEPT !.ln = i]
    OBVIOUS
  <2>2. s \in ThType
    BY <2>1, NoInum DEF ThType
  <2>3. /\ s.ip = i /\ s.dp = None /\ s.ln = i /\ s.put = None /\ s.also = None
        /\ s.drop = None /\ s.call = "link"
    BY <1>3, <1>4, <2>1 DEF ThType, Settled
  <2>4. Settled(s)
    BY <2>3 DEF Settled
  <2>5. PICK r : r = Walk(s, d, o.new)
    OBVIOUS
  <2>6. /\ r \in ThType /\ Stage(r) /\ Knows(r) /\ Keeps(r) = None
        /\ r.at \in {"user", "bad", "walk", "got"} /\ r.ln = i
        /\ \A j \in Inums : Own(r, j) = Own(s, j) - One(s.ip, j) + One(d, j)
    BY <1>3, <1>6, <1>8, <2>2, <2>3, <2>4, <2>5, WalkRecord
  <2>7. Set(p, r)
    BY <1>8, <2>1, <2>5
  <2>8. \A j \in Inums : Own(s, j) = Own(o, j) + One(i, j)
    BY <1>3, <1>4, <2>3, NoInum DEF Own, One, Settled
  <2>9. ref' \in [Inums -> Int] /\ \A j \in Inums : ref'[j] = ref[j] + One(d, j)
    BY <1>8, GotRef
  <2>10. \A j \in Inums : ref'[j] = ref[j] + Own(r, j) - Own(th[p], j)
    BY <1>2, <2>3, <2>6, <2>8, <2>9, OwnType, RefType
  <2>11. (\A j \in Inums : Allocated(j)' <=> Allocated(j)) => LockInv'
    BY <1>2, <1>3, <1>6, <2>6, <2>7, LockSame, RefType DEF Inv
  <2>12. PICK k \in Int : k = dinode[i].nlink + 1
    BY NlinkType
  <2>13. dinode' = [dinode EXCEPT ![i].nlink = k]
    BY <1>8, <2>12 DEF Counted
  <2>14. ASSUME NEW j \in Inums
         PROVE  One(r.ln, j) + One(Erased(r), j) - dinode'[j].nlink
                  <= One(th[p].ln, j) + One(Erased(th[p]), j) - dinode[j].nlink
    <3>1. One(Erased(r), j) = 0 /\ One(Erased(th[p]), j) = 0 /\ One(th[p].ln, j) = 0
      BY <1>2, <1>3, <2>6, NoInum DEF One, Erased
    <3>2. dinode[j].nlink \in Int /\ dinode[i].nlink \in Int /\ dinode[i] \in InodeType
      BY NlinkType
    <3>3. dinode'[j].nlink = IF j = i THEN k ELSE dinode[j].nlink
      BY <2>13, <3>2 DEF Inv, TypeInv, InodeType
    <3> QED
      BY <2>6, <2>12, <3>1, <3>2, <3>3 DEF One
  <2>15. (r.at = "dead" <=> th[p].at = "dead") /\ lock' \in [Inums -> Procs \cup {None}]
    BY <1>1, <1>6, <2>6, RefType
  <2> QED
    BY <1>6, <2>6, <2>7, <2>9, <2>10, <2>11, <2>13, <2>14, <2>15, NlinkStep
<1> QED
  BY <1>6, <1>7, <1>8

(* One entry of directory d, for name n, changes to something that is no    *)
(* directory; no type changes.                                              *)
LEMMA EntryStep ==
  ASSUME Inv, NEW d \in Inums, IsDir(d), NEW n \in Names, NEW v \in Ptrs, v \notin Dirs,
         \A j \in Inums : dinode'[j].type = dinode[j].type,
         \A j \in Inums, m \in AllNames :
           dinode'[j].ent[m] = IF j = d /\ m = n THEN v ELSE dinode[j].ent[m]
  PROVE  /\ TreeInv'
         /\ \A j \in Inums :
              /\ Cardinality(NamesOf(j)) \in Nat /\ Cardinality(NamesOf(j))' \in Nat
              /\ Cardinality(NamesOf(j))' =
                   Cardinality(NamesOf(j)) - One(dinode[d].ent[n], j) + One(v, j)
              /\ Cardinality(Subdirs(j)) \in Nat /\ Cardinality(Subdirs(j))' \in Nat
              /\ Cardinality(Subdirs(j))' =
                   Cardinality(Subdirs(j)) - (IF j = d /\ dinode[d].ent[n] \in Dirs
                                              THEN 1 ELSE 0)
<1>1. Dirs' = Dirs /\ Dirs \subseteq Inums /\ d \in Dirs
  BY DEF Dirs, IsDir
<1>2. /\ Names \subseteq AllNames /\ "." \in AllNames /\ ".." \in AllNames
      /\ n # "." /\ n # ".."
  BY NamesAssumption DEF AllNames
<1>3. TreeInv'
  <2>1. \A e \in Dirs' : dinode'[e].ent["."] = e /\ dinode'[e].ent[".."] # None
    BY <1>1, <1>2 DEF Inv, TreeInv
  <2>2. TreeShape'
    <3>1. SUFFICES ASSUME NEW e \in Dirs, NEW m \in Names, dinode'[e].ent[m] \in Dirs
                   PROVE  /\ dinode'[dinode'[e].ent[m]].ent[".."] = e
                          /\ dinode'[dinode'[e].ent[m]].ent["."] = dinode'[e].ent[m]
      BY <1>1 DEF TreeShape
    <3>2. dinode'[e].ent[m] = dinode[e].ent[m]
      BY <1>1, <1>2, <3>1
    <3>3. PICK c \in Dirs : c = dinode[e].ent[m]
      BY <3>1, <3>2
    <3>4. dinode[c].ent[".."] = e /\ dinode[c].ent["."] = c
      BY <3>3 DEF Inv, TreeInv, TreeShape
    <3>5. dinode'[c].ent[".."] = e /\ dinode'[c].ent["."] = c
      BY <1>1, <1>2, <3>4
    <3> QED
      BY <3>2, <3>3, <3>5
  <2>3. ASSUME NEW S \in SUBSET Dirs, S # {}
        PROVE  \E e \in S : \A m \in Names : dinode'[e].ent[m] \notin S
    <3>1. PICK e \in S : \A m \in Names : dinode[e].ent[m] \notin S
      BY <2>3 DEF Inv, TreeInv
    <3> QED
      BY <1>1, <1>2, <3>1
  <2> QED
    BY <1>1, <2>1, <2>2, <2>3 DEF TreeInv
<1>4. ASSUME NEW j \in Inums
      PROVE  /\ Cardinality(NamesOf(j)) \in Nat /\ Cardinality(NamesOf(j)') \in Nat
             /\ Cardinality(NamesOf(j)') =
                  Cardinality(NamesOf(j)) - One(dinode[d].ent[n], j) + One(v, j)
  <2> DEFINE A == NamesOf(j)
             B == NamesOf(j)'
  <2>1. PICK S : S = Inums \X Names
    OBVIOUS
  <2>2. PICK x : x = <<d, n>>
    OBVIOUS
  <2>3. IsFiniteSet(S) /\ x \in S
    BY <2>1, <2>2, NamesFinite
  <2>4. A \in SUBSET S /\ B \in SUBSET S
    BY <1>1, <2>1 DEF NamesOf
  <2>5. (x \in A <=> dinode[d].ent[n] = j) /\ (x \in B <=> v = j)
    BY <1>1, <1>2, <2>2 DEF NamesOf
  <2>6. A \ {x} = B \ {x}
    BY <1>1, <1>2, <2>2 DEF NamesOf
  <2> HIDE DEF A, B
  <2>7. /\ Cardinality(A) \in Nat /\ Cardinality(B) \in Nat
        /\ Cardinality(B) = Cardinality(A) - One(dinode[d].ent[n], j) + One(v, j)
    BY <2>3, <2>4, <2>5, <2>6, CountOne DEF One
  <2> QED
    BY <2>7 DEF A, B
<1>5. ASSUME NEW j \in Inums
      PROVE  /\ Cardinality(Subdirs(j)) \in Nat /\ Cardinality(Subdirs(j)') \in Nat
             /\ Cardinality(Subdirs(j)') =
                  Cardinality(Subdirs(j)) - (IF j = d /\ dinode[d].ent[n] \in Dirs
                                             THEN 1 ELSE 0)
  <2> DEFINE A == Subdirs(j)
             B == Subdirs(j)'
  <2>1. A \in SUBSET Names /\ B \in SUBSET Names /\ IsFiniteSet(Names)
    BY NamesAssumption DEF Subdirs
  <2>2. A \ {n} = B \ {n}
    BY <1>1, <1>2 DEF Subdirs
  <2>3. /\ j = d => (n \in A <=> dinode[d].ent[n] \in Dirs) /\ n \notin B
        /\ j # d => (n \in A <=> n \in B)
    BY <1>1, <1>2 DEF Subdirs
  <2> HIDE DEF A, B
  <2>4. /\ Cardinality(A) \in Nat /\ Cardinality(B) \in Nat
        /\ Cardinality(B) = Cardinality(A) - (IF j = d /\ dinode[d].ent[n] \in Dirs
                                              THEN 1 ELSE 0)
    BY <2>1, <2>2, <2>3, CountOne
  <2> QED
    BY <2>4 DEF A, B
<1> QED
  BY <1>3, <1>4, <1>5

(* What the other calls know outlives a step that frees nothing they point  *)
(* to and changes no entry of a directory they have locked.                 *)
LEMMA KnowsStep ==
  ASSUME Inv, NEW p \in Procs, NEW r \in ThType, Set(p, r), UNCHANGED fileVars,
         Knows(r)',
         \A q \in Procs : q # p =>
           /\ th[q].at = "got" /\ IsDir(th[q].ip) => IsDir(th[q].ip)'
           /\ th[q].at = "made" /\ Allocated(th[q].ip) => Allocated(th[q].ip)'
           /\ th[q].ln # None /\ Allocated(th[q].ln) /\ ~IsDir(th[q].ln) =>
                Allocated(th[q].ln)' /\ ~IsDir(th[q].ln)'
           /\ th[q].at = "target" /\ IsDir(th[q].dp) =>
                IsDir(th[q].dp)' /\ dinode'[th[q].dp].ent = dinode[th[q].dp].ent,
         \A q \in Procs : cwd[q] # None /\ Allocated(cwd[q]) => Allocated(cwd[q])',
         \A f \in Files : file[f].ip # None /\ Allocated(file[f].ip) => Allocated(file[f].ip)'
  PROVE  KnowsInv'
<1>1. ASSUME NEW q \in Procs, q # p PROVE Knows(th[q])'
  <2>1. th'[q] = th[q]
    BY <1>1 DEF Inv, TypeInv, Set
  <2>2. Knows(th[q])
    BY DEF Inv, KnowsInv
  <2>3. /\ th[q].at = "got" /\ WantsParent(th[q]) => dinode'[th[q].ip].type = "dir"
        /\ th[q].at = "made" => dinode'[th[q].ip].type # "none"
        /\ th[q].ln # None => dinode'[th[q].ln].type \notin {"none", "dir"}
        /\ th[q].at = "target" => /\ dinode'[th[q].dp].type = "dir"
                                  /\ Head(th[q].path) \in Names
                                  /\ dinode'[th[q].dp].ent[Head(th[q].path)] = th[q].ip
    BY <1>1, <2>1, <2>2 DEF Knows, Allocated, IsDir
  <2> QED
    BY <2>1, <2>3 DEF Knows, Allocated, IsDir, WantsParent
<1>2. Knows(th[p])'
  <2>1. th'[p] = r
    BY DEF Inv, TypeInv, Set
  <2> QED
    BY <2>1 DEF Knows, Allocated, IsDir, WantsParent
<1>3. /\ \A q \in Procs : cwd'[q] # None => Allocated(cwd[q])'
      /\ \A f \in Files : file'[f].ip # None => Allocated(file[f].ip)'
  BY DEF Inv, KnowsInv, fileVars, Allocated
<1> QED
  BY <1>1, <1>2, <1>3 DEF KnowsInv, Allocated

(* link() enters the link it has counted.  The inode is no directory, so    *)
(* the tree stays as it is.                                                 *)
LEMMA LinkNewInv ==
  ASSUME Inv, NEW p \in Procs, LinkNew(p)
  PROVE  Inv'
<1>1. At(p, "got") /\ WantsParent(th[p]) /\ th[p].call = "link" /\ th[p].ln # None
  BY DEF LinkNew, WantsParent
<1>2. /\ th[p] \in ThType /\ Settled(th[p]) /\ th[p].at = "got"
      /\ th[p].ip \in Inums /\ th[p].dp = None /\ IsDir(th[p].ip)
      /\ Head(th[p].path) \in AllNames
      /\ Allocated(th[p].ln) /\ ~IsDir(th[p].ln) /\ Keeps(th[p]) = None
  BY <1>1, GotFacts
<1>3. PICK d \in Inums : d = th[p].ip
  BY <1>2
<1>4. PICK l \in Inums : l = th[p].ln
  BY <1>1, <1>2 DEF ThType, Ptrs
<1>5. PICK n \in Names : n = Head(th[p].path) /\ dinode[d].ent[n] = None
  BY <1>2, <1>3, NoInum DEF LinkNew, Inv, TreeInv, Dirs, IsDir, AllNames
<1>6. PICK r : r = [Return(d) EXCEPT !.also = l]
  OBVIOUS
<1>7. /\ Set(p, r) /\ ref' = ref /\ lock' = lock /\ lock[d] = None
      /\ UNCHANGED <<fileVars, prog>> /\ dinode' = [dinode EXCEPT ![d].ent[n] = l]
  BY <1>3, <1>4, <1>5, <1>6 DEF LinkNew, Lockable
<1>8. r \in ThType
  BY <1>6, ReturnRecord, NoInum DEF ThType
<1>9. /\ r.at = "user" /\ r.ip = None /\ r.dp = None /\ r.ln = None /\ r.put = d
      /\ r.also = l /\ r.drop = None
  BY <1>6 DEF Return, Idle
<1>10. Stage(r) /\ Knows(r)' /\ Keeps(r) = None /\ Erased(r) = None /\ Erased(th[p]) = None
  BY <1>2, <1>9, NoInum DEF Stage, Resting, Knows, Keeps, Erased
<1>11. \A j \in Inums : Own(r, j) = Own(th[p], j)
  BY <1>2, <1>3, <1>4, <1>9, NoInum DEF Own, One, Settled
<1>12. ref' \in [Inums -> Int] /\ \A j \in Inums : ref'[j] = ref[j] + Own(r, j) - Own(th[p], j)
  BY <1>7, <1>11, OwnType, RefType
<1>13. /\ dinode' \in [Inums -> InodeType]
       /\ \A j \in Inums : /\ dinode'[j].type = dinode[j].type
                           /\ dinode'[j].nlink = dinode[j].nlink
                           /\ j # d => dinode'[j].ent = dinode[j].ent
       /\ \A j \in Inums, m \in AllNames :
            dinode'[j].ent[m] = IF j = d /\ m = n THEN l ELSE dinode[j].ent[m]
  <2>1. l \in Ptrs /\ n \in AllNames
    BY NoInum DEF AllNames
  <2> QED
    BY <1>7, <2>1 DEF Inv, TypeInv, InodeType
<1>14. TypeInv' /\ StageInv' /\ TableInv' /\ RefCounts'
  BY <1>2, <1>7, <1>8, <1>9, <1>10, <1>12, <1>13, CallStep, RefType DEF Inv
<1>15. /\ TreeInv'
       /\ \A j \in Inums :
            /\ Cardinality(NamesOf(j)) \in Nat /\ Cardinality(NamesOf(j))' \in Nat
            /\ Cardinality(NamesOf(j))' = Cardinality(NamesOf(j)) - One(None, j) + One(l, j)
            /\ Cardinality(Subdirs(j)) \in Nat /\ Cardinality(Subdirs(j))' \in Nat
            /\ Cardinality(Subdirs(j))' = Cardinality(Subdirs(j))
  <2>1. l \in Ptrs /\ l \notin Dirs /\ None \notin Dirs /\ IsDir(d)
    BY <1>2, <1>3, <1>4, NoInum DEF Dirs, IsDir
  <2>2. /\ TreeInv'
        /\ \A j \in Inums :
              /\ Cardinality(NamesOf(j)) \in Nat /\ Cardinality(NamesOf(j))' \in Nat
              /\ Cardinality(NamesOf(j))' =
                   Cardinality(NamesOf(j)) - One(dinode[d].ent[n], j) + One(l, j)
              /\ Cardinality(Subdirs(j)) \in Nat /\ Cardinality(Subdirs(j))' \in Nat
              /\ Cardinality(Subdirs(j))' =
                   Cardinality(Subdirs(j)) - (IF j = d /\ dinode[d].ent[n] \in Dirs
                                              THEN 1 ELSE 0)
    BY <1>13, <2>1, EntryStep
  <2> QED
    BY <1>5, <2>1, <2>2
<1>16. LinkInv'
  <2>1. ASSUME NEW j \in Inums
        PROVE  Cardinality(NamesOf(j))' + Cardinality(Subdirs(j))'
                + One(r.ln, j) + One(Erased(r), j) - dinode'[j].nlink
              <= Cardinality(NamesOf(j)) + Cardinality(Subdirs(j))
                + One(th[p].ln, j) + One(Erased(th[p]), j) - dinode[j].nlink
    <3>1. /\ One(None, j) = 0 /\ One(r.ln, j) = 0 /\ One(Erased(r), j) = 0
          /\ One(Erased(th[p]), j) = 0
      BY <1>9, <1>10, NoInum DEF One
    <3>2. dinode'[j].nlink = dinode[j].nlink /\ dinode[j].nlink \in Int /\ One(l, j) \in Int
      BY <1>13, NlinkType, OwnType
    <3> QED
      BY <1>4, <1>15, <3>1, <3>2
  <2>2. \A j \in Inums : ~Allocated(j)' => dinode'[j].nlink = 0
    BY <1>13 DEF Inv, LinkInv, Allocated
  <2> QED
    BY <1>7, <1>8, <1>13, <1>15, <2>1, <2>2, LinkStep
<1>17. LockInv'
  <2>1. \A i \in Inums : lock[i] # None => Allocated(i)'
    BY <1>13, RefType DEF Allocated
  <2> QED
    BY <1>2, <1>7, <1>8, <1>10, <2>1, LockSame DEF Inv
<1>18. KnowsInv'
  <2>1. ASSUME NEW q \in Procs, q # p
        PROVE  /\ th'[q] = th[q] /\ th[q] \in ThType
               /\ th[q].at = "target" => th[q].dp \in Inums /\ th[q].dp # d
               /\ th[q].at \in {"got", "made"} => th[q].ip \in Inums
               /\ th[q].ln # None => th[q].ln \in Inums
    <3>1. th'[q] = th[q] /\ th[q] \in ThType /\ Stage(th[q])
      BY <1>7, <2>1 DEF Inv, TypeInv, StageInv, Set
    <3>2. th[q].at = "target" => Keeps(th[q]) = th[q].dp /\ th[q].dp \in Inums
      BY <3>1 DEF Keeps, Stage, ThType, Ptrs
    <3>3. th[q].at = "target" => lock[th[q].dp] = q
      BY <3>2 DEF Inv, LockInv
    <3>4. None \notin Procs
      BY TableFacts
    <3> QED
      BY <1>7, <3>1, <3>2, <3>3, <3>4 DEF Stage, ThType, Ptrs
  <2>2. /\ cwd' = cwd /\ file' = file
        /\ \A q \in Procs : cwd[q] \in Ptrs
        /\ \A f \in Files : file[f].ip \in Ptrs
    BY <1>7, TableFacts DEF fileVars, FileType
  <2>3. \A q \in Procs : q # p =>
           /\ th[q].at = "got" /\ IsDir(th[q].ip) => IsDir(th[q].ip)'
           /\ th[q].at = "made" /\ Allocated(th[q].ip) => Allocated(th[q].ip)'
           /\ th[q].ln # None /\ Allocated(th[q].ln) /\ ~IsDir(th[q].ln) =>
                Allocated(th[q].ln)' /\ ~IsDir(th[q].ln)'
           /\ th[q].at = "target" /\ IsDir(th[q].dp) =>
                IsDir(th[q].dp)' /\ dinode'[th[q].dp].ent = dinode[th[q].dp].ent
    BY <1>13, <2>1 DEF IsDir, Allocated
  <2>4. /\ \A q \in Procs : cwd[q] # None /\ Allocated(cwd[q]) => Allocated(cwd[q])'
        /\ \A f \in Files : file[f].ip # None /\ Allocated(file[f].ip) => Allocated(file[f].ip)'
    BY <1>13, <2>2 DEF Allocated, Ptrs
  <2> QED
    BY <1>7, <1>8, <1>10, <2>3, <2>4, KnowsStep
<1> QED
  BY <1>14, <1>15, <1>16, <1>17, <1>18 DEF Inv

(* unlink() erases the entry, which still names the inode it found; that is *)
(* no directory, or an empty one.                                           *)
LEMMA UnlinkEraseInv ==
  ASSUME Inv, NEW p \in Procs, UnlinkErase(p)
  PROVE  Inv'
<1>1. /\ th[p] \in ThType /\ Settled(th[p]) /\ Stage(th[p]) /\ Knows(th[p])
      /\ th[p].at = "target"
  BY AtFacts DEF UnlinkErase
<1>2. PICK o \in ThType : o = th[p]
  BY <1>1
<1>3. /\ o.ip \in Inums /\ o.dp \in Inums /\ o.ln = None /\ Settled(o) /\ Keeps(o) = o.dp
      /\ o.at = "target" /\ IsDir(o.dp) /\ Head(o.path) \in Names
      /\ dinode[o.dp].ent[Head(o.path)] = o.ip
  BY <1>1, <1>2 DEF Stage, Knows, Keeps, ThType, Ptrs
<1>4. PICK i \in Inums : i = o.ip
  BY <1>3
<1>5. PICK d \in Inums : d = o.dp
  BY <1>3
<1>6. PICK n \in Names : n = Head(o.path) /\ dinode[d].ent[n] = i
  BY <1>3, <1>4, <1>5
<1>7. PICK k \in Int : k = IF dinode[i].type = "dir" THEN dinode[d].nlink - 1
                           ELSE dinode[d].nlink
  BY NlinkType
<1>8. PICK r : r = [o EXCEPT !.at = "unlinked", !.dp = None, !.path = <<>>, !.put = d]
  OBVIOUS
<1>9. /\ Set(p, r) /\ ref' = ref /\ lock' = [lock EXCEPT ![d] = None, ![i] = p]
      /\ lock[i] = None /\ Allocated(i)
      /\ UNCHANGED <<fileVars, prog>>
      /\ dinode' = [dinode EXCEPT ![d].ent[n] = None, ![d].nlink = k]
  BY <1>2, <1>4, <1>5, <1>6, <1>7, <1>8, NlinkType DEF UnlinkErase, Lockable, Allocated, Inv, TypeInv, InodeType
<1>10. r \in ThType
  <2>1. "unlinked" \in Stages /\ None \in Ptrs /\ d \in Ptrs /\ <<>> \in Seq(AllNames)
    BY NoInum DEF Stages, Ptrs
  <2> QED
    BY <1>8, <2>1 DEF ThType
<1>11. /\ r.at = "unlinked" /\ r.ip = i /\ r.dp = None /\ r.ln = None /\ r.put = d
       /\ r.also = o.also /\ r.drop = o.drop
  BY <1>3, <1>4, <1>8 DEF ThType
<1>12. Stage(r) /\ Knows(r)' /\ Keeps(r) = i /\ Erased(r) = i /\ Erased(o) = None
  BY <1>3, <1>11, NoInum DEF Stage, Resting, Knows, Keeps, Erased
<1>13. \A j \in Inums : Own(r, j) = Own(o, j)
  BY <1>3, <1>4, <1>5, <1>11, NoInum DEF Own, One, Settled
<1>14. ref' \in [Inums -> Int] /\ \A j \in Inums : ref'[j] = ref[j] + Own(r, j) - Own(th[p], j)
  BY <1>2, <1>9, <1>13, OwnType, RefType
<1>15. lock[d] = p /\ i # d /\ None \notin Procs
  <2>1. lock[d] = p
    BY <1>2, <1>3, <1>5 DEF Inv, LockInv
  <2> QED
    BY <1>9, <2>1, TableFacts
<1>16. /\ dinode' \in [Inums -> InodeType]
       /\ \A j \in Inums : /\ dinode'[j].type = dinode[j].type
                           /\ dinode'[j].nlink = IF j = d THEN k ELSE dinode[j].nlink
                           /\ j # d => dinode'[j].ent = dinode[j].ent
       /\ \A j \in Inums, m \in AllNames :
            dinode'[j].ent[m] = IF j = d /\ m = n THEN None ELSE dinode[j].ent[m]
  <2>1. None \in Ptrs /\ n \in AllNames
    BY DEF AllNames, Ptrs
  <2> QED
    BY <1>9, <2>1 DEF Inv, TypeInv, InodeType
<1>17. /\ lock' \in [Inums -> Procs \cup {None}]
       /\ \A j \in Inums : lock'[j] = IF j = i THEN p ELSE IF j = d THEN None ELSE lock[j]
  BY <1>9, RefType
<1>18. TypeInv' /\ StageInv' /\ TableInv' /\ RefCounts'
  BY <1>2, <1>3, <1>9, <1>10, <1>11, <1>12, <1>14, <1>16, <1>17, CallStep DEF Inv
<1>19. /\ TreeInv'
       /\ \A j \in Inums :
            /\ Cardinality(NamesOf(j)) \in Nat /\ Cardinality(NamesOf(j))' \in Nat
            /\ Cardinality(NamesOf(j))' = Cardinality(NamesOf(j)) - One(i, j) + One(None, j)
            /\ Cardinality(Subdirs(j)) \in Nat /\ Cardinality(Subdirs(j))' \in Nat
            /\ Cardinality(Subdirs(j))' =
                 Cardinality(Subdirs(j)) - (IF j = d /\ dinode[i].type = "dir"
                                            THEN 1 ELSE 0)
  <2>1. None \in Ptrs /\ None \notin Dirs /\ IsDir(d) /\ (i \in Dirs <=> dinode[i].type = "dir")
    BY <1>3, <1>5, NoInum DEF Dirs, Ptrs
  <2>2. /\ TreeInv'
        /\ \A j \in Inums :
              /\ Cardinality(NamesOf(j)) \in Nat /\ Cardinality(NamesOf(j))' \in Nat
              /\ Cardinality(NamesOf(j))' =
                   Cardinality(NamesOf(j)) - One(dinode[d].ent[n], j) + One(None, j)
              /\ Cardinality(Subdirs(j)) \in Nat /\ Cardinality(Subdirs(j))' \in Nat
              /\ Cardinality(Subdirs(j))' =
                   Cardinality(Subdirs(j)) - (IF j = d /\ dinode[d].ent[n] \in Dirs
                                              THEN 1 ELSE 0)
    BY <1>16, <2>1, EntryStep
  <2> QED
    BY <1>6, <2>1, <2>2
<1>20. LinkInv'
  <2>1. ASSUME NEW j \in Inums
        PROVE  Cardinality(NamesOf(j))' + Cardinality(Subdirs(j))'
                + One(r.ln, j) + One(Erased(r), j) - dinode'[j].nlink
              <= Cardinality(NamesOf(j)) + Cardinality(Subdirs(j))
                + One(th[p].ln, j) + One(Erased(th[p]), j) - dinode[j].nlink
    <3>1. /\ One(None, j) = 0 /\ One(r.ln, j) = 0 /\ One(Erased(r), j) = One(i, j)
          /\ One(Erased(th[p]), j) = 0 /\ One(th[p].ln, j) = 0
      BY <1>2, <1>3, <1>11, <1>12, NoInum DEF One
    <3>2. /\ dinode'[j].nlink = IF j = d THEN k ELSE dinode[j].nlink
          /\ dinode[j].nlink \in Int /\ dinode[d].nlink \in Int /\ One(i, j) \in Int
      BY <1>16, NlinkType, OwnType
    <3>3. /\ Cardinality(NamesOf(j))' = Cardinality(NamesOf(j)) - One(i, j) + One(None, j)
          /\ Cardinality(Subdirs(j))' =
               Cardinality(Subdirs(j)) - (IF j = d /\ dinode[i].type = "dir" THEN 1 ELSE 0)
          /\ Cardinality(NamesOf(j)) \in Nat /\ Cardinality(Subdirs(j)) \in Nat
      BY <1>19
    <3> QED
      BY <1>7, <3>1, <3>2, <3>3
  <2>2. \A j \in Inums : ~Allocated(j)' => dinode'[j].nlink = 0
    BY <1>3, <1>5, <1>16 DEF Inv, LinkInv, Allocated, IsDir
  <2> QED
    BY <1>9, <1>10, <1>16, <1>19, <2>1, <2>2, LinkStep
<1>21. LockInv'
  <2>1. \A q \in Procs : Keeps(th[q])' = IF q = p THEN i ELSE Keeps(th[q])
    <3>1. \A q \in Procs : Keeps(th'[q]) = IF q = p THEN i ELSE Keeps(th[q])
      BY <1>9, <1>12 DEF Set, Inv, TypeInv
    <3> QED
      BY <3>1 DEF Keeps
  <2>2. ASSUME NEW j \in Inums, NEW q \in Procs PROVE lock'[j] = q <=> Keeps(th[q])' = j
    <3>1. lock[j] = q <=> Keeps(th[q]) = j
      BY DEF Inv, LockInv
    <3>2. lock'[j] = IF j = i THEN p ELSE IF j = d THEN None ELSE lock[j]
      BY <1>17
    <3>3. CASE q = p
      <4>1. Keeps(th[q])' = i /\ Keeps(th[q]) = d
        BY <1>2, <1>3, <1>5, <2>1, <3>3
      <4> QED
        BY <1>15, <3>1, <3>2, <3>3, <4>1
    <3>4. CASE q # p
      <4>1. Keeps(th[q])' = Keeps(th[q]) /\ q # None
        BY <1>15, <2>1, <3>4
      <4> QED
        BY <1>9, <1>15, <3>1, <3>2, <3>4, <4>1
    <3> QED
      BY <3>3, <3>4
  <2>3. \A j \in Inums : lock'[j] # None => Allocated(j)'
    BY <1>9, <1>16, <1>17, RefType DEF Allocated
  <2> QED
    BY <2>2, <2>3 DEF LockInv
<1>22. KnowsInv'
  <2>1. ASSUME NEW q \in Procs, q # p
        PROVE  /\ th'[q] = th[q] /\ th[q] \in ThType
               /\ th[q].at = "target" => th[q].dp \in Inums /\ th[q].dp # d
               /\ th[q].at \in {"got", "made"} => th[q].ip \in Inums
               /\ th[q].ln # None => th[q].ln \in Inums
    <3>1. th'[q] = th[q] /\ th[q] \in ThType /\ Stage(th[q])
      BY <1>9, <2>1 DEF Inv, TypeInv, StageInv, Set
    <3>2. th[q].at = "target" => Keeps(th[q]) = th[q].dp /\ th[q].dp \in Inums
      BY <3>1 DEF Keeps, Stage, ThType, Ptrs
    <3>3. th[q].at = "target" => lock[th[q].dp] = q
      BY <3>2 DEF Inv, LockInv
    <3> QED
      BY <1>15, <2>1, <3>1, <3>2, <3>3 DEF Stage, ThType, Ptrs
  <2>2. /\ cwd' = cwd /\ file' = file
        /\ \A q \in Procs : cwd[q] \in Ptrs
        /\ \A f \in Files : file[f].ip \in Ptrs
    BY <1>9, TableFacts DEF fileVars, FileType
  <2>3. \A q \in Procs : q # p =>
           /\ th[q].at = "got" /\ IsDir(th[q].ip) => IsDir(th[q].ip)'
           /\ th[q].at = "made" /\ Allocated(th[q].ip) => Allocated(th[q].ip)'
           /\ th[q].ln # None /\ Allocated(th[q].ln) /\ ~IsDir(th[q].ln) =>
                Allocated(th[q].ln)' /\ ~IsDir(th[q].ln)'
           /\ th[q].at = "target" /\ IsDir(th[q].dp) =>
                IsDir(th[q].dp)' /\ dinode'[th[q].dp].ent = dinode[th[q].dp].ent
    BY <1>16, <2>1 DEF IsDir, Allocated
  <2>4. /\ \A q \in Procs : cwd[q] # None /\ Allocated(cwd[q]) => Allocated(cwd[q])'
        /\ \A f \in Files : file[f].ip # None /\ Allocated(file[f].ip) => Allocated(file[f].ip)'
    BY <1>16, <2>2 DEF Allocated, Ptrs
  <2> QED
    BY <1>9, <1>10, <1>12, <2>3, <2>4, KnowsStep
<1> QED
  BY <1>18, <1>19, <1>20, <1>21, <1>22 DEF Inv

(* The last reference to an unlinked inode is the one that iput() drops.    *)
LEMMA FreedAlone ==
  ASSUME Inv, NEW p \in Procs, NEW i \in Inums, th[p].put = i, ref[i] = 1
  PROVE  /\ \A q \in Procs : /\ th[q].ip # i /\ th[q].dp # i /\ th[q].ln # i
                             /\ cwd[q] # i
         /\ \A f \in Files : file[f].ip # i
<1> DEFINE P(v) == {q \in Procs : th[q][v] = i}
           C == {q \in Procs : cwd[q] = i}
           F == {f \in Files : file[f].ip = i}
<1>1. ASSUME NEW v PROVE IsFiniteSet(P(v)) /\ Cardinality(P(v)) \in Nat
  BY FiniteTables, FS_Subset, FS_CardinalityType
<1>2. IsFiniteSet(C) /\ IsFiniteSet(F) /\ Cardinality(C) \in Nat /\ Cardinality(F) \in Nat
  BY FiniteTables, FS_Subset, FS_CardinalityType
<1>3. Users(i) = Cardinality(C) + Cardinality(F)
  BY DEF Users
<1>4. Pointers(i) = Cardinality(P("ip")) + Cardinality(P("dp")) + Cardinality(P("ln"))
        + Cardinality(P("put")) + Cardinality(P("also")) + Cardinality(P("drop"))
  BY DEF Pointers
<1>5. Cardinality(P("put")) # 0
  <2>1. p \in P("put")
    OBVIOUS
  <2> HIDE DEF P
  <2> QED
    BY <1>1, <2>1, FS_EmptySet
<1>6. 1 = Users(i) + Pointers(i)
  BY DEF Inv, RefCounts
<1> HIDE DEF P, C, F
<1>7. /\ Cardinality(C) = 0 /\ Cardinality(F) = 0 /\ Cardinality(P("ip")) = 0
      /\ Cardinality(P("dp")) = 0 /\ Cardinality(P("ln")) = 0
  <2>1. /\ Cardinality(P("ip")) \in Nat /\ Cardinality(P("dp")) \in Nat
        /\ Cardinality(P("ln")) \in Nat /\ Cardinality(P("put")) \in Nat
        /\ Cardinality(P("also")) \in Nat /\ Cardinality(P("drop")) \in Nat
    BY <1>1
  <2> QED
    BY <1>2, <1>3, <1>4, <1>5, <1>6, <2>1
<1>8. C = {} /\ F = {} /\ P("ip") = {} /\ P("dp") = {} /\ P("ln") = {}
  BY <1>1, <1>2, <1>7, FS_EmptySet
<1>9. \A q \in Procs : th[q]["ip"] # i /\ th[q]["dp"] # i /\ th[q]["ln"] # i
  BY <1>8 DEF P
<1>10. (\A q \in Procs : cwd[q] # i) /\ (\A f \in Files : file[f].ip # i)
  BY <1>8 DEF C, F
<1> QED
  BY <1>9, <1>10

(* iput() frees an inode only if nothing else can reach it: no name, no     *)
(* current directory, no file and no other call.                            *)
LEMMA IputLockedInv ==
  ASSUME Inv, NEW p \in Procs, IputLocked(p)
  PROVE  Inv'
<1>1. th[p] \in ThType /\ Stage(th[p]) /\ Knows(th[p])
  BY DEF Inv, TypeInv, StageInv, KnowsInv
<1>2. PICK o \in ThType : o = th[p]
  BY <1>1
<1>3. PICK i \in Inums : i = o.put
  BY <1>2 DEF IputLocked, ThType, Ptrs
<1>4. PICK r : r = [o EXCEPT !.drop = i, !.put = o.also, !.also = None]
  OBVIOUS
<1>5. /\ Set(p, r) /\ ref' = ref /\ lock' = lock /\ lock[i] = None /\ o.drop = None
      /\ UNCHANGED <<fileVars, prog>>
      /\ dinode' = [dinode EXCEPT ![i] = IF Unused(i) THEN FreeInode ELSE @]
  BY <1>2, <1>3, <1>4 DEF IputLocked
<1>6. r \in ThType
  <2>1. i \in Ptrs /\ None \in Ptrs
    BY NoInum DEF Ptrs
  <2> QED
    BY <1>4, <2>1 DEF ThType
<1>7. /\ r.at = o.at /\ r.ip = o.ip /\ r.dp = o.dp /\ r.ln = o.ln /\ r.call = o.call
      /\ r.path = o.path /\ r.put = o.also /\ r.also = None /\ r.drop = i
  BY <1>4 DEF ThType
<1>8. /\ Stage(r) /\ Knows(r) /\ Keeps(r) = Keeps(o) /\ Erased(r) = Erased(o)
  BY <1>1, <1>2, <1>7 DEF Stage, Knows, Keeps, Erased, WantsParent
<1>9. \A j \in Inums : Own(r, j) = Own(o, j)
  BY <1>3, <1>5, <1>7, NoInum DEF Own, One
<1>10. ref' \in [Inums -> Int] /\ \A j \in Inums : ref'[j] = ref[j] + Own(r, j) - Own(th[p], j)
  BY <1>2, <1>5, <1>9, OwnType, RefType
<1>11. CASE ~Unused(i)
  <2>1. dinode' = dinode
    BY <1>5, <1>11 DEF Inv, TypeInv
  <2>2. LockInv'
    BY <1>2, <1>5, <1>6, <1>8, <2>1, LockSame, RefType, AllocatedSame DEF Inv
  <2> QED
    BY <1>2, <1>5, <1>6, <1>7, <1>8, <1>10, <2>1, <2>2, QuietCall, RefType
<1>12. CASE Unused(i)
  <2>1. dinode[i].nlink = 0 /\ ref[i] = 1
    BY <1>12 DEF Unused
  <2>2. /\ \A q \in Procs : /\ th[q].ip # i /\ th[q].dp # i /\ th[q].ln # i
                            /\ cwd[q] # i
        /\ \A f \in Files : file[f].ip # i
    BY <1>2, <1>3, <2>1, FreedAlone
  <2>3. FreeInode \in InodeType /\ FreeInode.type = "none" /\ FreeInode.nlink = 0
    BY DEF FreeInode, NoEntries, InodeType, Ptrs
  <2>4. /\ dinode' \in [Inums -> InodeType]
        /\ \A j \in Inums : j # i => dinode'[j] = dinode[j]
        /\ dinode'[i].type = "none" /\ dinode'[i].nlink = 0
    BY <1>5, <1>12, <2>3 DEF Inv, TypeInv
  <2>5. TypeInv' /\ StageInv' /\ TableInv' /\ RefCounts'
    BY <1>2, <1>5, <1>6, <1>7, <1>8, <1>10, <2>4, CallStep, RefType DEF Inv
  <2>6. Dirs' = Dirs \ {i} /\ Dirs \subseteq Inums
    BY <2>4 DEF Dirs
  <2>7. TreeInv'
    <3>1. \A e \in Dirs' : dinode'[e].ent["."] = e /\ dinode'[e].ent[".."] # None
      BY <2>4, <2>6 DEF Inv, TreeInv
    <3>2. TreeShape'
      <4>1. \A e \in Dirs' : e \in Dirs /\ dinode'[e] = dinode[e]
        BY <2>4, <2>6
      <4> QED
        BY <4>1 DEF Inv, TreeInv, TreeShape
    <3>3. ASSUME NEW S \in SUBSET Dirs', S # {}
          PROVE  \E e \in S : \A m \in Names : dinode'[e].ent[m] \notin S
      <4>1. S \in SUBSET Dirs
        BY <2>6
      <4>2. PICK e \in S : \A m \in Names : dinode[e].ent[m] \notin S
        BY <3>3, <4>1 DEF Inv, TreeInv
      <4> QED
        BY <2>4, <2>6, <4>2
    <3> QED
      BY <3>1, <3>2, <3>3 DEF TreeInv
  <2>8. LinkInv'
    <3>1. ASSUME NEW j \in Inums
          PROVE  /\ Cardinality(NamesOf(j)') \in Nat /\ Cardinality(Subdirs(j)') \in Nat
                 /\ Cardinality(NamesOf(j)') <= Cardinality(NamesOf(j))
                 /\ Cardinality(Subdirs(j)') <= Cardinality(Subdirs(j))
                 /\ Cardinality(NamesOf(j)) \in Nat /\ Cardinality(Subdirs(j)) \in Nat
      <4>1. NamesOf(j)' \subseteq NamesOf(j) /\ Subdirs(j)' \subseteq Subdirs(j)
        BY <2>4, <2>6 DEF NamesOf, Subdirs
      <4>2. /\ IsFiniteSet(NamesOf(j)) /\ IsFiniteSet(Subdirs(j))
            /\ Cardinality(NamesOf(j)) \in Nat /\ Cardinality(Subdirs(j)) \in Nat
        BY NamesFinite
      <4>3. IsFiniteSet(NamesOf(j)') /\ Cardinality(NamesOf(j)') <= Cardinality(NamesOf(j))
        BY <4>1, <4>2, FS_Subset
      <4>4. IsFiniteSet(Subdirs(j)') /\ Cardinality(Subdirs(j)') <= Cardinality(Subdirs(j))
        BY <4>1, <4>2, FS_Subset
      <4> QED
        BY <4>2, <4>3, <4>4, FS_CardinalityType
    <3>2. \A j \in Inums : dinode'[j].nlink = dinode[j].nlink /\ dinode[j].nlink \in Int
      BY <2>1, <2>4, NlinkType
    <3>3. ASSUME NEW j \in Inums
          PROVE  Cardinality(NamesOf(j))' + Cardinality(Subdirs(j))'
                + One(r.ln, j) + One(Erased(r), j) - dinode'[j].nlink
              <= Cardinality(NamesOf(j)) + Cardinality(Subdirs(j))
                + One(th[p].ln, j) + One(Erased(th[p]), j) - dinode[j].nlink
      <4>1. /\ One(r.ln, j) = One(th[p].ln, j) /\ One(Erased(r), j) = One(Erased(th[p]), j)
            /\ One(th[p].ln, j) \in Int /\ One(Erased(th[p]), j) \in Int
        BY <1>2, <1>7, <1>8, OwnType
      <4> QED
        BY <3>1, <3>2, <4>1
    <3>4. \A j \in Inums : ~Allocated(j)' => dinode'[j].nlink = 0
      BY <2>4 DEF Inv, LinkInv, Allocated
    <3> QED
      BY <1>5, <1>6, <2>4, <3>1, <3>3, <3>4, LinkStep
  <2>9. LockInv'
    <3>1. \A j \in Inums : lock[j] # None => Allocated(j)'
      BY <1>5, <2>4, RefType DEF Allocated
    <3> QED
      BY <1>2, <1>5, <1>6, <1>8, <3>1, LockSame DEF Inv
  <2>10. KnowsInv'
    <3>1. ASSUME NEW q \in Procs
          PROVE  /\ th[q].at = "target" => th[q].dp \in Inums
                 /\ th[q].at \in {"got", "made"} => th[q].ip \in Inums
                 /\ th[q].ln # None => th[q].ln \in Inums
      <4>1. th[q] \in ThType /\ Stage(th[q])
        BY DEF Inv, TypeInv, StageInv
      <4> QED
        BY <4>1 DEF Stage, ThType, Ptrs
    <3>2. \A q \in Procs : q # p => th'[q] = th[q]
      BY <1>5 DEF Inv, TypeInv, Set
    <3>3. \A q \in Procs : q # p =>
           /\ th[q].at = "got" /\ IsDir(th[q].ip) => IsDir(th[q].ip)'
           /\ th[q].at = "made" /\ Allocated(th[q].ip) => Allocated(th[q].ip)'
           /\ th[q].ln # None /\ Allocated(th[q].ln) /\ ~IsDir(th[q].ln) =>
                Allocated(th[q].ln)' /\ ~IsDir(th[q].ln)'
           /\ th[q].at = "target" /\ IsDir(th[q].dp) =>
                IsDir(th[q].dp)' /\ dinode'[th[q].dp].ent = dinode[th[q].dp].ent
      BY <2>2, <2>4, <3>1, <3>2 DEF IsDir, Allocated
    <3>4. Knows(r)'
      <4>1. /\ r.at = "target" => r.dp \in Inums /\ r.dp # i
            /\ r.at \in {"got", "made"} => r.ip \in Inums /\ r.ip # i
            /\ r.ln # None => r.ln \in Inums /\ r.ln # i
        BY <1>2, <1>7, <2>2, <3>1
      <4> QED
        BY <1>8, <2>4, <4>1 DEF Knows, IsDir, Allocated
    <3>5. /\ cwd' = cwd /\ file' = file
          /\ \A q \in Procs : cwd[q] \in Ptrs
          /\ \A f \in Files : file[f].ip \in Ptrs
      BY <1>5, TableFacts DEF fileVars, FileType
    <3>6. /\ \A q \in Procs : cwd[q] # None /\ Allocated(cwd[q]) => Allocated(cwd[q])'
          /\ \A f \in Files :
               file[f].ip # None /\ Allocated(file[f].ip) => Allocated(file[f].ip)'
      BY <2>2, <2>4, <3>5 DEF Allocated, Ptrs
    <3> QED
      BY <1>5, <1>6, <3>3, <3>4, <3>6, KnowsStep
  <2> QED
    BY <2>5, <2>7, <2>8, <2>9, <2>10 DEF Inv
<1> QED
  BY <1>11, <1>12

(* What create() writes.                                                    *)
LEMMA CreateWrites ==
  ASSUME Inv, NEW d \in Inums, IsDir(d), NEW i \in Inums, ~Allocated(i),
         NEW c \in Creating, NEW n \in Names,
         dinode' = [dinode EXCEPT ![i] = [type |-> TypeOf(c), nlink |-> 1,
                                          ent |-> NewEntries(c, i, d)],
                                  ![d].nlink = ParentLinks(c, @),
                                  ![d].ent[n] = i]
  PROVE  /\ i # d /\ dinode' \in [Inums -> InodeType]
         /\ dinode'[i].type \in {"dir", "file", "dev"} /\ dinode'[i].nlink = 1
         /\ dinode'[i].type = "dir" <=> c = "mkdir"
         /\ \A j \in Inums : j # i => dinode'[j].type = dinode[j].type
         /\ \A j \in Inums : j # i /\ j # d => dinode'[j] = dinode[j]
         /\ dinode'[d].nlink = IF c = "mkdir" THEN dinode[d].nlink + 1 ELSE dinode[d].nlink
         /\ \A m \in AllNames : dinode'[d].ent[m] = IF m = n THEN i ELSE dinode[d].ent[m]
         /\ \A m \in Names : dinode'[i].ent[m] = None
         /\ c = "mkdir" => dinode'[i].ent["."] = i /\ dinode'[i].ent[".."] = d
<1>1. i # d
  BY DEF Allocated, IsDir
<1>2. PICK e : e = [type |-> TypeOf(c), nlink |-> 1, ent |-> NewEntries(c, i, d)]
  OBVIOUS
<1>3. /\ NewEntries(c, i, d) \in [AllNames -> Ptrs]
      /\ \A m \in Names : NewEntries(c, i, d)[m] = None
      /\ c = "mkdir" => NewEntries(c, i, d)["."] = i /\ NewEntries(c, i, d)[".."] = d
  BY NamesAssumption, NoInum DEF NewEntries, NoEntries, AllNames, Ptrs
<1>4. TypeOf(c) \in {"dir", "file", "dev"} /\ (TypeOf(c) = "dir" <=> c = "mkdir")
  BY DEF TypeOf
<1>5. e \in InodeType
  BY <1>2, <1>3, <1>4 DEF InodeType
<1>6. e.type = TypeOf(c) /\ e.nlink = 1 /\ e.ent = NewEntries(c, i, d)
  BY <1>2
<1>7. PICK k : k = ParentLinks(c, dinode[d].nlink)
  OBVIOUS
<1>8. k = (IF c = "mkdir" THEN dinode[d].nlink + 1 ELSE dinode[d].nlink) /\ k \in Int
  BY <1>7, NlinkType DEF ParentLinks
<1>9. dinode \in [Inums -> InodeType] /\ dinode[d] \in InodeType /\ i \in Ptrs /\ n \in AllNames
  BY NoInum DEF Inv, TypeInv, AllNames
<1>10. PICK g : g = [dinode[d] EXCEPT !.nlink = k, !.ent[n] = i]
  OBVIOUS
<1>11. /\ g \in InodeType /\ g.type = dinode[d].type /\ g.nlink = k
       /\ \A m \in AllNames : g.ent[m] = IF m = n THEN i ELSE dinode[d].ent[m]
  BY <1>8, <1>9, <1>10 DEF InodeType
<1>12. dinode' = [dinode EXCEPT ![i] = e, ![d] = g]
  BY <1>1, <1>2, <1>7, <1>9, <1>10 DEF InodeType
<1>13. /\ dinode' \in [Inums -> InodeType] /\ dinode'[i] = e /\ dinode'[d] = g
       /\ \A j \in Inums : j # i /\ j # d => dinode'[j] = dinode[j]
  <2>1. g \in InodeType
    BY <1>11
  <2>2. DOMAIN dinode = Inums
    BY <1>9
  <2>3. \A j \in Inums : dinode'[j] = IF j = d THEN g ELSE IF j = i THEN e ELSE dinode[j]
    BY <1>12, <2>2, Zenon
  <2>4. dinode' \in [Inums -> InodeType]
    BY <1>5, <1>9, <1>12, <2>1
  <2> QED
    BY <1>1, <2>3, <2>4, Zenon
<1> QED
  BY <1>1, <1>3, <1>4, <1>6, <1>8, <1>11, <1>13

(* create() makes an inode that nothing named before; a new directory has   *)
(* no entries, so it is on no cycle.                                        *)
LEMMA CreateNewInv ==
  ASSUME Inv, NEW p \in Procs, CreateNew(p)
  PROVE  Inv'
<1>1. /\ At(p, "got") /\ WantsParent(th[p]) /\ th[p].call \in Creating
      /\ th[p].call # "link"
  BY DEF CreateNew, WantsParent, Creating
<1>2. /\ th[p] \in ThType /\ Settled(th[p]) /\ th[p].at = "got"
      /\ th[p].ip \in Inums /\ th[p].dp = None /\ IsDir(th[p].ip)
      /\ Head(th[p].path) \in AllNames
      /\ th[p].ln = None /\ Keeps(th[p]) = None
  BY <1>1, GotFacts
<1>3. PICK o \in ThType : o = th[p]
  BY <1>2
<1>4. PICK d \in Inums : d = o.ip
  BY <1>2, <1>3
<1>5. PICK c \in Creating : c = o.call
  BY <1>1, <1>3
<1>6. PICK n \in Names : n = Head(o.path) /\ dinode[d].ent[n] = None
  BY <1>2, <1>3, <1>4, NoInum DEF CreateNew, Inv, TreeInv, Dirs, IsDir, AllNames
<1>7. PICK i \in Inums :
        /\ i \in FreeInums
        /\ dinode' = [dinode EXCEPT ![i] = [type |-> TypeOf(c), nlink |-> 1,
                                            ent |-> NewEntries(c, i, d)],
                                    ![d].nlink = ParentLinks(c, @),
                                    ![d].ent[n] = i]
        /\ ref' = Got(i) /\ lock' = [lock EXCEPT ![i] = p]
        /\ Set(p, [o EXCEPT !.at = "made", !.ip = i, !.path = <<>>, !.put = d])
  BY <1>3, <1>4, <1>5, <1>6 DEF CreateNew, IsFirst
<1>8. lock[d] = None /\ IsDir(d) /\ ~Allocated(i) /\ UNCHANGED <<fileVars, prog>>
  BY <1>2, <1>3, <1>4, <1>7 DEF CreateNew, Lockable, FreeInums, Allocated
<1>9. /\ i # d /\ dinode' \in [Inums -> InodeType]
      /\ dinode'[i].type \in {"dir", "file", "dev"} /\ dinode'[i].nlink = 1
      /\ dinode'[i].type = "dir" <=> c = "mkdir"
      /\ \A j \in Inums : j # i => dinode'[j].type = dinode[j].type
      /\ \A j \in Inums : j # i /\ j # d => dinode'[j] = dinode[j]
      /\ dinode'[d].nlink = IF c = "mkdir" THEN dinode[d].nlink + 1 ELSE dinode[d].nlink
      /\ \A m \in AllNames : dinode'[d].ent[m] = IF m = n THEN i ELSE dinode[d].ent[m]
      /\ \A m \in Names : dinode'[i].ent[m] = None
      /\ c = "mkdir" => dinode'[i].ent["."] = i /\ dinode'[i].ent[".."] = d
  BY <1>7, <1>8, CreateWrites
<1>10. PICK r : r = [o EXCEPT !.at = "made", !.ip = i, !.path = <<>>, !.put = d]
  OBVIOUS
<1>11. Set(p, r)
  BY <1>7, <1>10
<1>12. r \in ThType
  <2>1. "made" \in Stages /\ i \in Ptrs /\ d \in Ptrs /\ <<>> \in Seq(AllNames)
    BY NoInum DEF Stages
  <2> QED
    BY <1>10, <2>1 DEF ThType
<1>13. /\ r.at = "made" /\ r.ip = i /\ r.dp = None /\ r.ln = None /\ r.put = d
       /\ r.also = o.also /\ r.drop = o.drop
  BY <1>2, <1>3, <1>10 DEF ThType
<1>14. Stage(r) /\ Keeps(r) = i /\ Erased(r) = None /\ Erased(o) = None
  BY <1>2, <1>3, <1>13, NoInum DEF Stage, Resting, Keeps, Erased
<1>15. \A j \in Inums : Own(r, j) = Own(o, j) + One(i, j)
  BY <1>2, <1>3, <1>4, <1>13, NoInum DEF Own, One, Settled
<1>16. ref' \in [Inums -> Int] /\ \A j \in Inums : ref'[j] = ref[j] + One(i, j)
  BY <1>7, GotRef
<1>17. \A j \in Inums : ref'[j] = ref[j] + Own(r, j) - Own(th[p], j)
  BY <1>3, <1>15, <1>16, OwnType, RefType
<1>18. /\ lock[i] = None /\ lock' \in [Inums -> Procs \cup {None}]
       /\ \A j \in Inums : lock'[j] = IF j = i THEN p ELSE lock[j]
  BY <1>7, <1>8, RefType
<1>19. TypeInv' /\ StageInv' /\ TableInv' /\ RefCounts'
  BY <1>2, <1>8, <1>9, <1>11, <1>12, <1>13, <1>14, <1>16, <1>17, <1>18, CallStep DEF Inv
<1>20. LockInv'
  <2>1. \A j \in Inums : lock'[j] # None => Allocated(j)'
    BY <1>9, <1>18, RefType DEF Allocated
  <2> QED
    BY <1>2, <1>7, <1>11, <1>12, <1>14, <1>18, <2>1, LockTake DEF Inv
(* Nothing names a free inode.                                              *)
<1>21. /\ NamesOf(i) = {} /\ i \notin Dirs
       /\ \A e \in Dirs, m \in Names : dinode[e].ent[m] # i
  <2>1. i \notin Dirs
    BY <1>8 DEF Dirs, Allocated
  <2>2. /\ Cardinality(NamesOf(i)) + Cardinality(Subdirs(i)) + Cardinality(Linking(i))
             + Cardinality(Unlinking(i)) + Rooted(i) <= 0
    BY <1>8 DEF Inv, LinkInv
  <2>3. /\ Cardinality(NamesOf(i)) \in Nat /\ Cardinality(Subdirs(i)) \in Nat
        /\ IsFiniteSet(NamesOf(i))
    BY NamesFinite
  <2>4. Cardinality(Linking(i)) \in Nat /\ Cardinality(Unlinking(i)) \in Nat
    BY <1>11, <1>12, PendingStep DEF Inv
  <2>5. Cardinality(NamesOf(i)) = 0
    BY <2>2, <2>3, <2>4, RootedType
  <2>6. NamesOf(i) = {}
    BY <2>3, <2>5, FS_EmptySet
  <2>7. ASSUME NEW e \in Dirs, NEW m \in Names, dinode[e].ent[m] = i PROVE FALSE
    <3>1. <<e, m>> \in NamesOf(i)
      BY <2>7 DEF NamesOf
    <3> QED
      BY <2>6, <3>1
  <2> QED
    BY <2>1, <2>6, <2>7
<1>22. /\ Dirs' = (IF c = "mkdir" THEN Dirs \cup {i} ELSE Dirs)
       /\ Dirs \subseteq Inums /\ d \in Dirs
  BY <1>8, <1>9, <1>21 DEF Dirs, IsDir
<1>23. /\ Names \subseteq AllNames /\ "." \in AllNames /\ ".." \in AllNames
       /\ n # "." /\ n # ".."
  BY NamesAssumption DEF AllNames
<1>24. TreeInv'
  <2>1. ASSUME NEW e \in Dirs'
        PROVE  dinode'[e].ent["."] = e /\ dinode'[e].ent[".."] # None
    <3>1. CASE e = i
      <4>1. c = "mkdir"
        BY <1>21, <1>22, <3>1
      <4> QED
        BY <1>9, <3>1, <4>1, NoInum
    <3>2. CASE e # i
      <4>1. e \in Dirs
        BY <1>22, <3>2
      <4>2. dinode[e].ent["."] = e /\ dinode[e].ent[".."] # None
        BY <4>1 DEF Inv, TreeInv
      <4>3. dinode'[e].ent["."] = dinode[e].ent["."] /\ dinode'[e].ent[".."] = dinode[e].ent[".."]
        BY <1>9, <1>22, <1>23, <3>2, <4>1
      <4> QED
        BY <4>2, <4>3
    <3> QED
      BY <3>1, <3>2
  <2>2. TreeShape'
    <3>1. SUFFICES ASSUME NEW e \in Dirs', NEW m \in Names, dinode'[e].ent[m] \in Dirs'
                   PROVE  /\ dinode'[dinode'[e].ent[m]].ent[".."] = e
                          /\ dinode'[dinode'[e].ent[m]].ent["."] = dinode'[e].ent[m]
      BY DEF TreeShape
    <3>2. e # i
      BY <1>9, <1>22, <3>1, NoInum
    <3>3. CASE e = d /\ m = n
      BY <1>9, <1>21, <1>22, <1>23, <3>1, <3>3
    <3>4. CASE ~(e = d /\ m = n)
      <4>1. e \in Dirs /\ dinode'[e].ent[m] = dinode[e].ent[m]
        BY <1>9, <1>22, <1>23, <3>2, <3>4
      <4>2. dinode[e].ent[m] # i
        BY <1>21, <4>1
      <4>3. PICK x \in Dirs : x = dinode[e].ent[m]
        BY <1>22, <3>1, <4>1, <4>2
      <4>4. dinode[x].ent[".."] = e /\ dinode[x].ent["."] = x
        BY <4>1, <4>3 DEF Inv, TreeInv, TreeShape
      <4>5. dinode'[x].ent[".."] = e /\ dinode'[x].ent["."] = x
        BY <1>9, <1>21, <1>22, <1>23, <4>4
      <4> QED
        BY <4>1, <4>3, <4>5
    <3> QED
      BY <3>3, <3>4
  <2>3. ASSUME NEW S \in SUBSET Dirs', S # {}
        PROVE  \E e \in S : \A m \in Names : dinode'[e].ent[m] \notin S
    <3>1. None \notin S
      BY <1>22, NoInum
    <3>2. CASE i \in S
      BY <1>9, <3>1, <3>2
    <3>3. CASE i \notin S
      <4>1. S \in SUBSET Dirs
        BY <1>22, <3>3
      <4>2. PICK e \in S : \A m \in Names : dinode[e].ent[m] \notin S
        BY <2>3, <4>1 DEF Inv, TreeInv
      <4>3. \A m \in Names : dinode'[e].ent[m] = dinode[e].ent[m] \/ dinode'[e].ent[m] = i
        BY <1>9, <1>22, <1>23, <3>3, <4>1
      <4> QED
        BY <3>3, <4>2, <4>3
    <3> QED
      BY <3>2, <3>3
  <2> QED
    BY <2>1, <2>2, <2>3 DEF TreeInv
<1>25. ASSUME NEW j \in Inums
       PROVE  /\ Cardinality(NamesOf(j)') = Cardinality(NamesOf(j)) + One(i, j)
              /\ Cardinality(NamesOf(j)) \in Nat
  <2>1. CASE j = i
    <3>1. NamesOf(j)' = {<<d, n>>}
      <4>1. ASSUME NEW e \in Dirs', NEW m \in Names, dinode'[e].ent[m] = i
            PROVE  e = d /\ m = n
        BY <1>9, <1>21, <1>22, <1>23, <4>1, NoInum
      <4>2. d \in Dirs' /\ dinode'[d].ent[n] = i
        BY <1>9, <1>22, <1>23
      <4> QED
        BY <2>1, <4>1, <4>2 DEF NamesOf
    <3>2. Cardinality(NamesOf(j)') = 1 /\ Cardinality(NamesOf(j)) = 0
      BY <1>21, <2>1, <3>1, FS_Singleton, FS_EmptySet
    <3> QED
      BY <2>1, <3>2 DEF One
  <2>2. CASE j # i
    <3>1. ASSUME NEW e \in Inums, NEW m \in Names
          PROVE  e \in Dirs' /\ dinode'[e].ent[m] = j <=> e \in Dirs /\ dinode[e].ent[m] = j
      BY <1>6, <1>9, <1>21, <1>22, <1>23, <2>2, NoInum
    <3>2. Dirs' \subseteq Inums
      BY <1>22
    <3>3. NamesOf(j)' = NamesOf(j)
      BY <1>22, <3>1, <3>2 DEF NamesOf
    <3>4. Cardinality(NamesOf(j)) \in Nat /\ One(i, j) = 0
      BY <2>2, NamesFinite DEF One
    <3> QED
      BY <3>3, <3>4
  <2> QED
    BY <2>1, <2>2
<1>26. ASSUME NEW j \in Inums
       PROVE  /\ Cardinality(Subdirs(j)) \in Nat
              /\ Cardinality(Subdirs(j)') =
                   Cardinality(Subdirs(j)) + (IF j = d /\ c = "mkdir" THEN 1 ELSE 0)
  <2> DEFINE A == Subdirs(j)
             B == Subdirs(j)'
  <2>1. A \in SUBSET Names /\ B \in SUBSET Names /\ IsFiniteSet(Names)
    BY NamesAssumption DEF Subdirs
  <2>2. ASSUME NEW m \in Names, ~(j = d /\ m = n) PROVE m \in A <=> m \in B
    <3>1. CASE j = i
      BY <1>9, <1>21, <1>22, <2>2, <3>1, NoInum DEF Subdirs
    <3>2. CASE j # i
      <4>1. dinode'[j].ent[m] = dinode[j].ent[m]
        BY <1>9, <1>23, <2>2, <3>2
      <4>2. j \in Dirs => dinode[j].ent[m] # i
        BY <1>21
      <4> QED
        BY <1>22, <3>2, <4>1, <4>2 DEF Subdirs
    <3> QED
      BY <3>1, <3>2
  <2>3. n \notin A \/ j # d
    BY <1>6, <1>22, NoInum DEF Subdirs
  <2>4. j = d => (n \in B <=> c = "mkdir")
    BY <1>9, <1>21, <1>22, <1>23 DEF Subdirs
  <2>5. A \ {n} = B \ {n}
    BY <2>1, <2>2
  <2>6. j # d => (n \in A <=> n \in B)
    BY <2>2
  <2> HIDE DEF A, B
  <2>7. /\ Cardinality(A) \in Nat
        /\ Cardinality(B) = Cardinality(A) + (IF j = d /\ c = "mkdir" THEN 1 ELSE 0)
    BY <2>1, <2>3, <2>4, <2>5, <2>6, CountOne
  <2> QED
    BY <2>7 DEF A, B
<1>27. LinkInv'
  <2>1. ASSUME NEW j \in Inums
        PROVE  /\ Cardinality(NamesOf(j))' \in Nat /\ Cardinality(Subdirs(j))' \in Nat
               /\ Cardinality(NamesOf(j))' + Cardinality(Subdirs(j))'
                    + One(r.ln, j) + One(Erased(r), j) - dinode'[j].nlink
                  <= Cardinality(NamesOf(j)) + Cardinality(Subdirs(j))
                    + One(th[p].ln, j) + One(Erased(th[p]), j) - dinode[j].nlink
    <3>1. /\ One(r.ln, j) = 0 /\ One(Erased(r), j) = 0
          /\ One(th[p].ln, j) = 0 /\ One(Erased(th[p]), j) = 0
      BY <1>2, <1>3, <1>13, <1>14, NoInum DEF One
    <3>2. dinode[i].nlink = 0
      BY <1>8 DEF Inv, LinkInv
    <3>3. /\ dinode'[j].nlink = dinode[j].nlink + One(i, j)
               + (IF j = d /\ c = "mkdir" THEN 1 ELSE 0)
          /\ dinode[j].nlink \in Int
      BY <1>9, <3>2, NlinkType DEF One
    <3>4. One(i, j) \in {0, 1}
      BY DEF One
    <3> QED
      BY <1>25, <1>26, <3>1, <3>3, <3>4
  <2>2. \A j \in Inums : ~Allocated(j)' => dinode'[j].nlink = 0
    BY <1>8, <1>9 DEF Inv, LinkInv, Allocated, IsDir
  <2> QED
    BY <1>9, <1>11, <1>12, <2>1, <2>2, LinkStep
<1>28. KnowsInv'
  <2>1. ASSUME NEW q \in Procs, q # p
        PROVE  /\ th'[q] = th[q]
               /\ th[q].at = "target" => th[q].dp \in Inums /\ th[q].dp # d
               /\ th[q].at \in {"got", "made"} => th[q].ip \in Inums
               /\ th[q].ln # None => th[q].ln \in Inums
    <3>1. th'[q] = th[q] /\ th[q] \in ThType /\ Stage(th[q])
      BY <1>11, <2>1 DEF Inv, TypeInv, StageInv, Set
    <3>2. th[q].at = "target" => Keeps(th[q]) = th[q].dp /\ th[q].dp \in Inums
      BY <3>1 DEF Keeps, Stage, ThType, Ptrs
    <3>3. th[q].at = "target" => lock[th[q].dp] = q
      BY <3>2 DEF Inv, LockInv
    <3>4. None \notin Procs
      BY TableFacts
    <3> QED
      BY <1>8, <3>1, <3>2, <3>3, <3>4 DEF Stage, ThType, Ptrs
  <2>2. \A j \in Inums : Allocated(j) => j # i
    BY <1>8
  <2>3. \A j \in Inums : IsDir(j) => Allocated(j)
    BY DEF IsDir, Allocated
  <2>4. \A q \in Procs : q # p =>
           /\ th[q].at = "got" /\ IsDir(th[q].ip) => IsDir(th[q].ip)'
           /\ th[q].at = "made" /\ Allocated(th[q].ip) => Allocated(th[q].ip)'
           /\ th[q].ln # None /\ Allocated(th[q].ln) /\ ~IsDir(th[q].ln) =>
                Allocated(th[q].ln)' /\ ~IsDir(th[q].ln)'
           /\ th[q].at = "target" /\ IsDir(th[q].dp) =>
                IsDir(th[q].dp)' /\ dinode'[th[q].dp].ent = dinode[th[q].dp].ent
    BY <1>9, <2>1, <2>2, <2>3 DEF IsDir, Allocated
  <2>5. /\ cwd' = cwd /\ file' = file
        /\ \A q \in Procs : cwd[q] \in Ptrs
        /\ \A f \in Files : file[f].ip \in Ptrs
    BY <1>8, TableFacts DEF fileVars, FileType
  <2>6. /\ \A q \in Procs : cwd[q] # None /\ Allocated(cwd[q]) => Allocated(cwd[q])'
        /\ \A f \in Files : file[f].ip # None /\ Allocated(file[f].ip) => Allocated(file[f].ip)'
    BY <1>9, <2>2, <2>5 DEF Allocated, Ptrs
  <2>7. Knows(r)'
    BY <1>9, <1>13 DEF Knows, Allocated
  <2> QED
    BY <1>8, <1>11, <1>12, <2>4, <2>6, <2>7, KnowsStep
<1> QED
  BY <1>19, <1>20, <1>24, <1>27, <1>28 DEF Inv

-----------------------------------------------------------------------------
(* The invariant is inductive.                                              *)

(* What mkfs and userinit() leave is a consistent file system.              *)
LEMMA InitInv == Init => Inv
<1> SUFFICES ASSUME Init PROVE Inv
  OBVIOUS
<1>1. /\ ROOTINO \in Inums /\ 1 \in Procs /\ None \notin Procs
      /\ Names \subseteq AllNames /\ "." \in AllNames /\ ".." \in AllNames
      /\ "." \notin Names /\ ".." \notin Names
  BY SizeAssumption, NamesAssumption DEF ROOTINO, Inums, Procs, AllNames, None
<1>2. PICK e : e = [n \in AllNames |-> IF n \in Names THEN None ELSE ROOTINO]
  OBVIOUS
<1>3. e \in [AllNames -> Ptrs] /\ NoEntries \in [AllNames -> Ptrs]
  BY <1>1, <1>2, NoInum DEF NoEntries, Ptrs
<1>4. /\ [type |-> "dir", nlink |-> 1, ent |-> e] \in InodeType
      /\ FreeInode \in InodeType
  BY <1>3 DEF InodeType, FreeInode
<1>5. dinode = [i \in Inums |-> IF i = ROOTINO THEN [type |-> "dir", nlink |-> 1, ent |-> e]
                                 ELSE FreeInode]
  BY <1>2 DEF Init
<1>6. /\ dinode \in [Inums -> InodeType]
      /\ dinode[ROOTINO].type = "dir" /\ dinode[ROOTINO].nlink = 1 /\ dinode[ROOTINO].ent = e
      /\ \A i \in Inums : i # ROOTINO => dinode[i].type = "none" /\ dinode[i].nlink = 0
  BY <1>1, <1>4, <1>5 DEF FreeInode
<1>7. ASSUME NEW p \in Procs
      PROVE  /\ th[p] \in ThType /\ Stage(th[p]) /\ Knows(th[p]) /\ Keeps(th[p]) = None
             /\ th[p].ip = None /\ th[p].dp = None /\ th[p].ln = None
             /\ th[p].put = None /\ th[p].also = None /\ th[p].drop = None
             /\ th[p].at = (IF p = 1 THEN "user" ELSE "dead")
  <2>1. PICK r : r = [Idle EXCEPT !.at = "dead"]
    OBVIOUS
  <2>2. "dead" \in Stages
    BY DEF Stages, Resting
  <2>3. r \in ThType
    BY <2>1, <2>2, IdleRecord DEF ThType
  <2>4. /\ r.at = "dead" /\ r.ip = None /\ r.dp = None /\ r.ln = None
        /\ r.put = None /\ r.also = None /\ r.drop = None
    BY <2>1 DEF Idle
  <2>5. Stage(r) /\ Knows(r) /\ Keeps(r) = None
    BY <2>4 DEF Stage, Resting, Knows, Keeps
  <2>6. /\ Idle.ip = None /\ Idle.dp = None
        /\ Idle.put = None /\ Idle.also = None /\ Idle.drop = None
    BY DEF Idle
  <2>7. th[p] = IF p = 1 THEN Idle ELSE r
    BY <2>1 DEF Init
  <2> QED
    BY <2>3, <2>4, <2>5, <2>6, <2>7, IdleRecord
<1>8. /\ ref \in [Inums -> Int] /\ lock \in [Inums -> Procs \cup {None}]
      /\ \A i \in Inums : lock[i] = None /\ ref[i] = IF i = ROOTINO THEN 1 ELSE 0
  BY DEF Init
<1>9. /\ file \in [Files -> FileType]
      /\ \A f \in Files : file[f].ref = 0 /\ file[f].ip = None
  BY DEF Init, FileType, Ptrs
<1>10. /\ ofile \in [Procs -> [Fds -> Files \cup {None}]]
       /\ \A p \in Procs, d \in Fds : ofile[p][d] = None
  BY DEF Init
<1>11. /\ cwd \in [Procs -> Ptrs]
       /\ \A p \in Procs : cwd[p] = IF p = 1 THEN ROOTINO ELSE None
  BY <1>1, NoInum DEF Init, Ptrs
<1>12. TypeInv
  <2>1. th \in [Procs -> ThType]
    BY <1>7 DEF Init
  <2> QED
    BY <1>6, <1>8, <1>9, <1>10, <1>11, <2>1 DEF TypeInv, Init
<1>13. StageInv /\ TableInv
  BY <1>1, <1>7, <1>9, <1>10, <1>11, NoInum DEF StageInv, TableInv
<1>14. RefCounts
  <2>1. ASSUME NEW i \in Inums PROVE ref[i] = Users(i) + Pointers(i)
    <3>1. i # None
      BY NoInum
    <3>2. {p \in Procs : cwd[p] = i} = IF i = ROOTINO THEN {1} ELSE {}
      BY <1>1, <1>11, <3>1
    <3>3. {f \in Files : file[f].ip = i} = {}
      BY <1>9, <3>1
    <3>4. Users(i) = (IF i = ROOTINO THEN 1 ELSE 0) + 0
      BY <3>2, <3>3, FS_EmptySet, FS_Singleton DEF Users
    <3>5. /\ {p \in Procs : th[p]["ip"] = i} = {} /\ {p \in Procs : th[p]["dp"] = i} = {}
          /\ {p \in Procs : th[p]["ln"] = i} = {} /\ {p \in Procs : th[p]["put"] = i} = {}
          /\ {p \in Procs : th[p]["also"] = i} = {} /\ {p \in Procs : th[p]["drop"] = i} = {}
      BY <1>7, <3>1
    <3>6. Pointers(i) = 0 + 0 + 0 + 0 + 0 + 0
      BY <3>5, FS_EmptySet DEF Pointers
    <3> QED
      BY <1>8, <3>4, <3>6
  <2>2. ASSUME NEW f \in Files
        PROVE  file[f].ref = Cardinality({x \in Procs \X Fds : ofile[x[1]][x[2]] = f})
    <3>1. f # None
      BY SizeAssumption DEF Files, None
    <3>2. {x \in Procs \X Fds : ofile[x[1]][x[2]] = f} = {}
      BY <1>10, <3>1
    <3> QED
      BY <1>9, <3>2, FS_EmptySet
  <2> QED
    BY <2>1, <2>2 DEF RefCounts
<1>15. KnowsInv
  BY <1>6, <1>7, <1>9, <1>11 DEF KnowsInv, Allocated
<1>16. LockInv
  BY <1>1, <1>7, <1>8, NoInum DEF LockInv
<1>17. Dirs = {ROOTINO} /\ \A n \in Names : dinode[ROOTINO].ent[n] = None
  BY <1>1, <1>2, <1>6 DEF Dirs
<1>18. TreeInv
  <2>1. dinode[ROOTINO].ent["."] = ROOTINO /\ dinode[ROOTINO].ent[".."] = ROOTINO
    BY <1>1, <1>2, <1>6
  <2>2. TreeShape
    BY <1>1, <1>17, NoInum DEF TreeShape
  <2>3. ASSUME NEW S \in SUBSET Dirs, S # {}
        PROVE  \E d \in S : \A n \in Names : dinode[d].ent[n] \notin S
    <3>1. S = {ROOTINO}
      BY <1>17, <2>3
    <3> QED
      BY <1>1, <1>17, <3>1, NoInum
  <2> QED
    BY <1>1, <1>17, <2>1, <2>2, <2>3, NoInum DEF TreeInv
<1>19. LinkInv
  <2>1. ASSUME NEW i \in Inums
        PROVE  Cardinality(NamesOf(i)) + Cardinality(Subdirs(i)) + Cardinality(Linking(i))
                 + Cardinality(Unlinking(i)) + Rooted(i) <= dinode[i].nlink
    <3>1. NamesOf(i) = {} /\ Subdirs(i) = {}
      BY <1>1, <1>17, NoInum DEF NamesOf, Subdirs
    <3>2. Linking(i) = {} /\ Unlinking(i) = {}
      BY <1>7, NoInum DEF Linking, Unlinking
    <3> QED
      BY <1>6, <3>1, <3>2, FS_EmptySet DEF Rooted
  <2> QED
    BY <1>6, <2>1 DEF LinkInv, Allocated
<1> QED
  BY <1>12, <1>13, <1>14, <1>15, <1>16, <1>18, <1>19 DEF Inv

(* A system call starts, or one that takes a single step runs.              *)
LEMMA SysCallInv ==
  ASSUME Inv, NEW p \in Procs, SysCall(p)
  PROVE  Inv'
<1>1. CASE \E u \in prog.uses : SysPath(p, u[1], u[2])
  BY <1>1, SysPathInv
<1>2. CASE \E l \in prog.links : SysLink(p, l[1], l[2])
  BY <1>2, SysLinkInv
<1>3. CASE \E d \in Fds : Close(p, d)
  BY <1>3, CloseInv
<1>4. CASE \E d \in Fds : SysDup(p, d)
  BY <1>4, SysDupInv
<1>5. CASE \E q \in Procs : Fork(p, q)
  BY <1>5, ForkInv
<1>6. CASE SysExit(p)
  BY <1>6, SysExitInv
<1> QED
  BY <1>1, <1>2, <1>3, <1>4, <1>5, <1>6 DEF SysCall

(* A call goes on by one critical section.                                  *)
LEMMA KernelStepInv ==
  ASSUME Inv, NEW p \in Procs, KernelStep(p)
  PROVE  Inv'
<1>1. CASE IputLocked(p)
  BY <1>1, IputLockedInv
<1>2. CASE IputRef(p)
  BY <1>2, IputRefInv
<1>3. CASE NamexStep(p)
  BY <1>3, NamexStepInv
<1>4. CASE OpenFound(p)
  BY <1>4, OpenFoundInv
<1>5. CASE CreateFound(p)
  BY <1>5, CreateFoundInv
<1>6. CASE CreateExists(p)
  BY <1>6, CreateExistsInv
<1>7. CASE CreateNew(p)
  BY <1>7, CreateNewInv
<1>8. CASE CreateDone(p)
  BY <1>8, CreateDoneInv
<1>9. CASE Chdir(p)
  BY <1>9, ChdirInv
<1>10. CASE LinkOld(p)
  BY <1>10, LinkOldInv
<1>11. CASE LinkNew(p)
  BY <1>11, LinkNewInv
<1>12. CASE LinkTaken(p)
  BY <1>12, LinkTakenInv
<1>13. CASE LinkTakenDone(p)
  BY <1>13, LinkTakenDoneInv
<1>14. CASE LinkBad(p)
  BY <1>14, LinkBadInv
<1>15. CASE UnlinkRefused(p)
  BY <1>15, UnlinkRefusedInv
<1>16. CASE UnlinkFound(p)
  BY <1>16, UnlinkFoundInv
<1>17. CASE UnlinkNotEmpty(p)
  BY <1>17, UnlinkNotEmptyInv
<1>18. CASE UnlinkNotEmptyDone(p)
  BY <1>18, UnlinkNotEmptyDoneInv
<1>19. CASE UnlinkErase(p)
  BY <1>19, UnlinkEraseInv
<1>20. CASE UnlinkDone(p)
  BY <1>20, UnlinkDoneInv
<1>21. CASE ExitCwd(p)
  BY <1>21, ExitCwdInv
<1>22. CASE IlockPanic(p) \/ IallocPanic(p)
  BY <1>22, SameInv DEF IlockPanic, IallocPanic
<1> QED
  BY <1>1, <1>2, <1>3, <1>4, <1>5, <1>6, <1>7, <1>8, <1>9, <1>10, <1>11, <1>12,
     <1>13, <1>14, <1>15, <1>16, <1>17, <1>18, <1>19, <1>20, <1>21, <1>22
     DEF KernelStep

(* Every step keeps the invariant.                                          *)
LEMMA NextInv == Inv /\ [Next]_vars => Inv'
<1> SUFFICES ASSUME Inv, [Next]_vars PROVE Inv'
  OBVIOUS
<1>1. CASE Halted \/ UNCHANGED vars
  BY <1>1, SameInv DEF Halted, vars, fileVars
<1>2. CASE \E p \in Procs : SysCall(p) \/ KernelStep(p)
  BY <1>2, SysCallInv, KernelStepInv
<1> QED
  BY <1>1, <1>2 DEF Next

-----------------------------------------------------------------------------
(* Theorems.                                                                *)

(* The inductive invariant holds in every state.                            *)
THEOREM Invariant == Spec => []Inv
BY InitInv, NextInv, PTL DEF Spec

(* ip->ref counts every pointer to an inode and f->ref every descriptor of  *)
(* a file, through every early return of namex(), create(), link() and      *)
(* unlink() and between the two halves of iput().                           *)
THEOREM RefCountsExact == Spec => []RefCounts
<1>1. Inv => RefCounts
  BY DEF Inv
<1> QED
  BY <1>1, Invariant, PTL

(* iput() never frees an inode that is open or somebody's current           *)
(* directory.                                                               *)
THEOREM OpenStaysAllocated == Spec => []OpenAllocated
<1>1. Inv => OpenAllocated
  <2> SUFFICES ASSUME Inv, NEW i \in Inums, ~Allocated(i) PROVE ~(Users(i) > 0)
    BY DEF OpenAllocated, Allocated
  <2>1. {p \in Procs : cwd[p] = i} = {} /\ {f \in Files : file[f].ip = i} = {}
    BY NoInum DEF Inv, KnowsInv
  <2>2. Users(i) = 0 + 0
    BY <2>1, FS_EmptySet DEF Users
  <2> QED
    BY <2>2
<1> QED
  BY <1>1, Invariant, PTL

(* nlink covers the names of an inode and the subdirectories of a           *)
(* directory, however link(), unlink() and create() interleave.             *)
THEOREM LinkCountsCover == Spec => []LinksCovered
<1>1. Inv => LinksCovered
  <2> SUFFICES ASSUME Inv, NEW i \in Inums
               PROVE  Cardinality(NamesOf(i)) + Cardinality(Subdirs(i)) <= dinode[i].nlink
    BY DEF LinksCovered
  <2>1. Cardinality(NamesOf(i)) \in Nat /\ Cardinality(Subdirs(i)) \in Nat
    BY NamesFinite
  <2>2. Cardinality(Linking(i)) \in Nat /\ Cardinality(Unlinking(i)) \in Nat
    <3>1. IsFiniteSet(Linking(i)) /\ IsFiniteSet(Unlinking(i))
      BY FiniteTables, FS_Subset DEF Linking, Unlinking
    <3> QED
      BY <3>1, FS_CardinalityType
  <2>3. dinode[i].nlink \in Int
    BY NlinkType
  <2>4. Cardinality(NamesOf(i)) + Cardinality(Subdirs(i)) + Cardinality(Linking(i))
          + Cardinality(Unlinking(i)) + Rooted(i) <= dinode[i].nlink
    BY DEF Inv, LinkInv
  <2> QED
    BY <2>1, <2>2, <2>3, <2>4, RootedType
<1> QED
  BY <1>1, Invariant, PTL

(* ".." of a directory is the one directory that names it, and "." is the   *)
(* directory itself, while directories are made and removed concurrently.   *)
THEOREM DirectoriesFormTree == Spec => []TreeShape
<1>1. Inv => TreeShape
  BY DEF Inv, TreeInv
<1> QED
  BY <1>1, Invariant, PTL

(* Where every process of a set waits for an inode lock that another one of *)
(* the set holds, one of them waits inside iput(): otherwise each holder is *)
(* unlink() at the inode it is about to remove, the directories they hold   *)
(* name each other, and the directories would have a cycle.                 *)
THEOREM CirclesThroughIput == Spec => []CirclesNeedIput
<1>1. Inv => CirclesNeedIput
  <2> SUFFICES ASSUME Inv, NEW S \in SUBSET Procs, S # {},
                      \A p \in S : Wanted(p) # None /\ lock[Wanted(p)] \in S,
                      \A p \in S : th[p].put = None
               PROVE  FALSE
    BY DEF CirclesNeedIput
  <2>1. ASSUME NEW p \in S
        PROVE  /\ Wanted(p) \in Inums
               /\ th[p].at \in {"walk", "got", "exists", "target", "bad"}
               /\ th[p].at = "target" => Wanted(p) = th[p].ip
    <3>1. th[p] \in ThType /\ th[p].put = None /\ Wanted(p) # None
      BY DEF Inv, TypeInv
    <3> QED
      BY <3>1 DEF Wanted, ThType, Ptrs
  <2>2. ASSUME NEW p \in S
        PROVE  \E q \in S : th[q].at = "target" /\ th[q].dp = Wanted(p)
    <3>1. PICK q \in S : q = lock[Wanted(p)]
      OBVIOUS
    <3>2. Keeps(th[q]) = Wanted(p) /\ Wanted(p) # None
      BY <2>1, <3>1 DEF Inv, LockInv
    <3>3. th[q].at = "target"
      BY <2>1, <3>2 DEF Keeps
    <3> QED
      BY <3>2, <3>3 DEF Keeps
  <2> DEFINE D == {th[q].dp : q \in {x \in S : th[x].at = "target"}}
  <2>3. D # {}
    <3>1. PICK p \in S : TRUE
      OBVIOUS
    <3>2. PICK q \in S : th[q].at = "target" /\ th[q].dp = Wanted(p)
      BY <2>2
    <3>3. th[q].dp \in D
      BY <3>2
    <3> QED
      BY <3>3
  <2>4. ASSUME NEW q \in S, th[q].at = "target"
        PROVE  /\ th[q].dp \in Dirs
               /\ Head(th[q].path) \in Names
               /\ dinode[th[q].dp].ent[Head(th[q].path)] = th[q].ip
    <3>1. th[q] \in ThType /\ Stage(th[q]) /\ Knows(th[q])
      BY DEF Inv, TypeInv, StageInv, KnowsInv
    <3>2. th[q].dp \in Inums
      BY <2>4, <3>1 DEF Stage, ThType, Ptrs
    <3> QED
      BY <2>4, <3>1, <3>2 DEF Knows, IsDir, Dirs
  <2>5. D \in SUBSET Dirs
    BY <2>4
  <2>6. PICK d \in D : \A n \in Names : dinode[d].ent[n] \notin D
    BY <2>3, <2>5 DEF Inv, TreeInv
  <2>7. PICK q \in S : th[q].at = "target" /\ th[q].dp = d
    OBVIOUS
  <2>8. th[q].ip \notin D
    BY <2>4, <2>6, <2>7
  <2>9. PICK h \in S : th[h].at = "target" /\ th[h].dp = th[q].ip
    BY <2>1, <2>2, <2>7
  <2> QED
    BY <2>8, <2>9
<1> QED
  BY <1>1, Invariant, PTL

-----------------------------------------------------------------------------
(* What panics.                                                             *)

(* nlink is at least each of the numbers that it covers.                    *)
LEMMA NlinkCovers ==
  ASSUME Inv, NEW i \in Inums
  PROVE  /\ dinode[i].nlink \in Int
         /\ Cardinality(NamesOf(i)) \in Nat /\ Cardinality(NamesOf(i)) <= dinode[i].nlink
         /\ Cardinality(Linking(i)) \in Nat /\ Cardinality(Linking(i)) <= dinode[i].nlink
         /\ Cardinality(Unlinking(i)) \in Nat /\ Cardinality(Unlinking(i)) <= dinode[i].nlink
         /\ Rooted(i) <= dinode[i].nlink
<1> DEFINE n == Cardinality(NamesOf(i))
           s == Cardinality(Subdirs(i))
           l == Cardinality(Linking(i))
           u == Cardinality(Unlinking(i))
           t == Rooted(i)
           k == dinode[i].nlink
<1>1. n \in Nat /\ s \in Nat
  BY NamesFinite
<1>2. l \in Nat /\ u \in Nat
  BY PendingFinite
<1>3. t \in Int /\ t >= 0
  BY RootedType
<1>4. k \in Int
  BY NlinkType
<1>5. n + s + l + u + t <= k
  BY DEF Inv, LinkInv
<1> HIDE DEF n, s, l, u, t, k
<1>6. n <= k /\ l <= k /\ u <= k /\ t <= k
  BY <1>1, <1>2, <1>3, <1>4, <1>5
<1> QED
  BY <1>1, <1>2, <1>4, <1>6 DEF n, l, u, t, k

(* A name that some directory holds names an inode that has a link, and     *)
(* such an inode is allocated; so is the root.                              *)
LEMMA NamedHasLink ==
  ASSUME Inv, NEW d \in Dirs, NEW n \in Names, NEW i \in Inums,
         dinode[d].ent[n] = i
  PROVE  dinode[i].nlink >= 1 /\ Allocated(i)
<1>1. <<d, n>> \in NamesOf(i)
  BY DEF NamesOf
<1>2. Cardinality(NamesOf(i)) # 0
  BY <1>1, NamesFinite, FS_EmptySet
<1>3. dinode[i].nlink >= 1
  BY <1>2, NlinkCovers
<1>4. ~Allocated(i) => dinode[i].nlink = 0
  BY DEF Inv, LinkInv
<1> QED
  BY <1>3, <1>4

(* Nothing frees the root: mkfs gave it a link that no name stands for.     *)
LEMMA RootAllocated ==
  ASSUME Inv PROVE Allocated(ROOTINO)
<1>1. ROOTINO \in Inums
  BY SizeAssumption DEF ROOTINO, Inums
<1>2. Rooted(ROOTINO) = 1 /\ Rooted(ROOTINO) <= dinode[ROOTINO].nlink
  BY <1>1, NlinkCovers DEF Rooted
<1>3. ~Allocated(ROOTINO) => dinode[ROOTINO].nlink = 0
  BY <1>1 DEF Inv, LinkInv
<1> QED
  BY <1>2, <1>3

(* A link that link() has counted and not entered, or that unlink() has     *)
(* erased and not uncounted, is in the count.                               *)
LEMMA PendingHasLink ==
  ASSUME Inv, NEW i \in Inums, Linking(i) # {} \/ Unlinking(i) # {}
  PROVE  dinode[i].nlink >= 1
<1>1. Cardinality(Linking(i)) # 0 \/ Cardinality(Unlinking(i)) # 0
  BY PendingFinite, FS_EmptySet
<1> QED
  BY <1>1, NlinkCovers

(* unlink() finds nlink at least 1 in the inode it is about to remove, so   *)
(* that it does not reach panic("unlink: nlink < 1"), and what it and the   *)
(* failing link() take from nlink afterwards is still in it.                *)
NlinkEnough ==
  \A p \in Procs :
    /\ th[p].at \in {"target", "unlinked"} => dinode[th[p].ip].nlink >= 1
    /\ th[p].ln # None => dinode[th[p].ln].nlink >= 1

(* The panic in sys_unlink() is never reached, and neither sys_unlink() nor *)
(* the undoing in sys_link() makes a link count negative.                   *)
THEOREM UnlinkNeverPanics == Spec => []NlinkEnough
<1>1. Inv => NlinkEnough
  <2> SUFFICES ASSUME Inv, NEW p \in Procs
               PROVE  /\ th[p].at \in {"target", "unlinked"} =>
                           dinode[th[p].ip].nlink >= 1
                      /\ th[p].ln # None => dinode[th[p].ln].nlink >= 1
    BY DEF NlinkEnough
  <2>1. th[p] \in ThType /\ Stage(th[p]) /\ Knows(th[p])
    BY DEF Inv, TypeInv, StageInv, KnowsInv
  <2>2. CASE th[p].at = "target"
    <3>1. th[p].ip \in Inums /\ th[p].dp \in Dirs
      BY <2>1, <2>2 DEF Stage, Knows, ThType, Ptrs, IsDir, Dirs
    <3>2. /\ Head(th[p].path) \in Names
          /\ dinode[th[p].dp].ent[Head(th[p].path)] = th[p].ip
          /\ th[p].ln = None
      BY <2>1, <2>2 DEF Stage, Knows
    <3> QED
      BY <2>2, <3>1, <3>2, NamedHasLink
  <2>3. CASE th[p].at = "unlinked"
    <3>1. th[p].ip \in Inums /\ p \in Unlinking(th[p].ip) /\ th[p].ln = None
      BY <2>1, <2>3 DEF Stage, ThType, Ptrs, Unlinking
    <3> QED
      BY <2>3, <3>1, PendingHasLink
  <2>4. CASE th[p].ln # None
    <3>1. th[p].ln \in Inums /\ p \in Linking(th[p].ln)
      BY <2>1, <2>4 DEF ThType, Ptrs, Linking
    <3>2. th[p].at \notin {"target", "unlinked"}
      BY <2>1, <2>4 DEF Stage
    <3> QED
      BY <3>1, <3>2, PendingHasLink
  <2> QED
    BY <2>2, <2>3, <2>4
<1> QED
  BY <1>1, Invariant, PTL

(* The call of process p points to inode i, which is free.                  *)
AtFreed(p, i) == th[p].ip = i /\ ~Allocated(i)

(* The next name of its path is "..", and leads to i.                       *)
GoesUp(p, i) ==
  /\ th[p].at \in {"walk", "got"} /\ th[p].path # <<>> /\ Head(th[p].path) = ".."
  /\ dinode[th[p].ip].ent[".."] = i

(* A step of process p lets a call point to a free inode only if the call   *)
(* did so before, or goes up.                                               *)
PointsWell(p) ==
  /\ \A i \in Inums : th'[p].ip = i /\ th[p].ip # i =>
       dinode'[i].type # "none" \/ GoesUp(p, i)
  /\ \A q \in Procs \ {p} : th'[q].ip \in {th[q].ip, None}
  /\ \A i \in Inums : dinode[i].type # "none" /\ dinode'[i].type = "none" =>
       \A q \in Procs : th'[q].ip # i

(* Steps that free nothing.                                                 *)
LEMMA SetPoints ==
  ASSUME Inv, NEW p \in Procs, NEW r, Set(p, r),
         \A i \in Inums : dinode[i].type # "none" => dinode'[i].type # "none",
         \/ r.ip \in {None, th[p].ip}
         \/ \A i \in Inums : r.ip = i => dinode'[i].type # "none" \/ GoesUp(p, i)
  PROVE  PointsWell(p)
<1>1. th'[p] = r /\ \A q \in Procs \ {p} : th'[q] = th[q]
  BY DEF Set, Inv, TypeInv
<1>2. \A i \in Inums : i # None
  BY NoInum
<1> QED
  BY <1>1, <1>2 DEF PointsWell

(* An entry other than ".." names an allocated inode.                       *)
LEMMA EntryAllocated ==
  ASSUME Inv, NEW d \in Inums, IsDir(d), NEW n \in AllNames, n # "..",
         NEW i \in Inums, dinode[d].ent[n] = i
  PROVE  Allocated(i)
<1>1. d \in Dirs
  BY DEF Dirs, IsDir
<1>2. CASE n \in Names
  BY <1>1, <1>2, NamedHasLink
<1>3. CASE n = "."
  BY <1>1, <1>3 DEF Inv, TreeInv, Allocated, IsDir
<1> QED
  BY <1>2, <1>3 DEF AllNames

(* A path starts in an allocated directory.                                 *)
LEMMA StartAllocated ==
  ASSUME Inv, NEW p \in Procs, th[p].at # "dead", NEW path
  PROVE  StartDir(p, path) \in Inums /\ Allocated(StartDir(p, path))
<1>1. StartDir(p, path) \in Inums
  BY StartDirInum
<1>2. cwd[p] # None /\ Allocated(cwd[p])
  BY DEF Inv, TableInv, KnowsInv
<1> QED
  BY <1>1, <1>2, RootAllocated DEF StartDir

(* Which inode the records of calls that end, fail or set out point to.     *)
LEMMA RecordIp ==
  /\ Idle.ip = None
  /\ \A i : Return(i).ip = None
  /\ \A r \in ThType : \A i : Fail(r, i).ip = None
  /\ \A r \in ThType : \A d, path : Walk(r, d, path).ip \in {None, d}
<1>1. Idle.ip = None /\ \A i : Return(i).ip = None
  BY DEF Idle, Return
<1>2. ASSUME NEW r \in ThType, NEW i PROVE Fail(r, i).ip = None
  BY <1>1 DEF Fail, ThType
<1>3. ASSUME NEW r \in ThType, NEW d, NEW path PROVE Walk(r, d, path).ip \in {None, d}
  BY <1>2 DEF Walk, ThType
<1> QED
  BY <1>1, <1>2, <1>3

(* The steps of a call that do not touch the inodes and leave it with the   *)
(* inode it had, or with none.                                              *)
LEMMA QuietPoints ==
  ASSUME Inv, NEW p \in Procs, NEW r, Set(p, r), r.ip \in {None, th[p].ip},
         dinode' = dinode
  PROVE  PointsWell(p)
BY SetPoints

(* A call sets out in the root or in the current directory.                 *)
LEMMA StartPoints ==
  ASSUME Inv, NEW p \in Procs, NEW r \in ThType, th[p].at # "dead", NEW path,
         Set(p, Walk(r, StartDir(p, path), path)),
         \A i \in Inums : dinode[i].type # "none" => dinode'[i].type # "none"
  PROVE  PointsWell(p)
<1> DEFINE d == StartDir(p, path)
           w == Walk(r, d, path)
<1>1. d \in Inums /\ dinode[d].type # "none"
  BY StartAllocated DEF Allocated
<1>2. w.ip \in {None, d}
  BY RecordIp
<1>3. dinode'[d].type # "none"
  BY <1>1
<1>4. Set(p, w)
  OBVIOUS
<1> HIDE DEF d, w
<1> QED
  BY <1>2, <1>3, <1>4, SetPoints, NoInum

(* A call on one path sets out.                                             *)
LEMMA SysPathPoints ==
  ASSUME Inv, NEW p \in Procs, NEW c \in PathCalls, NEW path, SysPath(p, c, path)
  PROVE  PointsWell(p)
<1> DEFINE r == [Idle EXCEPT !.call = c]
<1>1. th[p].at # "dead" /\ dinode' = dinode /\ Set(p, Walk(r, StartDir(p, path), path))
  BY DEF SysPath, At
<1>2. r \in ThType
  BY IdleRecord DEF ThType, Calls
<1> HIDE DEF r
<1> QED
  BY <1>1, <1>2, StartPoints

(* link() sets out on its first path.                                       *)
LEMMA SysLinkPoints ==
  ASSUME Inv, NEW p \in Procs, NEW old, NEW new \in PathRecords, SysLink(p, old, new)
  PROVE  PointsWell(p)
<1> DEFINE r == [Idle EXCEPT !.call = "link", !.new = new]
<1>1. th[p].at # "dead" /\ dinode' = dinode /\ Set(p, Walk(r, StartDir(p, old), old))
  BY DEF SysLink, At
<1>2. r \in ThType
  BY IdleRecord DEF ThType, Calls
<1> HIDE DEF r
<1> QED
  BY <1>1, <1>2, StartPoints

(* namex() goes on to the inode that the directory names.                   *)
LEMMA NamexPoints ==
  ASSUME Inv, NEW p \in Procs, NamexStep(p)
  PROVE  PointsWell(p)
<1>1. /\ th[p] \in ThType /\ th[p].at = "walk" /\ th[p].path # <<>> /\ th[p].ip \in Inums
      /\ dinode' = dinode
  BY AtFacts DEF NamexStep, Stage, ThType, Ptrs
<1>2. PICK d \in Inums : d = th[p].ip
  BY <1>1
<1>3. Head(th[p].path) \in AllNames /\ dinode[d].ent[Head(th[p].path)] \in Ptrs
  BY <1>1, HeadFacts
<1>4. CASE \/ Set(p, Fail(th[p], d))
           \/ Set(p, [th[p] EXCEPT !.at = "got"])
  <2>1. Fail(th[p], d).ip = None /\ [th[p] EXCEPT !.at = "got"].ip = th[p].ip
    BY <1>1, RecordIp DEF ThType
  <2> QED
    BY <1>1, <1>4, <2>1, QuietPoints
<1>5. ASSUME NEW l, dinode[d].type = "dir",
             Set(p, [th[p] EXCEPT !.ip = dinode[d].ent[Head(th[p].path)],
                                  !.path = Tail(@), !.put = d, !.at = l])
      PROVE  PointsWell(p)
  <2> DEFINE r == [th[p] EXCEPT !.ip = dinode[d].ent[Head(th[p].path)],
                                !.path = Tail(@), !.put = d, !.at = l]
  <2>1. r.ip = dinode[d].ent[Head(th[p].path)]
    BY <1>1 DEF ThType
  <2>2. ASSUME NEW i \in Inums, r.ip = i
        PROVE  dinode'[i].type # "none" \/ GoesUp(p, i)
    <3>1. CASE Head(th[p].path) = ".."
      BY <1>1, <1>2, <2>1, <2>2, <3>1 DEF GoesUp
    <3>2. CASE Head(th[p].path) # ".."
      <4>1. Allocated(i)
        BY <1>3, <1>5, <2>1, <2>2, <3>2, EntryAllocated DEF IsDir
      <4> QED
        BY <1>1, <4>1 DEF Allocated
    <3> QED
      BY <3>1, <3>2
  <2>3. Set(p, r)
    BY <1>5
  <2> HIDE DEF r
  <2> QED
    BY <1>1, <2>2, <2>3, SetPoints
<1> QED
  BY <1>2, <1>4, <1>5 DEF NamexStep

(* create() finds the name.                                                 *)
LEMMA CreateFoundPoints ==
  ASSUME Inv, NEW p \in Procs, CreateFound(p)
  PROVE  PointsWell(p)
<1>1. At(p, "got") /\ WantsParent(th[p])
  BY DEF CreateFound, WantsParent
<1>2. /\ th[p] \in ThType /\ th[p].at = "got" /\ th[p].ip \in Inums /\ IsDir(th[p].ip)
      /\ Head(th[p].path) \in AllNames /\ th[p].path # <<>> /\ dinode' = dinode
  BY <1>1, GotFacts DEF CreateFound
<1>3. PICK d \in Inums : d = th[p].ip
  BY <1>2
<1> DEFINE r == [th[p] EXCEPT !.at = "exists", !.ip = dinode[d].ent[Head(th[p].path)],
                              !.path = <<>>, !.put = d]
<1>4. Set(p, r)
  BY <1>3 DEF CreateFound
<1>5. r.ip = dinode[d].ent[Head(th[p].path)]
  BY <1>2 DEF ThType
<1>6. ASSUME NEW i \in Inums, r.ip = i
      PROVE  dinode'[i].type # "none" \/ GoesUp(p, i)
  <2>1. CASE Head(th[p].path) = ".."
    BY <1>2, <1>3, <1>5, <1>6, <2>1 DEF GoesUp
  <2>2. CASE Head(th[p].path) # ".."
    <3>1. Allocated(i)
      BY <1>2, <1>3, <1>5, <1>6, <2>2, EntryAllocated
    <3> QED
      BY <1>2, <3>1 DEF Allocated
  <2> QED
    BY <2>1, <2>2
<1> HIDE DEF r
<1> QED
  BY <1>2, <1>4, <1>6, SetPoints

(* unlink() finds the name, which is not "..".                              *)
LEMMA UnlinkFoundPoints ==
  ASSUME Inv, NEW p \in Procs, UnlinkFound(p)
  PROVE  PointsWell(p)
<1>1. At(p, "got") /\ WantsParent(th[p])
  BY DEF UnlinkFound, WantsParent
<1>2. /\ th[p] \in ThType /\ th[p].ip \in Inums /\ IsDir(th[p].ip)
      /\ Head(th[p].path) \in AllNames /\ Head(th[p].path) # ".." /\ dinode' = dinode
  BY <1>1, GotFacts DEF UnlinkFound
<1>3. PICK d \in Inums : d = th[p].ip
  BY <1>2
<1> DEFINE r == [th[p] EXCEPT !.at = "target", !.ip = dinode[d].ent[Head(th[p].path)],
                              !.dp = d]
<1>4. Set(p, r)
  BY <1>3 DEF UnlinkFound
<1>5. r.ip = dinode[d].ent[Head(th[p].path)]
  BY <1>2 DEF ThType
<1>6. ASSUME NEW i \in Inums, r.ip = i PROVE dinode'[i].type # "none"
  <2>1. Allocated(i)
    BY <1>2, <1>3, <1>5, <1>6, EntryAllocated
  <2> QED
    BY <1>2, <2>1 DEF Allocated
<1> HIDE DEF r
<1> QED
  BY <1>2, <1>4, <1>6, SetPoints

(* create() points to the inode it has just allocated.                      *)
LEMMA CreateNewPoints ==
  ASSUME Inv, NEW p \in Procs, CreateNew(p)
  PROVE  PointsWell(p)
<1>1. At(p, "got") /\ WantsParent(th[p]) /\ th[p].call \in Creating
  BY DEF CreateNew, WantsParent
<1>2. th[p] \in ThType /\ th[p].ip \in Inums
  BY <1>1, GotFacts
<1> DEFINE d == th[p].ip
           n == Head(th[p].path)
           c == th[p].call
<1>3. PICK i \in Inums :
        /\ dinode[i].type = "none" /\ dinode[d].type # "none"
        /\ dinode' = [dinode EXCEPT ![i] = [type |-> TypeOf(c), nlink |-> 1,
                                            ent |-> NewEntries(c, i, d)],
                                    ![d].nlink = ParentLinks(c, @),
                                    ![d].ent[n] = i]
        /\ Set(p, [th[p] EXCEPT !.at = "made", !.ip = i, !.path = <<>>, !.put = d])
  BY DEF CreateNew, IsFirst, FreeInums, Lockable
<1>4. TypeOf(c) # "none"
  BY <1>1 DEF TypeOf, Creating
<1>5. \A j \in Inums : dinode'[j].type = IF j = i THEN TypeOf(c) ELSE dinode[j].type
  <2>1. i # d /\ d \in Inums /\ dinode \in [Inums -> InodeType]
    BY <1>2, <1>3 DEF Inv, TypeInv
  <2> QED
    BY <1>3, <2>1 DEF InodeType
<1>6. [th[p] EXCEPT !.at = "made", !.ip = i, !.path = <<>>, !.put = d].ip = i
  BY <1>2 DEF ThType
<1> HIDE DEF d, n, c
<1> QED
  BY <1>3, <1>4, <1>5, <1>6, SetPoints

(* Steps that change the number of links or an entry of one inode, and the  *)
(* type of none.                                                            *)
LEMMA NlinkPoints ==
  ASSUME Inv, NEW p \in Procs, NEW r, Set(p, r), r.ip \in {None, th[p].ip},
         \A j \in Inums : dinode'[j].type = dinode[j].type
  PROVE  PointsWell(p)
BY SetPoints

(* The steps of link() once a path is walked.                               *)
LEMMA LinkPoints ==
  ASSUME Inv, NEW p \in Procs,
         \/ LinkOld(p) \/ LinkNew(p) \/ LinkTaken(p) \/ LinkTakenDone(p) \/ LinkBad(p)
  PROVE  PointsWell(p)
<1>0. th[p] \in ThType /\ Stage(th[p])
  BY DEF Inv, TypeInv, StageInv
<1>1. CASE LinkOld(p)
  <2> DEFINE i == th[p].ip
             r == [th[p] EXCEPT !.ln = i]
  <2>1. th[p].at # "dead"
    BY <1>1 DEF LinkOld, At
  <2>2. CASE Set(p, Return(i)) /\ dinode' = dinode
    BY <2>2, RecordIp, QuietPoints
  <2>3. CASE /\ dinode' = Counted(i)
             /\ Set(p, Walk(r, StartDir(p, th[p].new), th[p].new))
    <3>1. r \in ThType
      BY <1>0 DEF ThType
    <3>2. \A j \in Inums : dinode'[j].type = dinode[j].type
      BY <2>3 DEF Counted, Inv, TypeInv, InodeType
    <3> HIDE DEF r, i
    <3> QED
      BY <2>1, <2>3, <3>1, <3>2, StartPoints
  <2> QED
    BY <1>1, <2>2, <2>3 DEF LinkOld
<1>2. CASE LinkNew(p)
  <2> DEFINE r == [Return(th[p].ip) EXCEPT !.also = th[p].ln]
  <2>1. Set(p, r) /\ r.ip = None
    BY <1>2 DEF LinkNew, Return, Idle
  <2>2. \A j \in Inums : dinode'[j].type = dinode[j].type
    BY <1>2 DEF LinkNew, Inv, TypeInv, InodeType
  <2> QED
    BY <2>1, <2>2, NlinkPoints
<1>3. CASE LinkTaken(p)
  <2>1. PICK i : Set(p, [th[p] EXCEPT !.at = "taken", !.path = <<>>, !.put = i])
    BY <1>3 DEF LinkTaken
  <2>2. [th[p] EXCEPT !.at = "taken", !.path = <<>>, !.put = i].ip = th[p].ip
    BY <1>0 DEF ThType
  <2>3. dinode' = dinode
    BY <1>3 DEF LinkTaken
  <2> QED
    BY <2>1, <2>2, <2>3, QuietPoints
<1>4. CASE LinkTakenDone(p)
  BY <1>0, <1>4, RecordIp, QuietPoints DEF LinkTakenDone
<1>5. CASE LinkBad(p)
  <2>1. Set(p, Return(th[p].ln)) /\ Return(th[p].ln).ip = None
    BY <1>5, RecordIp DEF LinkBad
  <2>2. \A j \in Inums : dinode'[j].type = dinode[j].type
    BY <1>5 DEF LinkBad, Inv, TypeInv, InodeType
  <2> QED
    BY <2>1, <2>2, NlinkPoints
<1> QED
  BY <1>1, <1>2, <1>3, <1>4, <1>5

(* The steps of unlink() after it found the entry, or refused the name.     *)
LEMMA UnlinkPoints ==
  ASSUME Inv, NEW p \in Procs,
         \/ UnlinkRefused(p) \/ UnlinkNotEmpty(p) \/ UnlinkNotEmptyDone(p)
         \/ UnlinkErase(p) \/ UnlinkDone(p)
  PROVE  PointsWell(p)
<1>0. th[p] \in ThType /\ Stage(th[p])
  BY DEF Inv, TypeInv, StageInv
<1>1. CASE UnlinkRefused(p)
  BY <1>1, RecordIp, QuietPoints DEF UnlinkRefused
<1>2. CASE UnlinkNotEmpty(p)
  <2> DEFINE r == [th[p] EXCEPT !.at = "notempty", !.ip = None, !.path = <<>>,
                                !.put = th[p].ip]
  <2>1. Set(p, r) /\ dinode' = dinode
    BY <1>2 DEF UnlinkNotEmpty
  <2>2. r.ip = None
    BY <1>0 DEF ThType
  <2> HIDE DEF r
  <2> QED
    BY <2>1, <2>2, QuietPoints
<1>3. CASE UnlinkNotEmptyDone(p)
  BY <1>3, RecordIp, QuietPoints DEF UnlinkNotEmptyDone
<1>4. CASE UnlinkErase(p)
  <2> DEFINE r == [th[p] EXCEPT !.at = "unlinked", !.dp = None, !.path = <<>>,
                                !.put = th[p].dp]
  <2>1. Set(p, r)
    BY <1>4 DEF UnlinkErase
  <2>2. r.ip = th[p].ip
    BY <1>0 DEF ThType
  <2>3. \A j \in Inums : dinode'[j].type = dinode[j].type
    BY <1>4 DEF UnlinkErase, Inv, TypeInv, InodeType
  <2> HIDE DEF r
  <2> QED
    BY <2>1, <2>2, <2>3, NlinkPoints
<1>5. CASE UnlinkDone(p)
  <2>1. Set(p, Return(th[p].ip)) /\ Return(th[p].ip).ip = None
    BY <1>5, RecordIp DEF UnlinkDone
  <2>2. \A j \in Inums : dinode'[j].type = dinode[j].type
    BY <1>5 DEF UnlinkDone, Inv, TypeInv, InodeType
  <2> QED
    BY <2>1, <2>2, NlinkPoints
<1> QED
  BY <1>1, <1>2, <1>3, <1>4, <1>5

(* open(), chdir() and exit() end a call; iput() only drops pointers that   *)
(* are not its inode's last ones, or frees what no call points to.          *)
LEMMA TablePoints ==
  ASSUME Inv, NEW p \in Procs,
         \/ OpenFound(p) \/ CreateExists(p) \/ CreateDone(p) \/ Chdir(p)
         \/ SysExit(p) \/ ExitCwd(p)
  PROVE  PointsWell(p)
<1>1. dinode' = dinode
  BY DEF OpenFound, CreateExists, CreateDone, Chdir, SysExit, ExitCwd
<1>2. \E r : Set(p, r) /\ r.ip = None
  <2>1. CASE SysExit(p) \/ ExitCwd(p)
    <3>1. /\ [Idle EXCEPT !.at = "exiting"].ip = None
          /\ [Idle EXCEPT !.at = "dead", !.put = cwd[p]].ip = None
      BY DEF Idle
    <3>2. \/ Set(p, [Idle EXCEPT !.at = "exiting"])
          \/ Set(p, [Idle EXCEPT !.at = "dead", !.put = cwd[p]])
      BY <2>1 DEF SysExit, ExitCwd
    <3> QED
      BY <3>1, <3>2
  <2>2. CASE OpenFound(p) \/ CreateExists(p) \/ CreateDone(p) \/ Chdir(p)
    BY <2>2, RecordIp DEF OpenFound, CreateExists, CreateDone, Chdir, OpenTail
  <2> QED
    BY <2>1, <2>2
<1> QED
  BY <1>1, <1>2, QuietPoints

(* iput() frees an inode only when nobody else points to it.                *)
LEMMA IputPoints ==
  ASSUME Inv, NEW p \in Procs, IputLocked(p) \/ IputRef(p)
  PROVE  PointsWell(p)
<1>0. th[p] \in ThType
  BY DEF Inv, TypeInv
<1>1. CASE IputRef(p)
  <2>1. Set(p, [th[p] EXCEPT !.drop = None]) /\ dinode' = dinode
    BY <1>1 DEF IputRef
  <2>2. [th[p] EXCEPT !.drop = None].ip = th[p].ip
    BY <1>0 DEF ThType
  <2> QED
    BY <2>1, <2>2, QuietPoints
<1>2. CASE IputLocked(p)
  <2>1. PICK i \in Inums : i = th[p].put
    BY <1>0, <1>2 DEF IputLocked, ThType, Ptrs
  <2> DEFINE r == [th[p] EXCEPT !.drop = i, !.put = th[p].also, !.also = None]
  <2>2. Set(p, r) /\ r.ip = th[p].ip
    BY <1>0, <1>2, <2>1 DEF IputLocked, ThType
  <2>3. \A q \in Procs : th'[q].ip = th[q].ip
    BY <2>2 DEF Set, Inv, TypeInv
  <2>4. \A j \in Inums : j # i => dinode'[j] = dinode[j]
    BY <1>2, <2>1 DEF IputLocked, Inv, TypeInv
  <2>5. CASE Unused(i)
    <3>1. \A q \in Procs : th[q].ip # i
      BY <2>1, <2>5, FreedAlone DEF Unused
    <3> QED
      BY <2>3, <2>4, <3>1 DEF PointsWell
  <2>6. CASE ~Unused(i)
    <3>1. dinode'[i] = dinode[i]
      BY <1>2, <2>1, <2>6 DEF IputLocked, Inv, TypeInv
    <3> QED
      BY <2>3, <2>4, <3>1 DEF PointsWell
  <2> QED
    BY <2>5, <2>6
<1> QED
  BY <1>1, <1>2

(* Every way to enter or leave the kernel.                                  *)
LEMMA SysCallPoints ==
  ASSUME Inv, NEW p \in Procs, SysCall(p)
  PROVE  PointsWell(p)
<1>1. CASE \E u \in prog.uses : SysPath(p, u[1], u[2])
  <2>1. PICK u \in prog.uses : SysPath(p, u[1], u[2])
    BY <1>1
  <2>2. u[1] \in PathCalls
    BY ProgramsAssumption DEF Inv, TypeInv
  <2> QED
    BY <2>1, <2>2, SysPathPoints
<1>2. CASE \E l \in prog.links : SysLink(p, l[1], l[2])
  <2>1. PICK l \in prog.links : SysLink(p, l[1], l[2])
    BY <1>2
  <2>2. l[2] \in PathRecords
    BY ProgramsAssumption DEF Inv, TypeInv
  <2> QED
    BY <2>1, <2>2, SysLinkPoints
<1>3. CASE \E d \in Fds : Close(p, d)
  <2>1. PICK d \in Fds : Close(p, d)
    BY <1>3
  <2>2. dinode' = dinode /\ th[p] \in ThType
    BY <2>1 DEF Close, Inv, TypeInv
  <2>3. CASE UNCHANGED th
    BY <2>2, <2>3 DEF PointsWell
  <2>4. ASSUME NEW i, Set(p, [th[p] EXCEPT !.put = i]) PROVE PointsWell(p)
    <3>1. [th[p] EXCEPT !.put = i].ip = th[p].ip
      BY <2>2 DEF ThType
    <3> QED
      BY <2>2, <2>4, <3>1, QuietPoints
  <2> QED
    BY <2>1, <2>3, <2>4 DEF Close
<1>4. CASE \E d \in Fds : SysDup(p, d)
  BY <1>4 DEF SysDup, PointsWell
<1>5. CASE \E q \in Procs : Fork(p, q)
  <2>1. PICK q \in Procs : Fork(p, q)
    BY <1>5
  <2>2. dinode' = dinode /\ th[p].at = "user" /\ th[q].at = "dead" /\ Set(q, Idle)
    BY <2>1 DEF Fork, At
  <2>3. /\ p # q /\ th'[q].ip = None
        /\ \A x \in Procs : x # q => th'[x] = th[x]
    BY <2>2, RecordIp DEF Set, Inv, TypeInv
  <2> QED
    BY <2>2, <2>3 DEF PointsWell
<1>6. CASE SysExit(p)
  BY <1>6, TablePoints
<1> QED
  BY <1>1, <1>2, <1>3, <1>4, <1>5, <1>6 DEF SysCall

(* Every step inside the kernel.                                            *)
LEMMA KernelStepPoints ==
  ASSUME Inv, NEW p \in Procs, KernelStep(p)
  PROVE  PointsWell(p)
<1>1. CASE IputLocked(p) \/ IputRef(p)
  BY <1>1, IputPoints
<1>2. CASE NamexStep(p)
  BY <1>2, NamexPoints
<1>3. CASE OpenFound(p) \/ CreateExists(p) \/ CreateDone(p) \/ Chdir(p) \/ ExitCwd(p)
  BY <1>3, TablePoints
<1>4. CASE CreateFound(p)
  BY <1>4, CreateFoundPoints
<1>5. CASE CreateNew(p)
  BY <1>5, CreateNewPoints
<1>6. CASE \/ LinkOld(p) \/ LinkNew(p) \/ LinkTaken(p) \/ LinkTakenDone(p) \/ LinkBad(p)
  BY <1>6, LinkPoints
<1>7. CASE UnlinkFound(p)
  BY <1>7, UnlinkFoundPoints
<1>8. CASE \/ UnlinkRefused(p) \/ UnlinkNotEmpty(p) \/ UnlinkNotEmptyDone(p)
           \/ UnlinkErase(p) \/ UnlinkDone(p)
  BY <1>8, UnlinkPoints
<1>9. CASE IlockPanic(p) \/ IallocPanic(p)
  BY <1>9 DEF IlockPanic, IallocPanic, PointsWell
<1> QED
  BY <1>1, <1>2, <1>3, <1>4, <1>5, <1>6, <1>7, <1>8, <1>9 DEF KernelStep

(* A call comes to point to a free inode only through "..": the inode it    *)
(* has is not freed under it, and every other name, the root and the        *)
(* current directory are allocated.  ilock() then panics with "no type",    *)
(* and for no other reason; the inode table being full is the only other    *)
(* panic.                                                                   *)
FreedOnlyUpwards ==
  /\ \A p \in Procs, i \in Inums : AtFreed(p, i)' => AtFreed(p, i) \/ GoesUp(p, i)
  /\ ~panicked /\ panicked' =>
       FreeInums = {} \/ \E p \in Procs, i \in Inums : AtFreed(p, i)

(* Whatever the processes do to each other's names, the kernel panics in    *)
(* ilock() only after a lookup went up through ".." of a removed directory, *)
(* and otherwise only when ialloc() finds no free inode.                    *)
THEOREM PanicsOnlyUpwards == Spec => [][FreedOnlyUpwards]_vars
<1>1. ASSUME Inv, [Next]_vars PROVE [FreedOnlyUpwards]_vars
  <2>1. CASE Halted \/ UNCHANGED vars
    BY <2>1 DEF Halted
  <2>2. ASSUME NEW p \in Procs, SysCall(p) \/ KernelStep(p) PROVE FreedOnlyUpwards
    <3>1. PointsWell(p)
      BY <1>1, <2>2, SysCallPoints, KernelStepPoints
    <3>2. ASSUME NEW q \in Procs, NEW i \in Inums, AtFreed(q, i)'
          PROVE  AtFreed(q, i) \/ GoesUp(q, i)
      <4>1. th'[q].ip = i /\ dinode'[i].type = "none" /\ i # None
        BY <3>2, NoInum DEF AtFreed, Allocated
      <4>2. dinode[i].type = "none"
        BY <3>1, <4>1 DEF PointsWell
      <4>3. CASE th[q].ip = i
        BY <4>2, <4>3 DEF AtFreed, Allocated
      <4>4. CASE th[q].ip # i
        <5>1. q = p
          BY <3>1, <4>1, <4>4 DEF PointsWell
        <5> QED
          BY <3>1, <4>1, <4>4, <5>1 DEF PointsWell
      <4> QED
        BY <4>3, <4>4
    <3>3. ASSUME ~panicked, panicked'
          PROVE  FreeInums = {} \/ \E q \in Procs, i \in Inums : AtFreed(q, i)
      <4>1. IlockPanic(p) \/ IallocPanic(p)
        <5>1. ~SysCall(p)
          BY <3>3 DEF SysCall, SysPath, SysLink, Close, SysDup, Fork, SysExit
        <5>2. ~(IputLocked(p) \/ IputRef(p) \/ NamexStep(p) \/ OpenFound(p)
                \/ CreateFound(p) \/ CreateExists(p) \/ CreateNew(p) \/ CreateDone(p)
                \/ Chdir(p) \/ ExitCwd(p))
          BY <3>3 DEF IputLocked, IputRef, NamexStep, OpenFound, CreateFound,
                      CreateExists, CreateNew, CreateDone, Chdir, ExitCwd
        <5>3. ~(LinkOld(p) \/ LinkNew(p) \/ LinkTaken(p) \/ LinkTakenDone(p) \/ LinkBad(p)
                \/ UnlinkRefused(p) \/ UnlinkFound(p) \/ UnlinkNotEmpty(p)
                \/ UnlinkNotEmptyDone(p) \/ UnlinkErase(p) \/ UnlinkDone(p))
          BY <3>3 DEF LinkOld, LinkNew, LinkTaken, LinkTakenDone, LinkBad, UnlinkRefused,
                      UnlinkFound, UnlinkNotEmpty, UnlinkNotEmptyDone, UnlinkErase, UnlinkDone
        <5> QED
          BY <2>2, <5>1, <5>2, <5>3 DEF KernelStep
      <4>2. CASE IallocPanic(p)
        BY <4>2 DEF IallocPanic
      <4>3. CASE IlockPanic(p)
        <5>1. th[p] \in ThType /\ Knows(th[p])
          BY <1>1 DEF Inv, TypeInv, KnowsInv
        <5>2. Wanted(p) # None /\ dinode[Wanted(p)].type = "none" /\ th[p].put = None
          BY <4>3 DEF IlockPanic
        <5>3. th[p].ln # None => dinode[th[p].ln].type # "none"
          BY <5>1 DEF Knows, Allocated
        <5>4. th[p].ip = Wanted(p)
          BY <5>1, <5>2, <5>3 DEF Wanted
        <5>5. th[p].ip \in Inums
          BY <5>1, <5>2, <5>4 DEF ThType, Ptrs
        <5> QED
          BY <5>2, <5>4, <5>5 DEF AtFreed, Allocated
      <4> QED
        BY <4>1, <4>2, <4>3
    <3> QED
      BY <3>2, <3>3 DEF FreedOnlyUpwards
  <2> QED
    BY <1>1, <2>1, <2>2 DEF Next
<1> QED
  BY <1>1, Invariant, PTL DEF Spec
=============================================================================
