------------------------------ MODULE FileSys ------------------------------
(***************************************************************************)
(* Inodes, directories, open files and the system calls on them (fs.c,     *)
(* file.c, sysfile.c): reference counts of the inode cache and of the file *)
(* table, link counts, path lookup, and the sleep locks of inodes.         *)
(*                                                                         *)
(* A step is one critical section: from an ilock() to the matching         *)
(* iunlock(), or one section of icache.lock or ftable.lock.  A lock is     *)
(* held across steps (lock[i] = p) where the code asks for another inode's *)
(* lock while it holds one: in unlink(), in link() when the new name       *)
(* exists, and in create(), which returns the new inode locked.            *)
(*                                                                         *)
(* A directory is a function from names to inode numbers, 0 for none.  The *)
(* cached copy of a valid inode equals the one on disk (iupdate() follows  *)
(* every change before the lock is released), so there is one copy here.   *)
(* The cache has room for every inode.  Contents and offsets of files are  *)
(* left out, and so is the log: begin_op() and end_op() only limit how     *)
(* many calls run at once.                                                 *)
(***************************************************************************)
EXTENDS Naturals, Sequences, FiniteSets

CONSTANTS
  NPROC,     \* number of processes; the first one never exits
  NINODES,   \* number of inodes on the disk
  Names,     \* the names, other than "." and "..", that programs use
  Programs,  \* what user programs may do: calls with a path, pairs to link()
  NOFILE,    \* open files per process
  NFILE      \* open files per system

Procs == 1 .. NPROC
Inums == 1 .. NINODES
Files == 1 .. NFILE
Fds == 1 .. NOFILE
None == 0
ROOTINO == 1
AllNames == Names \cup {".", ".."}
PathRecords == [abs : BOOLEAN, elems : Seq(AllNames)]
NoPath == [abs |-> FALSE, elems |-> <<>>]

ASSUME SizeAssumption ==
  /\ NPROC \in Nat \ {0} /\ NINODES \in Nat \ {0}
  /\ NOFILE \in Nat /\ NFILE \in Nat

ASSUME NamesAssumption ==
  IsFiniteSet(Names) /\ "." \notin Names /\ ".." \notin Names

(* The calls that take a path; those in Creating and unlink() look for the  *)
(* directory that holds the last name, the others for what it names.        *)
Creating == {"creat", "mkdir", "mknod"}
PathCalls == Creating \cup {"open", "openw", "unlink", "chdir"}
TypeOf(c) == IF c = "mkdir" THEN "dir" ELSE IF c = "mknod" THEN "dev" ELSE "file"

ASSUME ProgramsAssumption ==
  Programs \subseteq [uses : SUBSET (PathCalls \X PathRecords),
                      links : SUBSET (PathRecords \X PathRecords)]

VARIABLES
  dinode,    \* inodes: type, nlink and, for a directory, its entries
  ref,       \* ip->ref, per inode; 0: not in the cache
  valid,     \* ip->valid, per inode
  lock,      \* the process that holds ip->lock, per inode
  file,      \* ftable: reference count and inode
  ofile,     \* open files, per process
  cwd,       \* current directory, per process
  th,        \* the system call each process is in
  prog,      \* the program the processes run
  panicked   \* panic() was called

vars == <<dinode, ref, valid, lock, file, ofile, cwd, th, prog, panicked>>
fileVars == <<file, ofile, cwd>>

NoEntries == [n \in AllNames |-> None]
FreeInode == [type |-> "none", nlink |-> 0, ent |-> NoEntries]

(* A process outside of any call.  In a call: ip and path are namex()'s, dp *)
(* is the locked directory of unlink(), ln the inode link() holds and new   *)
(* its second argument.  Before the call goes on at at, iput() drops the    *)
(* reference to drop, whose lock it has released again, and is then called  *)
(* for put and after that for also.                                         *)
Idle == [call |-> "none", at |-> "user", ip |-> None, dp |-> None,
         ln |-> None, path |-> <<>>, new |-> NoPath,
         put |-> None, also |-> None, drop |-> None]

(* mkfs made the root directory; the first process was started in it.       *)
Init ==
  /\ dinode = [i \in Inums |->
       IF i = ROOTINO
       THEN [type |-> "dir", nlink |-> 1,
             ent |-> [n \in AllNames |-> IF n \in Names THEN None ELSE ROOTINO]]
       ELSE FreeInode]
  /\ ref = [i \in Inums |-> IF i = ROOTINO THEN 1 ELSE 0]
  /\ valid = [i \in Inums |-> FALSE]
  /\ lock = [i \in Inums |-> None]
  /\ file = [f \in Files |-> [ref |-> 0, ip |-> None]]
  /\ ofile = [p \in Procs |-> [d \in Fds |-> None]]
  /\ cwd = [p \in Procs |-> IF p = 1 THEN ROOTINO ELSE None]
  /\ th = [p \in Procs |-> IF p = 1 THEN Idle ELSE [Idle EXCEPT !.at = "dead"]]
  /\ prog \in Programs
  /\ panicked = FALSE

-----------------------------------------------------------------------------
(* Helpers.                                                                 *)

(* Process p is at l of its call and has no iput() to finish first.         *)
At(p, l) ==
  ~panicked /\ th[p].put = None /\ th[p].drop = None /\ th[p].at = l

Set(p, r) == th' = [th EXCEPT ![p] = r]

(* The call returns, after iput(i).                                         *)
Return(i) == [Idle EXCEPT !.put = i]

(* The call fails; link() has its increment of nlink to undo first.         *)
Fail(r, i) ==
  IF r.ln = None THEN Return(i)
  ELSE [r EXCEPT !.at = "bad", !.ip = None, !.path = <<>>, !.put = i]

(* ilock() succeeds at once: nobody holds the lock, and the inode is        *)
(* allocated.                                                               *)
Lockable(i) == lock[i] = None /\ dinode[i].type # "none"

(* ip->valid after ilock(i), and then iget(j): a recycled entry is not.     *)
Locked(i) == [valid EXCEPT ![i] = TRUE]
LockedAndGot(i, j) == [valid EXCEPT ![i] = TRUE, ![j] = @ /\ (ref[j] > 0 \/ i = j)]
Got(i) == [ref EXCEPT ![i] = @ + 1]

-----------------------------------------------------------------------------
(* iput()                                                                   *)

(* Mutant of Unused: does not ask for other references.                     *)
UnusedHere(i) == valid[i] /\ dinode[i].nlink = 0

(* No links and no other references.                                        *)
Unused(i) == valid[i] /\ dinode[i].nlink = 0 /\ ref[i] = 1

(* The first half: under the inode's lock, truncate and free it if nobody   *)
(* else can reach it.                                                       *)
IputLocked(p) ==
  /\ ~panicked
  /\ th[p].put # None /\ th[p].drop = None
  /\ LET i == th[p].put
     IN /\ lock[i] = None
        /\ dinode' = [dinode EXCEPT ![i] = IF Unused(i) THEN FreeInode ELSE @]
        /\ valid' = [valid EXCEPT ![i] = @ /\ ~Unused(i)]
        /\ Set(p, [th[p] EXCEPT !.drop = i, !.put = th[p].also, !.also = None])
  /\ UNCHANGED <<ref, lock, fileVars, prog, panicked>>

(* The second half: drop the reference under icache.lock.                   *)
IputRef(p) ==
  /\ ~panicked
  /\ th[p].drop # None
  /\ ref' = [ref EXCEPT ![th[p].drop] = @ - 1]
  /\ Set(p, [th[p] EXCEPT !.drop = None])
  /\ UNCHANGED <<dinode, valid, lock, fileVars, prog, panicked>>

-----------------------------------------------------------------------------
(* namex()                                                                  *)

StartDir(p, path) == IF path.abs THEN ROOTINO ELSE cwd[p]

(* nameiparent(): the lookup stops at the directory of the last name.       *)
WantsParent(r) == r.call \in Creating \cup {"unlink"} \/ r.ln # None

(* Record r once namex() has set out for path in directory d.  There is no  *)
(* directory that holds the root.                                           *)
Walk(r, d, path) ==
  IF path.elems = <<>> /\ WantsParent(r) THEN Fail(r, d)
  ELSE [r EXCEPT !.ip = d, !.path = path.elems,
                 !.at = IF path.elems = <<>> THEN "got" ELSE "walk"]

SysPath(p, c, path) ==
  /\ At(p, "user")
  /\ LET d == StartDir(p, path)
         r == [Idle EXCEPT !.call = c]
     IN /\ ref' = Got(d)
        /\ valid' = [valid EXCEPT ![d] = @ /\ ref[d] > 0]
        /\ Set(p, Walk(r, d, path))
  /\ UNCHANGED <<dinode, lock, fileVars, prog, panicked>>

SysLink(p, old, new) ==
  /\ At(p, "user")
  /\ LET d == StartDir(p, old)
         r == [Idle EXCEPT !.call = "link", !.new = new]
     IN /\ ref' = Got(d)
        /\ valid' = [valid EXCEPT ![d] = @ /\ ref[d] > 0]
        /\ Set(p, Walk(r, d, old))
  /\ UNCHANGED <<dinode, lock, fileVars, prog, panicked>>

(* One turn of the loop, with ip locked: fail, stop one level early, or go  *)
(* on in the directory dirlookup() found.                                   *)
NamexStep(p) ==
  /\ At(p, "walk")
  /\ LET r == th[p]
         i == r.ip
         next == dinode[i].ent[Head(r.path)]
     IN /\ Lockable(i)
        /\ \/ /\ dinode[i].type # "dir"
              /\ Set(p, Fail(r, i))
              /\ valid' = Locked(i) /\ ref' = ref
           \/ /\ dinode[i].type = "dir"
              /\ WantsParent(r) /\ Len(r.path) = 1
              /\ Set(p, [r EXCEPT !.at = "got"])
              /\ valid' = Locked(i) /\ ref' = ref
           \/ /\ dinode[i].type = "dir"
              /\ ~(WantsParent(r) /\ Len(r.path) = 1)
              /\ next = None
              /\ Set(p, Fail(r, i))
              /\ valid' = Locked(i) /\ ref' = ref
           \/ /\ dinode[i].type = "dir"
              /\ ~(WantsParent(r) /\ Len(r.path) = 1)
              /\ next # None
              /\ Set(p, [r EXCEPT !.ip = next, !.path = Tail(@), !.put = i,
                                  !.at = IF Len(r.path) = 1 THEN "got" ELSE "walk"])
              /\ valid' = LockedAndGot(i, next) /\ ref' = Got(next)
  /\ UNCHANGED <<dinode, lock, fileVars, prog, panicked>>

-----------------------------------------------------------------------------
(* open(), mkdir(), mknod()                                                 *)

IsFirst(x, S) == x \in S /\ \A y \in S : x <= y
FreeFiles == {f \in Files : file[f].ref = 0}
FreeFds(p) == {d \in Fds : ofile[p][d] = None}

(* The tail of sys_open() for the locked inode i: filealloc() and           *)
(* fdalloc(), or iunlockput(i) when one of them fails.                      *)
OpenTail(p, i) ==
  \/ \E f \in Files, d \in Fds :
       /\ IsFirst(f, FreeFiles) /\ IsFirst(d, FreeFds(p))
       /\ file' = [file EXCEPT ![f] = [ref |-> 1, ip |-> i]]
       /\ ofile' = [ofile EXCEPT ![p][d] = f]
       /\ Set(p, Idle)
  \/ /\ FreeFiles = {} \/ FreeFds(p) = {}
     /\ Set(p, Return(i))
     /\ UNCHANGED <<file, ofile>>

(* open() of what namei() found: a directory only for reading.              *)
OpenFound(p) ==
  /\ At(p, "got") /\ th[p].call \in {"open", "openw"}
  /\ LET i == th[p].ip
     IN /\ Lockable(i)
        /\ valid' = Locked(i)
        /\ IF th[p].call = "openw" /\ dinode[i].type = "dir"
           THEN Set(p, Return(i)) /\ UNCHANGED <<file, ofile>>
           ELSE OpenTail(p, i)
  /\ UNCHANGED <<dinode, ref, lock, cwd, prog, panicked>>

(* create() finds the name in the directory: it lets go of the directory    *)
(* before it locks the inode.                                               *)
CreateFound(p) ==
  /\ At(p, "got") /\ th[p].call \in Creating
  /\ LET d == th[p].ip
         i == dinode[d].ent[Head(th[p].path)]
     IN /\ Lockable(d)
        /\ i # None
        /\ valid' = LockedAndGot(d, i)
        /\ ref' = Got(i)
        /\ Set(p, [th[p] EXCEPT !.at = "exists", !.ip = i, !.path = <<>>,
                                !.put = d])
  /\ UNCHANGED <<dinode, lock, fileVars, prog, panicked>>

CreateExists(p) ==
  /\ At(p, "exists")
  /\ LET i == th[p].ip
     IN /\ Lockable(i)
        /\ valid' = Locked(i)
        /\ IF th[p].call = "creat" /\ dinode[i].type = "file"
           THEN OpenTail(p, i)
           ELSE Set(p, Return(i)) /\ UNCHANGED <<file, ofile>>
  /\ UNCHANGED <<dinode, ref, lock, cwd, prog, panicked>>

FreeInums == {i \in Inums : dinode[i].type = "none"}

(* Mutant of NewEntries: ".." names the new directory itself.               *)
NewEntriesSelf(c, i, d) ==
  IF c = "mkdir" THEN [NoEntries EXCEPT !["."] = i, ![".."] = i] ELSE NoEntries

NewEntries(c, i, d) ==
  IF c = "mkdir" THEN [NoEntries EXCEPT !["."] = i, ![".."] = d] ELSE NoEntries

(* Mutant of ParentLinks: ".." of a new directory is not counted.           *)
ParentLinksSame(c, k) == k

(* nlink of the directory: ".." of a new subdirectory counts.               *)
ParentLinks(c, k) == IF c = "mkdir" THEN k + 1 ELSE k

(* create() makes the inode and enters its name, all with the directory     *)
(* locked, and goes on to iunlockput() it with the new inode still locked.  *)
CreateNew(p) ==
  /\ At(p, "got") /\ th[p].call \in Creating
  /\ LET d == th[p].ip
         c == th[p].call
         n == Head(th[p].path)
     IN /\ Lockable(d)
        /\ dinode[d].ent[n] = None
        /\ \E i \in Inums :
             /\ IsFirst(i, FreeInums)
             /\ dinode' = [dinode EXCEPT
                  ![i] = [type |-> TypeOf(c), nlink |-> 1,
                          ent |-> NewEntries(c, i, d)],
                  ![d].nlink = ParentLinks(c, @),
                  ![d].ent[n] = i]
             /\ ref' = Got(i)
             /\ valid' = [valid EXCEPT ![d] = TRUE, ![i] = TRUE]
             /\ lock' = [lock EXCEPT ![i] = p]
             /\ Set(p, [th[p] EXCEPT !.at = "made", !.ip = i, !.path = <<>>,
                                     !.put = d])
  /\ UNCHANGED <<fileVars, prog, panicked>>

(* create() is back: open() takes a file for the inode, the others drop it. *)
CreateDone(p) ==
  /\ At(p, "made")
  /\ lock' = [lock EXCEPT ![th[p].ip] = None]
  /\ IF th[p].call = "creat"
     THEN OpenTail(p, th[p].ip)
     ELSE Set(p, Return(th[p].ip)) /\ UNCHANGED <<file, ofile>>
  /\ UNCHANGED <<dinode, ref, valid, cwd, prog, panicked>>

-----------------------------------------------------------------------------
(* chdir()                                                                  *)

Chdir(p) ==
  /\ At(p, "got") /\ th[p].call = "chdir"
  /\ LET i == th[p].ip
     IN /\ Lockable(i)
        /\ valid' = Locked(i)
        /\ IF dinode[i].type = "dir"
           THEN Set(p, Return(cwd[p])) /\ cwd' = [cwd EXCEPT ![p] = i]
           ELSE Set(p, Return(i)) /\ UNCHANGED cwd
  /\ UNCHANGED <<dinode, ref, lock, file, ofile, prog, panicked>>

-----------------------------------------------------------------------------
(* link()                                                                   *)

Counted(i) == [dinode EXCEPT ![i].nlink = @ + 1]

(* Mutant of LinkOld: the inode stays locked while the new name is looked   *)
(* for.                                                                     *)
LinkOldLocked(p) ==
  /\ At(p, "got") /\ th[p].call = "link" /\ th[p].ln = None
  /\ LET i == th[p].ip
         d == StartDir(p, th[p].new)
     IN /\ Lockable(i) /\ dinode[i].type # "dir"
        /\ dinode' = Counted(i)
        /\ valid' = LockedAndGot(i, d)
        /\ ref' = Got(d)
        /\ lock' = [lock EXCEPT ![i] = p]
        /\ Set(p, Walk([th[p] EXCEPT !.ln = i], d, th[p].new))
  /\ UNCHANGED <<fileVars, prog, panicked>>

(* The old name is found: count the link to come, then look for the         *)
(* directory of the new name.                                               *)
LinkOld(p) ==
  /\ At(p, "got") /\ th[p].call = "link" /\ th[p].ln = None
  /\ LET i == th[p].ip
         d == StartDir(p, th[p].new)
         r == [th[p] EXCEPT !.ln = i]
     IN /\ Lockable(i)
        /\ \/ /\ dinode[i].type = "dir"
              /\ Set(p, Return(i))
              /\ valid' = Locked(i)
              /\ UNCHANGED <<dinode, ref>>
           \/ /\ dinode[i].type # "dir"
              /\ dinode' = Counted(i)
              /\ valid' = LockedAndGot(i, d)
              /\ ref' = Got(d)
              /\ Set(p, Walk(r, d, th[p].new))
  /\ UNCHANGED <<lock, fileVars, prog, panicked>>

(* dirlink() finds the new name free and enters it.                         *)
LinkNew(p) ==
  /\ At(p, "got") /\ th[p].call = "link" /\ th[p].ln # None
  /\ LET d == th[p].ip
         n == Head(th[p].path)
     IN /\ Lockable(d)
        /\ dinode[d].ent[n] = None
        /\ dinode' = [dinode EXCEPT ![d].ent[n] = th[p].ln]
        /\ valid' = Locked(d)
        /\ Set(p, [Return(d) EXCEPT !.also = th[p].ln])
  /\ UNCHANGED <<ref, lock, fileVars, prog, panicked>>

(* dirlink() finds the new name taken and calls iput() for what it names,   *)
(* with the directory still locked.                                         *)
LinkTaken(p) ==
  /\ At(p, "got") /\ th[p].call = "link" /\ th[p].ln # None
  /\ LET d == th[p].ip
         i == dinode[d].ent[Head(th[p].path)]
     IN /\ Lockable(d)
        /\ i # None
        /\ valid' = LockedAndGot(d, i)
        /\ ref' = Got(i)
        /\ lock' = [lock EXCEPT ![d] = p]
        /\ Set(p, [th[p] EXCEPT !.at = "taken", !.path = <<>>, !.put = i])
  /\ UNCHANGED <<dinode, fileVars, prog, panicked>>

(* Mutant of LinkTakenDone: the directory is unlocked but not put.          *)
LinkTakenLeak(p) ==
  /\ At(p, "taken")
  /\ lock' = [lock EXCEPT ![th[p].ip] = None]
  /\ Set(p, Fail(th[p], None))
  /\ UNCHANGED <<dinode, ref, valid, fileVars, prog, panicked>>

LinkTakenDone(p) ==
  /\ At(p, "taken")
  /\ lock' = [lock EXCEPT ![th[p].ip] = None]
  /\ Set(p, Fail(th[p], th[p].ip))
  /\ UNCHANGED <<dinode, ref, valid, fileVars, prog, panicked>>

(* bad: uncount the link.                                                   *)
LinkBad(p) ==
  /\ At(p, "bad")
  /\ Lockable(th[p].ln)
  /\ dinode' = [dinode EXCEPT ![th[p].ln].nlink = @ - 1]
  /\ valid' = Locked(th[p].ln)
  /\ Set(p, Return(th[p].ln))
  /\ UNCHANGED <<ref, lock, fileVars, prog, panicked>>

-----------------------------------------------------------------------------
(* unlink()                                                                 *)

IsDirEmpty(i) == \A n \in Names : dinode[i].ent[n] = None

(* "." and ".." cannot be unlinked, and the name must be there.             *)
UnlinkRefused(p) ==
  /\ At(p, "got") /\ th[p].call = "unlink"
  /\ LET d == th[p].ip
         n == Head(th[p].path)
     IN /\ Lockable(d)
        /\ n \in {".", ".."} \/ dinode[d].ent[n] = None
        /\ valid' = Locked(d)
        /\ Set(p, Return(d))
  /\ UNCHANGED <<dinode, ref, lock, fileVars, prog, panicked>>

(* The inode to unlink is found; the directory stays locked.                *)
UnlinkFound(p) ==
  /\ At(p, "got") /\ th[p].call = "unlink"
  /\ LET d == th[p].ip
         n == Head(th[p].path)
         i == dinode[d].ent[n]
     IN /\ Lockable(d)
        /\ n \notin {".", ".."} /\ i # None
        /\ valid' = LockedAndGot(d, i)
        /\ ref' = Got(i)
        /\ lock' = [lock EXCEPT ![d] = p]
        /\ Set(p, [th[p] EXCEPT !.at = "target", !.ip = i, !.dp = d])
  /\ UNCHANGED <<dinode, fileVars, prog, panicked>>

(* A directory that is not empty stays: iput() it with its parent locked.   *)
UnlinkNotEmpty(p) ==
  /\ At(p, "target")
  /\ LET i == th[p].ip
     IN /\ Lockable(i)
        /\ dinode[i].type = "dir" /\ ~IsDirEmpty(i)
        /\ valid' = Locked(i)
        /\ Set(p, [th[p] EXCEPT !.at = "notempty", !.ip = None, !.path = <<>>,
                                !.put = i])
  /\ UNCHANGED <<dinode, ref, lock, fileVars, prog, panicked>>

UnlinkNotEmptyDone(p) ==
  /\ At(p, "notempty")
  /\ lock' = [lock EXCEPT ![th[p].dp] = None]
  /\ Set(p, Return(th[p].dp))
  /\ UNCHANGED <<dinode, ref, valid, fileVars, prog, panicked>>

(* The entry is erased; iunlockput() the directory, the inode still locked. *)
UnlinkErase(p) ==
  /\ At(p, "target")
  /\ LET i == th[p].ip
         d == th[p].dp
     IN /\ Lockable(i)
        /\ dinode[i].type = "dir" => IsDirEmpty(i)
        /\ dinode' = [dinode EXCEPT
             ![d].ent[Head(th[p].path)] = None,
             ![d].nlink = IF dinode[i].type = "dir" THEN @ - 1 ELSE @]
        /\ valid' = Locked(i)
        /\ lock' = [lock EXCEPT ![d] = None, ![i] = p]
        /\ Set(p, [th[p] EXCEPT !.at = "unlinked", !.dp = None, !.path = <<>>,
                                !.put = d])
  /\ UNCHANGED <<ref, fileVars, prog, panicked>>

UnlinkDone(p) ==
  /\ At(p, "unlinked")
  /\ LET i == th[p].ip
     IN /\ dinode' = [dinode EXCEPT ![i].nlink = @ - 1]
        /\ lock' = [lock EXCEPT ![i] = None]
        /\ Set(p, Return(i))
  /\ UNCHANGED <<ref, valid, fileVars, prog, panicked>>

-----------------------------------------------------------------------------
(* close(), dup(), fork() and exit()                                        *)

(* fileclose(): the last reference to the file drops the inode.             *)
Close(p, d) ==
  /\ At(p, "user") \/ (At(p, "exiting") /\ IsFirst(d, Fds \ FreeFds(p)))
  /\ LET f == ofile[p][d]
     IN /\ f # None
        /\ ofile' = [ofile EXCEPT ![p][d] = None]
        /\ IF file[f].ref > 1
           THEN /\ file' = [file EXCEPT ![f].ref = @ - 1]
                /\ UNCHANGED th
           ELSE /\ file' = [file EXCEPT ![f] = [ref |-> 0, ip |-> None]]
                /\ Set(p, [th[p] EXCEPT !.put = file[f].ip])
  /\ UNCHANGED <<dinode, ref, valid, lock, cwd, prog, panicked>>

SysDup(p, d) ==
  /\ At(p, "user")
  /\ ofile[p][d] # None
  /\ \E e \in Fds :
       /\ IsFirst(e, FreeFds(p))
       /\ ofile' = [ofile EXCEPT ![p][e] = ofile[p][d]]
  /\ file' = [file EXCEPT ![ofile[p][d]].ref = @ + 1]
  /\ UNCHANGED <<dinode, ref, valid, lock, cwd, th, prog, panicked>>

FdsOf(p, f) == {d \in Fds : ofile[p][d] = f}

(* What fork() shares with the child: open files and current directory.     *)
Fork(p, q) ==
  /\ At(p, "user")
  /\ At(q, "dead")
  /\ ofile' = [ofile EXCEPT ![q] = ofile[p]]
  /\ file' = [f \in Files |->
       [file[f] EXCEPT !.ref = @ + Cardinality(FdsOf(p, f))]]
  /\ cwd' = [cwd EXCEPT ![q] = cwd[p]]
  /\ ref' = Got(cwd[p])
  /\ Set(q, Idle)
  /\ UNCHANGED <<dinode, valid, lock, prog, panicked>>

SysExit(p) ==
  /\ At(p, "user")
  /\ p # 1
  /\ Set(p, [Idle EXCEPT !.at = "exiting"])
  /\ UNCHANGED <<dinode, ref, valid, lock, fileVars, prog, panicked>>

(* Every file is closed: drop the current directory.                        *)
ExitCwd(p) ==
  /\ At(p, "exiting")
  /\ FreeFds(p) = Fds
  /\ cwd' = [cwd EXCEPT ![p] = None]
  /\ Set(p, [Idle EXCEPT !.at = "dead", !.put = cwd[p]])
  /\ UNCHANGED <<dinode, ref, valid, lock, file, ofile, prog, panicked>>

-----------------------------------------------------------------------------
(* Panics.                                                                  *)

(* The inode process p calls ilock() or iput() for next.                    *)
Wanted(p) ==
  IF th[p].drop # None THEN None
  ELSE IF th[p].put # None THEN th[p].put
  ELSE IF th[p].at \in {"walk", "got", "exists", "target"} THEN th[p].ip
  ELSE IF th[p].at = "bad" THEN th[p].ln
  ELSE None

(* ilock() of an inode that was freed: panic("ilock: no type").             *)
IlockPanic(p) ==
  /\ ~panicked /\ th[p].put = None
  /\ Wanted(p) # None
  /\ lock[Wanted(p)] = None
  /\ dinode[Wanted(p)].type = "none"
  /\ panicked' = TRUE
  /\ UNCHANGED <<dinode, ref, valid, lock, fileVars, th, prog>>

(* panic("ialloc: no inodes")                                               *)
IallocPanic(p) ==
  /\ At(p, "got") /\ th[p].call \in Creating
  /\ Lockable(th[p].ip)
  /\ dinode[th[p].ip].ent[Head(th[p].path)] = None
  /\ FreeInums = {}
  /\ panicked' = TRUE
  /\ UNCHANGED <<dinode, ref, valid, lock, fileVars, th, prog>>

Halted == panicked /\ UNCHANGED vars

-----------------------------------------------------------------------------

SysCall(p) ==
  \/ \E u \in prog.uses : SysPath(p, u[1], u[2])
  \/ \E l \in prog.links : SysLink(p, l[1], l[2])
  \/ \E d \in Fds : Close(p, d)
  \/ \E d \in Fds : SysDup(p, d)
  \/ \E q \in Procs : Fork(p, q)
  \/ SysExit(p)

KernelStep(p) ==
  \/ IputLocked(p) \/ IputRef(p) \/ NamexStep(p)
  \/ OpenFound(p)
  \/ CreateFound(p) \/ CreateExists(p) \/ CreateNew(p) \/ CreateDone(p)
  \/ Chdir(p)
  \/ LinkOld(p) \/ LinkNew(p) \/ LinkTaken(p) \/ LinkTakenDone(p) \/ LinkBad(p)
  \/ UnlinkRefused(p) \/ UnlinkFound(p)
  \/ UnlinkNotEmpty(p) \/ UnlinkNotEmptyDone(p)
  \/ UnlinkErase(p) \/ UnlinkDone(p)
  \/ ExitCwd(p)
  \/ IlockPanic(p) \/ IallocPanic(p)

Next == Halted \/ \E p \in Procs : SysCall(p) \/ KernelStep(p)

Spec == Init /\ [][Next]_vars

-----------------------------------------------------------------------------
(* Properties.                                                              *)

Users(i) ==
  Cardinality({p \in Procs : cwd[p] = i})
    + Cardinality({f \in Files : file[f].ip = i})

(* The pointers to inode i in the variables of calls under way.             *)
Pointers(i) ==
  LET In(v) == {p \in Procs : th[p][v] = i}
  IN Cardinality(In("ip")) + Cardinality(In("dp")) + Cardinality(In("ln"))
     + Cardinality(In("put")) + Cardinality(In("also")) + Cardinality(In("drop"))

(* ip->ref is the number of pointers to the inode: current directories,     *)
(* open files and calls under way, through every early return of namex(),   *)
(* create(), link() and unlink(); f->ref is the number of descriptors of    *)
(* the file, over all processes.                                            *)
RefCounts ==
  /\ \A i \in Inums : ref[i] = Users(i) + Pointers(i)
  /\ \A f \in Files :
       file[f].ref = Cardinality({x \in Procs \X Fds : ofile[x[1]][x[2]] = f})

(* iput() never frees an inode that is open or somebody's current           *)
(* directory, whatever happens to its names.                                *)
OpenAllocated == \A i \in Inums : Users(i) > 0 => dinode[i].type # "none"

Dirs == {d \in Inums : dinode[d].type = "dir"}
NamesOf(i) == {x \in Dirs \X Names : dinode[x[1]].ent[x[2]] = i}
Subdirs(i) == {n \in Names : i \in Dirs /\ dinode[i].ent[n] \in Dirs}

(* nlink is never less than the number of names, and one more for each      *)
(* subdirectory: no inode is freed while a directory names it, and          *)
(* unlink() never panics on nlink < 1, however link(), unlink() and         *)
(* create() interleave.                                                     *)
LinksCovered ==
  \A i \in Inums :
    Cardinality(NamesOf(i)) + Cardinality(Subdirs(i)) <= dinode[i].nlink

(* Directories form a tree: ".." of a directory is the one that names it.   *)
TreeShape ==
  \A d \in Dirs, n \in Names :
    dinode[d].ent[n] \in Dirs =>
      /\ dinode[dinode[d].ent[n]].ent[".."] = d
      /\ dinode[dinode[d].ent[n]].ent["."] = dinode[d].ent[n]

(* Path lookup and the calls built on it do not deadlock: where processes   *)
(* wait for each other's inode locks in a circle, one of them waits inside  *)
(* iput(), which takes the lock of an inode whatever its caller holds.      *)
CirclesNeedIput ==
  \A S \in SUBSET Procs :
    S # {} /\ (\A p \in S : Wanted(p) # None /\ lock[Wanted(p)] \in S) =>
      \E p \in S : th[p].put # None
=============================================================================
