------------------------------ MODULE Syscalls ------------------------------
(***************************************************************************)
(* The system calls as user programs see them: what each call does to      *)
(* files, directories, pipes, processes and memory, and what it returns.   *)
(* A call is one step, except where the code lets others in between: a     *)
(* write() in several transactions, a pipe that fills up, a wait().        *)
(*                                                                         *)
(* A program is a sequence of calls.  Each call may say what its result    *)
(* must be, as the programs of the repository do when they test it.        *)
(* Module FileSys has the same calls with their locks and interleavings.   *)
(***************************************************************************)
EXTENDS Integers, Sequences, FiniteSets, FiniteSetsExt, SequencesExt

CONSTANTS
  NPROC, NINODES, NFILE, NOFILE, NPIPE,  \* sizes of the tables
  PIPESIZE,     \* bytes in a pipe
  MAXFILE,      \* bytes in a file
  MaxWrite,     \* bytes filewrite() writes in one transaction
  DIRSIZ,       \* length of a name
  PGSIZE, Mem,  \* bytes in a page, pages for user memory
  KERNBASE,     \* end of the user's address space
  StartSize,    \* bytes of a program just loaded
  StackRoom,    \* arguments that fit on its stack
  Image(_, _),  \* what program f does with arguments argv
  Programs,     \* the files on the disk, each holding its program
  Mains         \* what the first user process does

Procs == 1 .. NPROC
Inums == 1 .. NINODES
Files == 1 .. NFILE
Fds == 0 .. NOFILE - 1
Pipes == 1 .. NPIPE
None == 0
ROOTINO == 1
INIT == 1

VARIABLES
  inode,   \* type, links, data and directory entries, per inode
  file,    \* ftable
  pipe,    \* bytes in transit and open ends, per pipe
  proc,    \* processes: their state and the calls they still make
  nextpid,
  failed   \* a call did not return what its program expects

vars == <<inode, file, pipe, proc, nextpid, failed>>

FreeInode == [type |-> "none", nlink |-> 0, data |-> <<>>, ent |-> << >>]
FreeFile == [type |-> "none", ref |-> 0, ip |-> None, off |-> 0,
             r |-> FALSE, w |-> FALSE]
FreePipe == [data |-> <<>>, r |-> FALSE, w |-> FALSE]
NoProc == [state |-> "unused", pid |-> 0, parent |-> None, killed |-> FALSE,
           cwd |-> None, ofile |-> [d \in Fds |-> None], sz |-> 0,
           dirty |-> {}, todo |-> <<>>, reg |-> << >>]

-----------------------------------------------------------------------------
(* Programs: the calls, and what is expected of them.  v names the variable *)
(* that receives the result, fd the one that holds a descriptor.            *)

open(v, path, mode) == [op |-> "open", to |-> v, path |-> path, mode |-> mode]
close(fd) == [op |-> "close", fd |-> fd]
dup(fd) == [op |-> "dup", fd |-> fd]
mkpipe(v, w) == [op |-> "pipe", rd |-> v, wr |-> w]
read(fd, n) == [op |-> "read", fd |-> fd, n |-> n]
readdir(fd) == [op |-> "readdir", fd |-> fd]
readall(fd, n, times) ==  \* until there is no more, n bytes, then n * times...
  [op |-> "readall", fd |-> fd, n |-> n, times |-> times, got |-> <<>>]
copy(fd, n, to) == [op |-> "copy", fd |-> fd, n |-> n, out |-> to]
write(fd, data) == [op |-> "write", fd |-> fd, data |-> data, sent |-> 0]
mkdir(path) == [op |-> "mkdir", path |-> path]
chdir(path) == [op |-> "chdir", path |-> path]
link(old, new) == [op |-> "link", old |-> old, path |-> new]
unlink(path) == [op |-> "unlink", path |-> path]
fork(v, child) == [op |-> "fork", to |-> v, child |-> child]
forkall(v, child) ==      \* until it fails
  [op |-> "forkall", to |-> v, child |-> child, n |-> 0]
wait == [op |-> "wait"]
reap == [op |-> "reap"]                   \* until it fails
waitall(v) == [op |-> "waitall", n |-> v]
exit == [op |-> "exit"]
kill(v) == [op |-> "kill", pid |-> v]
exec(path, argv) == [op |-> "exec", path |-> path, argv |-> argv]
sbrk(n) == [op |-> "sbrk", n |-> n]
brk(n) == [op |-> "brk", n |-> n]         \* sbrk(n - sbrk(0))
load(a) == [op |-> "load", addr |-> a]
store(a) == [op |-> "store", addr |-> a]
trap == [op |-> "trap"]                   \* an instruction the user may not use
sleepat(a) == [op |-> "sleepat", addr |-> a]  \* with its argument at address a
outcome(ns) == [op |-> "outcome", names |-> ns]
spin == [op |-> "spin"]
anyof(scripts) == [op |-> "anyof", scripts |-> scripts]

Must(s) == s @@ [want |-> "ok"]           \* the result is not -1
MustNot(s) == s @@ [want |-> "error"]     \* it is -1
Gives(s, n) == s @@ [want |-> "value", n0 |-> n]
GivesReg(s, v) == s @@ [want |-> "reg", v |-> v]
GivesData(s, d) == s @@ [want |-> "data", ds |-> {d}]
GivesOne(s, ds) == s @@ [want |-> "data", ds |-> ds]
OrExit(s) == s @@ [want |-> "orexit"]     \* the program gives up at -1

-----------------------------------------------------------------------------
(* A call of process p.                                                     *)

Stmt(p) == Head(proc[p].todo)

(* In the middle of a write to a file, which kill() does not cut short.      *)
Writing(p) ==
  /\ proc[p].todo # <<>> /\ Stmt(p).op = "write" /\ Stmt(p).sent > 0
  /\ file[proc[p].ofile[proc[p].reg[Stmt(p).fd]]].type = "inode"

(* trap() lets a killed process start no other call.                         *)
Calls(p, op) ==
  /\ ~failed /\ proc[p].state = "live" /\ proc[p].todo # <<>>
  /\ Stmt(p).op = op
  /\ proc[p].killed => Writing(p)

(* The result n, or the bytes d, is what the program expects.               *)
Meets(p, n, d) ==
  LET s == Stmt(p)
  IN "want" \in DOMAIN s =>
       CASE s.want = "ok" -> n >= 0
         [] s.want = "error" -> n < 0
         [] s.want = "value" -> n = s.n0
         [] s.want = "reg" -> n = proc[p].reg[s.v]
         [] s.want = "data" -> d \in s.ds
         [] s.want = "orexit" -> TRUE

GivesUp(p, n) == n < 0 /\ "want" \in DOMAIN Stmt(p) /\ Stmt(p).want = "orexit"

(* Mutant of Collected: nothing is ever freed.                              *)
CollectedNever(ino, fl, pr) == ino

(* iput(): an inode without links and without users is freed.               *)
Collected(ino, fl, pr) ==
  [i \in Inums |->
     IF /\ ino[i].nlink = 0
        /\ \A f \in Files : fl[f].type = "inode" => fl[f].ip # i
        /\ \A q \in Procs : pr[q].cwd # i
     THEN FreeInode ELSE ino[i]]

(* The call returns n and the bytes d.                                      *)
Finish(p, ino, fl, pi, pr, n, d) ==
  /\ inode' = Collected(ino, fl, pr)
  /\ file' = fl /\ pipe' = pi
  /\ proc' = [pr EXCEPT ![p].todo = IF GivesUp(p, n) THEN <<exit>> ELSE Tail(@),
                        ![p].reg = IF "to" \in DOMAIN Stmt(p)
                                   THEN (Stmt(p).to :> n) @@ @ ELSE @]
  /\ failed' = ~Meets(p, n, d)

(* The call goes on as the statements ss.                                   *)
Continue(p, ino, fl, pi, ss) ==
  /\ inode' = ino /\ file' = fl /\ pipe' = pi
  /\ proc' = [proc EXCEPT ![p].todo = ss \o Tail(@)]
  /\ UNCHANGED failed

-----------------------------------------------------------------------------
(* Paths.                                                                   *)

(* skipelem() cuts a name to DIRSIZ.                                        *)
Cut(n) == IF Len(n) > DIRSIZ THEN SubSeq(n, 1, DIRSIZ) ELSE n

IsAbs(path) == path # <<>> /\ path[1] = "/"
Elems(path) ==
  LET e == IF IsAbs(path) THEN Tail(path) ELSE path
  IN [k \in DOMAIN e |-> Cut(e[k])]

IsDir(d) == d # None /\ inode[d].type = "dir"

dirlookup(d, n) ==
  IF IsDir(d) /\ n \in DOMAIN inode[d].ent THEN inode[d].ent[n] ELSE None

(* The inode after k names of the path.                                     *)
namex(p, path, k) ==
  LET w[j \in 0 .. k] ==
        IF j = 0 THEN (IF IsAbs(path) THEN ROOTINO ELSE proc[p].cwd)
        ELSE dirlookup(w[j - 1], Elems(path)[j])
  IN w[k]

namei(p, path) == namex(p, path, Len(Elems(path)))

(* The directory that holds the last name.                                  *)
nameiparent(p, path) ==
  LET d == namex(p, path, Len(Elems(path)) - 1)
  IN IF Elems(path) = <<>> \/ ~IsDir(d) THEN None ELSE d

LastName(path) == Elems(path)[Len(Elems(path))]

-----------------------------------------------------------------------------
(* Directories.                                                             *)

Entered(ino, d, n, i) == [ino EXCEPT ![d].ent = (n :> i) @@ @]

FreeInums == {i \in Inums : inode[i].type = "none"}

(* Mutant of create: the parent's link for ".." is not counted.             *)
createUncounted(p, path, type) ==
  LET d == nameiparent(p, path)
      n == LastName(path)
      old == dirlookup(d, n)
      i == Min(FreeInums)
      new == [FreeInode EXCEPT !.type = type, !.nlink = 1,
                !.ent = IF type = "dir" THEN "." :> i @@ ".." :> d ELSE @]
  IN IF d = None THEN [ip |-> None, ino |-> inode]
     ELSE IF old # None
     THEN [ip |-> IF type = "file" /\ inode[old].type = "file" THEN old ELSE None,
           ino |-> inode]
     ELSE [ip |-> i, ino |-> Entered([inode EXCEPT ![i] = new], d, n, i)]

(* create(): the inode, None if it fails, and the inodes afterwards.        *)
create(p, path, type) ==
  LET d == nameiparent(p, path)
      n == LastName(path)
      old == dirlookup(d, n)
      i == Min(FreeInums)
      new == [FreeInode EXCEPT !.type = type, !.nlink = 1,
                !.ent = IF type = "dir" THEN "." :> i @@ ".." :> d ELSE @]
  IN IF d = None THEN [ip |-> None, ino |-> inode]
     ELSE IF old # None
     THEN [ip |-> IF type = "file" /\ inode[old].type = "file" THEN old ELSE None,
           ino |-> inode]
     ELSE [ip |-> i,
           ino |-> Entered([inode EXCEPT ![i] = new,
                              ![d].nlink = IF type = "dir" THEN @ + 1 ELSE @],
                           d, n, i)]

SysMkdir(p) ==
  /\ Calls(p, "mkdir")
  /\ LET c == create(p, Stmt(p).path, "dir")
     IN Finish(p, c.ino, file, pipe, proc, IF c.ip = None THEN -1 ELSE 0, <<>>)
  /\ UNCHANGED nextpid

SysChdir(p) ==
  /\ Calls(p, "chdir")
  /\ LET d == namei(p, Stmt(p).path)
     IN IF IsDir(d)
        THEN Finish(p, inode, file, pipe, [proc EXCEPT ![p].cwd = d], 0, <<>>)
        ELSE Finish(p, inode, file, pipe, proc, -1, <<>>)
  /\ UNCHANGED nextpid

SysLink(p) ==
  /\ Calls(p, "link")
  /\ LET i == namei(p, Stmt(p).old)
         d == nameiparent(p, Stmt(p).path)
         n == LastName(Stmt(p).path)
     IN IF i = None \/ IsDir(i) \/ d = None \/ dirlookup(d, n) # None
        THEN Finish(p, inode, file, pipe, proc, -1, <<>>)
        ELSE Finish(p, Entered([inode EXCEPT ![i].nlink = @ + 1], d, n, i),
                    file, pipe, proc, 0, <<>>)
  /\ UNCHANGED nextpid

isdirempty(i) == DOMAIN inode[i].ent = {".", ".."}

SysUnlink(p) ==
  /\ Calls(p, "unlink")
  /\ LET d == nameiparent(p, Stmt(p).path)
         n == LastName(Stmt(p).path)
         i == dirlookup(d, n)
         rest == [m \in DOMAIN inode[d].ent \ {n} |-> inode[d].ent[m]]
     IN IF d = None \/ n \in {".", ".."} \/ i = None \/ (IsDir(i) /\ ~isdirempty(i))
        THEN Finish(p, inode, file, pipe, proc, -1, <<>>)
        ELSE Finish(p, [inode EXCEPT ![d].ent = rest,
                          ![d].nlink = IF IsDir(i) THEN @ - 1 ELSE @,
                          ![i].nlink = @ - 1],
                    file, pipe, proc, 0, <<>>)
  /\ UNCHANGED nextpid

-----------------------------------------------------------------------------
(* Descriptors.                                                             *)

(* argfd(): the open file a descriptor stands for, None if it is not open.   *)
argfd(p) ==
  LET s == Stmt(p)
      d == IF s.fd \in DOMAIN proc[p].reg THEN proc[p].reg[s.fd] ELSE -1
  IN IF d \in Fds THEN proc[p].ofile[d] ELSE None

FreeFds(p) == {d \in Fds : proc[p].ofile[d] = None}
FreeFiles == {f \in Files : file[f].ref = 0}

(* fileclose(): the files after process p gives up the descriptors ds.       *)
fileclose(p, ds) ==
  [f \in Files |->
     LET k == file[f].ref - Cardinality({d \in ds : proc[p].ofile[d] = f})
     IN IF k = 0 THEN FreeFile ELSE [file[f] EXCEPT !.ref = k]]

(* Mutant of pipeclose: closing the write end goes unnoticed.                *)
pipecloseRead(fl) ==
  [k \in Pipes |->
     LET ends == {f \in Files : fl[f].type = "pipe" /\ fl[f].ip = k}
     IN IF ends = {} THEN FreePipe
        ELSE [pipe[k] EXCEPT !.r = \E f \in ends : fl[f].r]]

(* pipeclose(): an end is closed with its file, a pipe goes with its ends.   *)
pipeclose(fl) ==
  [k \in Pipes |->
     LET ends == {f \in Files : fl[f].type = "pipe" /\ fl[f].ip = k}
     IN IF ends = {} THEN FreePipe
        ELSE [pipe[k] EXCEPT !.r = \E f \in ends : fl[f].r,
                             !.w = \E f \in ends : fl[f].w]]

Without(p, ds) ==
  [proc EXCEPT ![p].ofile = [d \in Fds |-> IF d \in ds THEN None ELSE @[d]]]

Fails(p, ino) == Finish(p, ino, file, pipe, proc, -1, <<>>)

Readable == {"r", "rw", "rc", "rwc"}
Writable == {"w", "rw", "wc", "rwc"}
Creating == {"rc", "wc", "rwc"}

SysOpen(p) ==
  /\ Calls(p, "open")
  /\ LET m == Stmt(p).mode
         i == namei(p, Stmt(p).path)
         c == IF m \in Creating THEN create(p, Stmt(p).path, "file")
              ELSE [ip |-> IF i # None /\ IsDir(i) /\ m # "r" THEN None ELSE i,
                    ino |-> inode]
         f == Min(FreeFiles)
         d == Min(FreeFds(p))
     IN IF c.ip = None \/ FreeFiles = {} \/ FreeFds(p) = {}
        THEN Fails(p, c.ino)
        ELSE Finish(p, c.ino,
                    [file EXCEPT ![f] = [type |-> "inode", ref |-> 1, ip |-> c.ip,
                       off |-> 0, r |-> m \in Readable, w |-> m \in Writable]],
                    pipe, [proc EXCEPT ![p].ofile[d] = f], d, <<>>)
  /\ UNCHANGED nextpid

SysClose(p) ==
  /\ Calls(p, "close")
  /\ IF argfd(p) = None THEN Fails(p, inode)
     ELSE LET ds == {proc[p].reg[Stmt(p).fd]}
              fl == fileclose(p, ds)
          IN Finish(p, inode, fl, pipeclose(fl), Without(p, ds), 0, <<>>)
  /\ UNCHANGED nextpid

SysDup(p) ==
  /\ Calls(p, "dup")
  /\ LET f == argfd(p)
         d == Min(FreeFds(p))
     IN IF f = None \/ FreeFds(p) = {} THEN Fails(p, inode)
        ELSE Finish(p, inode, [file EXCEPT ![f].ref = @ + 1], pipe,
                    [proc EXCEPT ![p].ofile[d] = f], d, <<>>)
  /\ UNCHANGED nextpid

(* pipealloc(): the files of the two ends of a free pipe.                    *)
FreePipes == {k \in Pipes : pipe[k] = FreePipe}
pipealloc(k, f0, f1) ==
  LET end(r) == [type |-> "pipe", ref |-> 1, ip |-> k, off |-> 0, r |-> r, w |-> ~r]
  IN [fl |-> [file EXCEPT ![f0] = end(TRUE), ![f1] = end(FALSE)],
      pi |-> [pipe EXCEPT ![k] = [data |-> <<>>, r |-> TRUE, w |-> TRUE]]]

(* sys_pipe(): two files, two descriptors, or nothing at all.                *)
SysPipe(p) ==
  /\ Calls(p, "pipe")
  /\ LET f0 == Min(FreeFiles)
         f1 == Min(FreeFiles \ {f0})
         d0 == Min(FreeFds(p))
         d1 == Min(FreeFds(p) \ {d0})
         x == pipealloc(Min(FreePipes), f0, f1)
     IN IF \/ FreePipes = {}
           \/ Cardinality(FreeFiles) < 2 \/ Cardinality(FreeFds(p)) < 2
        THEN Fails(p, inode)
        ELSE Finish(p, inode, x.fl, x.pi,
                    [proc EXCEPT ![p].ofile = [@ EXCEPT ![d0] = f0, ![d1] = f1],
                       ![p].reg = Stmt(p).rd :> d0 @@ Stmt(p).wr :> d1 @@ @],
                    0, <<>>)
  /\ UNCHANGED nextpid

-----------------------------------------------------------------------------
(* Reading and writing.                                                     *)

(* piperead() waits while the pipe is empty and somebody may write.          *)
MustWait(f) ==
  /\ f # None /\ file[f].type = "pipe" /\ file[f].r
  /\ pipe[file[f].ip].data = <<>> /\ pipe[file[f].ip].w

Bytes(f) == IF file[f].type = "pipe" THEN pipe[file[f].ip].data
            ELSE LET d == inode[file[f].ip].data
                 IN SubSeq(d, file[f].off + 1, Len(d))

CanRead(f, n) == f # None /\ file[f].r /\ n >= 0

(* fileread(): up to n bytes, the files and the pipes afterwards.            *)
fileread(f, n) ==
  LET b == Bytes(f)
      k == IF n < Len(b) THEN n ELSE Len(b)
  IN [bytes |-> SubSeq(b, 1, k),
      fl |-> IF file[f].type = "pipe" THEN file
             ELSE [file EXCEPT ![f].off = @ + k],
      pi |-> IF file[f].type = "pipe"
             THEN [pipe EXCEPT ![file[f].ip].data = SubSeq(b, k + 1, Len(b))]
             ELSE pipe]

SysRead(p) ==
  /\ Calls(p, "read")
  /\ LET f == argfd(p)
         x == fileread(f, Stmt(p).n)
     IN IF ~CanRead(f, Stmt(p).n) THEN Fails(p, inode)
        ELSE /\ ~MustWait(f)
             /\ Finish(p, inode, x.fl, x.pi, proc, Len(x.bytes), x.bytes)
  /\ UNCHANGED nextpid

(* Reading until read() returns no more; the call reads at most MaxRead.     *)
MaxRead == 4
ReadAll(p) ==
  /\ Calls(p, "readall")
  /\ LET f == argfd(p)
         s == Stmt(p)
         x == fileread(f, s.n)
         n == IF s.n * s.times > MaxRead THEN MaxRead ELSE s.n * s.times
     IN IF ~CanRead(f, s.n) THEN Fails(p, inode)
        ELSE /\ ~MustWait(f)
             /\ IF x.bytes = <<>>
                THEN Finish(p, inode, file, pipe, proc, Len(s.got), s.got)
                ELSE Continue(p, inode, x.fl, x.pi,
                       <<[s EXCEPT !.n = n, !.got = @ \o x.bytes]>>)
  /\ UNCHANGED nextpid

(* Writing to one descriptor what the other one gives.                       *)
Copy(p) ==
  /\ Calls(p, "copy")
  /\ LET f == argfd(p)
         x == fileread(f, Stmt(p).n)
     IN IF ~CanRead(f, Stmt(p).n) THEN Fails(p, inode)
        ELSE /\ ~MustWait(f)
             /\ IF x.bytes = <<>> THEN Finish(p, inode, file, pipe, proc, 0, <<>>)
                ELSE Continue(p, inode, x.fl, x.pi,
                       <<OrExit(write(Stmt(p).out, x.bytes)), Stmt(p)>>)
  /\ UNCHANGED nextpid

(* The names in a directory.                                                 *)
ReadDir(p) ==
  /\ Calls(p, "readdir")
  /\ LET f == argfd(p)
     IN IF ~CanRead(f, 1) THEN Fails(p, inode)
        ELSE Finish(p, inode, file, pipe, proc, 0, DOMAIN inode[file[f].ip].ent)
  /\ UNCHANGED nextpid

CanWrite(f) == f # None /\ file[f].w

WriteFails(p) ==
  /\ Calls(p, "write") /\ ~CanWrite(argfd(p))
  /\ Fails(p, inode)
  /\ UNCHANGED nextpid

(* pipewrite(): as many bytes as there is room for; it waits for room while  *)
(* there is a reader.                                                        *)
PipeWrite(p) ==
  /\ Calls(p, "write")
  /\ LET f == argfd(p)
         k == file[f].ip
         s == Stmt(p)
         left == Len(s.data) - s.sent
         room == PIPESIZE - Len(pipe[k].data)
         n == IF left < room THEN left ELSE room
         pi == [pipe EXCEPT ![k].data = @ \o SubSeq(s.data, s.sent + 1, s.sent + n)]
     IN /\ CanWrite(f) /\ file[f].type = "pipe"
        /\ \/ /\ n = left
              /\ Finish(p, inode, file, pi, proc, Len(s.data), <<>>)
           \/ /\ n < left /\ n > 0
              /\ Continue(p, inode, file, pi, <<[s EXCEPT !.sent = @ + n]>>)
           \/ /\ n < left /\ n = 0 /\ ~pipe[k].r
              /\ Fails(p, inode)
  /\ UNCHANGED nextpid

(* writei(): the data of inode i with bytes written at off; a device appends. *)
writei(i, off, bytes) ==
  LET old == inode[i].data
  IN IF inode[i].type = "dev" THEN old \o bytes
     ELSE SubSeq(old, 1, off) \o bytes \o SubSeq(old, off + Len(bytes) + 1, Len(old))

(* filewrite(): MaxWrite bytes per transaction, at the offset the open file  *)
(* has then.                                                                 *)
FileWrite(p) ==
  /\ Calls(p, "write")
  /\ LET f == argfd(p)
         i == file[f].ip
         s == Stmt(p)
         left == Len(s.data) - s.sent
         n == IF left < MaxWrite THEN left ELSE MaxWrite
         new == writei(i, file[f].off, SubSeq(s.data, s.sent + 1, s.sent + n))
         ino == [inode EXCEPT ![i].data = new]
         fl == [file EXCEPT ![f].off = IF inode[i].type = "dev" THEN @ ELSE @ + n]
     IN /\ CanWrite(f) /\ file[f].type = "inode"
        /\ IF inode[i].type # "dev" /\ file[f].off + n > MAXFILE THEN Fails(p, inode)
           ELSE IF n = left
           THEN Finish(p, ino, fl, pipe, proc, Len(s.data), <<>>)
           ELSE Continue(p, ino, fl, pipe, <<[s EXCEPT !.sent = @ + n]>>)
  /\ UNCHANGED nextpid

-----------------------------------------------------------------------------
(* Processes.                                                               *)

PageCount(n) == (n + PGSIZE - 1) \div PGSIZE
UsedPages(pr) ==
  FoldSet(LAMBDA q, t : t + PageCount(pr[q].sz), 0, Procs)
FreePages == Mem - UsedPages(proc)
FreeSlots == {q \in Procs : proc[q].state = "unused"}

CanFork(p) == FreeSlots # {} /\ PageCount(proc[p].sz) <= FreePages

(* fork(): the files and the processes with a child that runs script.        *)
Forked(p, v, script) ==
  LET q == Min(FreeSlots)
      ds(f) == Cardinality({d \in Fds : proc[p].ofile[d] = f})
  IN [fl |-> [f \in Files |-> [file[f] EXCEPT !.ref = @ + ds(f)]],
      pr |-> [proc EXCEPT ![q] = [proc[p] EXCEPT
                !.pid = nextpid, !.parent = p, !.killed = FALSE,
                !.todo = script, !.reg = v :> 0 @@ @]]]

SysFork(p) ==
  /\ Calls(p, "fork")
  /\ LET s == Stmt(p)
         x == Forked(p, s.to, s.child)
     IN IF CanFork(p) THEN Finish(p, inode, x.fl, pipe, x.pr, nextpid, <<>>)
        ELSE Fails(p, inode)
  /\ nextpid' = IF FreeSlots = {} THEN nextpid ELSE nextpid + 1

(* A program that forks until fork() fails.                                  *)
ForkAll(p) ==
  /\ Calls(p, "forkall")
  /\ LET s == Stmt(p)
         x == Forked(p, s.to, s.child)
     IN IF CanFork(p)
        THEN /\ proc' = [x.pr EXCEPT ![p].todo = <<[s EXCEPT !.n = @ + 1]>> \o Tail(@)]
             /\ file' = x.fl
             /\ UNCHANGED <<inode, pipe, failed>>
        ELSE Finish(p, inode, file, pipe, proc, s.n, <<>>)
  /\ nextpid' = IF FreeSlots = {} THEN nextpid ELSE nextpid + 1

Children(p) == {q \in Procs : proc[q].state # "unused" /\ proc[q].parent = p}

(* wait(): -1 without children, else the first zombie in the table.          *)
SysWait(p) ==
  /\ Calls(p, "wait")
  /\ LET z == {q \in Children(p) : proc[q].state = "zombie"}
     IN IF Children(p) = {} THEN Fails(p, inode)
        ELSE /\ z # {}
             /\ Finish(p, inode, file, pipe, [proc EXCEPT ![Min(z)] = NoProc],
                       proc[Min(z)].pid, <<>>)
  /\ UNCHANGED nextpid

(* As many calls of wait() as fork() made children.                          *)
WaitAll(p) ==
  /\ Calls(p, "waitall")
  /\ Continue(p, inode, file, pipe,
              [k \in 1 .. proc[p].reg[Stmt(p).n] |-> Must(wait)])
  /\ UNCHANGED nextpid

(* exit(): close everything, give the children to init, become a zombie.     *)
(* The memory stays until wait().                                            *)
Exited(p) ==
  LET fl == fileclose(p, Fds)
  IN /\ proc' = [q \in Procs |->
          IF q = p THEN [proc[p] EXCEPT !.state = "zombie", !.cwd = None,
                           !.todo = <<>>, !.reg = << >>,
                           !.ofile = [d \in Fds |-> None]]
          ELSE IF proc[q].parent = p THEN [proc[q] EXCEPT !.parent = INIT]
          ELSE proc[q]]
     /\ file' = fl
     /\ pipe' = pipeclose(fl)
     /\ inode' = Collected(inode, fl, proc')
     /\ UNCHANGED <<nextpid, failed>>

SysExit(p) == Calls(p, "exit") /\ Exited(p)

(* trap(): a process that was killed exits when it is back in user mode, and *)
(* a killed sleeper wakes up.                                                *)
KilledExit(p) ==
  /\ ~failed /\ proc[p].state = "live" /\ proc[p].killed /\ ~Writing(p)
  /\ Exited(p)

SysKill(p) ==
  /\ Calls(p, "kill")
  /\ LET t == {q \in Procs : /\ proc[q].state # "unused"
                             /\ proc[q].pid = proc[p].reg[Stmt(p).pid]}
     IN IF t = {} THEN Fails(p, inode)
        ELSE Finish(p, inode, file, pipe,
                    [proc EXCEPT ![Min(t)].killed = TRUE], 0, <<>>)
  /\ UNCHANGED nextpid

(* exec(): the new image is complete before the old one goes.                *)
StdFds == "stdin" :> 0 @@ "stdout" :> 1 @@ "stderr" :> 2

SysExec(p) ==
  /\ Calls(p, "exec")
  /\ LET s == Stmt(p)
         i == namei(p, s.path)
     IN IF \/ i = None
           \/ inode[i].data = <<>> \/ inode[i].data[1] \notin Range(Programs)
           \/ Len(s.argv) > StackRoom
           \/ PageCount(StartSize) > FreePages
        THEN Fails(p, inode)
        ELSE /\ proc' = [proc EXCEPT ![p].todo = Image(inode[i].data[1], s.argv),
                           ![p].sz = StartSize, ![p].dirty = {}, ![p].reg = StdFds]
             /\ UNCHANGED <<inode, file, pipe, failed>>
  /\ UNCHANGED nextpid

-----------------------------------------------------------------------------
(* Memory.  dirty holds the addresses that were written and not freed since. *)

(* allocuvm(): there is room for n bytes more.                               *)
allocuvm(p, n) ==
  /\ proc[p].sz + n < KERNBASE
  /\ PageCount(proc[p].sz + n) - PageCount(proc[p].sz) <= FreePages

(* Mutant of deallocuvm: a page keeps its bytes when it is given back.       *)
deallocuvmKept(p, n) == proc[p].dirty

(* deallocuvm(): what is still dirty when whole pages are gone.              *)
deallocuvm(p, n) ==
  {a \in proc[p].dirty : a < PageCount(proc[p].sz + n) * PGSIZE}

(* growproc(); a new page is zero.                                           *)
growproc(p, n) ==
  IF n > 0 /\ ~allocuvm(p, n)
  THEN [sz |-> proc[p].sz, ret |-> -1, dirty |-> proc[p].dirty]
  ELSE [sz |-> proc[p].sz + n, ret |-> proc[p].sz, dirty |-> deallocuvm(p, n)]

SysSbrk(p) ==
  /\ Calls(p, "sbrk") \/ Calls(p, "brk")
  /\ LET n == IF Stmt(p).op = "brk" THEN Stmt(p).n - proc[p].sz ELSE Stmt(p).n
         g == growproc(p, n)
     IN Finish(p, inode, file, pipe,
               [proc EXCEPT ![p].sz = g.sz, ![p].dirty = g.dirty], g.ret, <<>>)
  /\ UNCHANGED nextpid

Mapped(p, a) == a < PageCount(proc[p].sz) * PGSIZE

(* User code reads a byte: 1 if it was written since it is there, else 0.    *)
Load(p) ==
  /\ Calls(p, "load") /\ Mapped(p, Stmt(p).addr)
  /\ Finish(p, inode, file, pipe, proc,
            IF Stmt(p).addr \in proc[p].dirty THEN 1 ELSE 0, <<>>)
  /\ UNCHANGED nextpid

Store(p) ==
  /\ Calls(p, "store") /\ Mapped(p, Stmt(p).addr)
  /\ Finish(p, inode, file, pipe,
            [proc EXCEPT ![p].dirty = @ \cup {Stmt(p).addr}], 0, <<>>)
  /\ UNCHANGED nextpid

(* A page fault that page_fault_handler() does not repair is taken for a     *)
(* spurious interrupt: the instruction is tried again, for ever.             *)
Faults(p) ==
  Stmt(p).op \in {"load", "store"} /\ ~Mapped(p, Stmt(p).addr)

(* Any other trap of user code marks the process killed.                     *)
Trap(p) ==
  /\ Calls(p, "trap")
  /\ proc' = [proc EXCEPT ![p].killed = TRUE]
  /\ UNCHANGED <<inode, file, pipe, nextpid, failed>>

(* fetchint(): an argument that is not inside the process.                   *)
SleepAt(p) ==
  /\ Calls(p, "sleepat")
  /\ Finish(p, inode, file, pipe, proc,
            IF Stmt(p).addr >= proc[p].sz THEN -1 ELSE 0, <<>>)
  /\ UNCHANGED nextpid

AnyOf(p) ==
  /\ Calls(p, "anyof")
  /\ \E s \in Stmt(p).scripts : Continue(p, inode, file, pipe, s)
  /\ UNCHANGED nextpid

-----------------------------------------------------------------------------
(* init: starts the first program, then waits for whatever ends.             *)

Reap(p) ==
  /\ Calls(p, "reap")
  /\ LET z == {q \in Children(p) : proc[q].state = "zombie"}
     IN IF Children(p) = {} THEN Fails(p, inode)
        ELSE /\ z # {}
             /\ proc' = [proc EXCEPT ![Min(z)] = NoProc]
             /\ UNCHANGED <<inode, file, pipe, failed>>
  /\ UNCHANGED nextpid

(* mkfs writes the root directory and the programs; init makes the console   *)
(* and opens it three times.                                                 *)
CONSOLE == 2

InitInode(i) ==
  CASE i = ROOTINO ->
         [FreeInode EXCEPT !.type = "dir", !.nlink = 1,
            !.ent = "." :> ROOTINO @@ ".." :> ROOTINO @@ "console" :> CONSOLE
                    @@ [n \in Range(Programs) |->
                          2 + CHOOSE k \in DOMAIN Programs : Programs[k] = n]]
    [] i = CONSOLE -> [FreeInode EXCEPT !.type = "dev", !.nlink = 1]
    [] i - 2 \in DOMAIN Programs ->
         [FreeInode EXCEPT !.type = "file", !.nlink = 1, !.data = <<Programs[i - 2]>>]
    [] OTHER -> FreeInode

(* What was written on the console, and the files ns of the root directory.  *)
Outcome(p) ==
  /\ Calls(p, "outcome")
  /\ LET root == inode[ROOTINO].ent
     IN Finish(p, inode, file, pipe, proc, 0,
               [out |-> inode[CONSOLE].data,
                fs |-> [n \in Stmt(p).names \cap DOMAIN root |-> inode[root[n]].data]])
  /\ UNCHANGED nextpid

AtRest == proc[INIT].todo = <<>>

Init ==
  /\ inode = [i \in Inums |-> InitInode(i)]
  /\ file = [f \in Files |->
       IF f = 1 THEN [type |-> "inode", ref |-> 3, ip |-> CONSOLE, off |-> 0,
                      r |-> TRUE, w |-> TRUE]
       ELSE FreeFile]
  /\ pipe = [k \in Pipes |-> FreePipe]
  /\ \E m \in Mains :
       proc = [p \in Procs |->
         IF p # INIT THEN NoProc
         ELSE [state |-> "live", pid |-> 1, parent |-> None, killed |-> FALSE,
               cwd |-> ROOTINO, ofile |-> [d \in Fds |-> IF d < 3 THEN 1 ELSE None],
               sz |-> StartSize, dirty |-> {}, reg |-> StdFds,
               todo |-> <<fork("pid", m.run), reap>> \o m.check]]
  /\ nextpid = 2
  /\ failed = FALSE

(* Nothing is left to do.                                                    *)
Rest == AtRest /\ UNCHANGED vars

Step(p) ==
  \/ SysMkdir(p) \/ SysChdir(p) \/ SysLink(p) \/ SysUnlink(p)
  \/ SysOpen(p) \/ SysClose(p) \/ SysDup(p) \/ SysPipe(p)
  \/ SysRead(p) \/ ReadAll(p) \/ Copy(p) \/ ReadDir(p)
  \/ WriteFails(p) \/ PipeWrite(p) \/ FileWrite(p)
  \/ SysFork(p) \/ ForkAll(p) \/ SysWait(p) \/ WaitAll(p) \/ Reap(p) \/ Outcome(p)
  \/ SysExit(p) \/ KilledExit(p) \/ SysKill(p) \/ SysExec(p)
  \/ SysSbrk(p) \/ Load(p) \/ Store(p) \/ Trap(p) \/ SleepAt(p)
  \/ AnyOf(p)

Next == Rest \/ \E p \in Procs : Step(p)

Spec == Init /\ [][Next]_vars

-----------------------------------------------------------------------------
(* Properties.                                                              *)

(* No call returns anything else than the test programs and the shell's      *)
(* commands expect of it, whatever the order in which the processes run.     *)
NoTestFails == ~failed

Dirs == {d \in Inums : inode[d].type = "dir"}
Names(i) == UNION {{<<d, n>> : n \in {m \in DOMAIN inode[d].ent \ {".", ".."} :
                                       inode[d].ent[m] = i}} : d \in Dirs}
Subdirs(i) == {d \in Dirs \ {ROOTINO} :
                 inode[d].nlink > 0 /\ inode[d].ent[".."] = i}

(* create(), sys_link() and sys_unlink(): an inode has as many links as      *)
(* names and, for a directory, as subdirectories; the root has one more.     *)
(* filedup(), fileclose() and exit(): an open file has as many references as *)
(* there are descriptors for it, in all processes together.                  *)
CountsExact ==
  /\ \A i \in Inums :
       inode[i].nlink = Cardinality(Names(i)) + Cardinality(Subdirs(i))
                        + (IF i = ROOTINO THEN 1 ELSE 0)
  /\ \A f \in Files :
       file[f].ref = Cardinality({x \in Procs \X Fds : proc[x[1]].ofile[x[2]] = f})

(* When every program has ended nothing is left of them: no pipe, no open    *)
(* file but the console, no memory, and no inode without a name.             *)
NothingLeft ==
  AtRest =>
    /\ \A p \in Procs \ {INIT} : proc[p] = NoProc
    /\ \A f \in Files \ {1} : file[f] = FreeFile
    /\ \A k \in Pipes : pipe[k] = FreePipe
    /\ \A i \in Inums \ {ROOTINO} : inode[i].type # "none" => Names(i) # {}

(* Process p sleeps in the kernel, or runs in user mode for ever.            *)
Blocked(p) ==
  LET s == Stmt(p)
      f == argfd(p)
  IN \/ s.op = "spin" \/ Faults(p)
     \/ /\ s.op \in {"wait", "reap"} /\ Children(p) # {}
        /\ \A q \in Children(p) : proc[q].state # "zombie"
     \/ s.op \in {"read", "readall", "copy"} /\ MustWait(f)
     \/ /\ s.op = "write" /\ f # None /\ file[f].type = "pipe"
        /\ pipe[file[f].ip].r /\ Len(pipe[file[f].ip].data) = PIPESIZE

(* No program ever hangs: until everything has ended some process is neither *)
(* asleep nor in an endless loop, or has been killed and will exit.  As the  *)
(* programs are finite, they end.                                            *)
NeverStuck ==
  failed \/ AtRest \/ \E p \in Procs :
    proc[p].state = "live" /\ (proc[p].killed \/ ~Blocked(p))

=============================================================================
