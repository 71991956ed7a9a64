----------------------------- MODULE UserTests -----------------------------
(***************************************************************************)
(* usertests.c: each test as the calls it makes and the results it insists *)
(* on.  Where the C code prints an error and exits, the call here Must,    *)
(* MustNot or Gives.  Loops are cut down to the Scale bounds below; data   *)
(* is counted in units of which a file has MAXFILE and a pipe PIPESIZE.    *)
(***************************************************************************)
EXTENDS Syscalls

CONSTANTS
  Rounds,   \* passes of a loop that only repeats
  Workers,  \* processes a test starts side by side
  Hogs,     \* processes that take the memory, in sbrktest()
  BIG       \* size sbrktest() grows to

ASSUME UserTestsAssumption ==
  /\ Rounds \in Nat \ {0} /\ Workers \in Nat \ {0, 1}
  /\ BIG < KERNBASE /\ BIG > StartSize + Rounds + 2 /\ BIG % PGSIZE = 0

(* for(k = a; k <= b; k++) body(k)                                          *)
For(a, b, body(_)) == FlattenSeq([k \in 1 .. b - a + 1 |-> body(a + k - 1)])
Name(c, k) == <<c \o ToString(k)>>
(* if((pid = fork()) == 0){ child; exit(); }                                *)
Spawn(v, child) == <<Must(fork(v, child \o <<exit>>))>>
Create(path, mode) == <<Must(open("fd", path, mode)), close("fd")>>
Fill(c, n) == [k \in 1 .. n |-> c]

-----------------------------------------------------------------------------
iputtest ==
  <<Must(mkdir(<<"iputdir">>)), Must(chdir(<<"iputdir">>)),
    Must(unlink(<<"..", "iputdir">>)), Must(chdir(<<"/">>))>>

exitiputtest ==
  Spawn("pid", <<Must(mkdir(<<"iputdir">>)), Must(chdir(<<"iputdir">>)),
                 Must(unlink(<<"..", "iputdir">>))>>) \o <<wait>>

openiputtest ==
  <<Must(mkdir(<<"oidir">>))>>
  \o Spawn("pid", <<MustNot(open("fd", <<"oidir">>, "rw"))>>)
  \o <<Gives(unlink(<<"oidir">>), 0), wait>>

opentest ==
  <<Must(open("fd", <<"echo">>, "r")), close("fd"),
    MustNot(open("fd", <<"doesnotexist">>, "r"))>>

writetest ==
  LET text(k) == <<Gives(write("fd", <<"a">>), 1), Gives(write("fd", <<"b">>), 1)>>
  IN <<Must(open("fd", <<"small">>, "rwc"))>> \o For(1, Rounds, text)
     \o <<close("fd"), Must(open("fd", <<"small">>, "r")),
          Gives(read("fd", 2 * Rounds), 2 * Rounds), close("fd"),
          Must(unlink(<<"small">>))>>

(* A file of the greatest size, read back block by block.                   *)
writetest1 ==
  LET put(k) == <<Gives(write("fd", <<k>>), 1)>>
  IN <<Must(open("fd", <<"big">>, "rwc"))>> \o For(1, MAXFILE, put)
     \o <<close("fd"), Must(open("fd", <<"big">>, "r")),
          GivesData(readall("fd", 1, 1), [k \in 1 .. MAXFILE |-> k]),
          close("fd"), Must(unlink(<<"big">>))>>

createtest ==
  LET make(k) == <<open("fd", Name("a", k), "rwc"), close("fd")>>
      remove(k) == <<unlink(Name("a", k))>>
  IN For(1, Rounds, make) \o For(1, Rounds, remove)

(* Not called by main().                                                    *)
dirtest ==
  <<Must(mkdir(<<"dir0">>)), Must(chdir(<<"dir0">>)), Must(chdir(<<"..">>)),
    Must(unlink(<<"dir0">>))>>

exectest == <<Must(exec(<<"echo">>, <<"ALL", "TESTS", "PASSED">>)), exit>>

-----------------------------------------------------------------------------
(* More bytes than the pipe holds, read in pieces that double.              *)
pipe1 ==
  LET seq == [k \in 1 .. 2 * (PIPESIZE + 1) |-> k]
      half(n) == SubSeq(seq, n * (PIPESIZE + 1) + 1, (n + 1) * (PIPESIZE + 1))
      put(n) == <<Gives(write("w", half(n)), PIPESIZE + 1)>>
  IN <<Must(mkpipe("r", "w"))>>
     \o Spawn("pid", <<close("r")>> \o For(0, 1, put))
     \o <<close("w"), GivesData(readall("r", 1, 2), seq), close("r"), wait>>

preempt ==
  <<Must(fork("pid1", <<spin>>)), Must(fork("pid2", <<spin>>)), mkpipe("r", "w"),
    Must(fork("pid3", <<close("r"), Gives(write("w", <<"x">>), 1), close("w"), spin>>)),
    close("w"), Gives(read("r", 8), 1), close("r"),
    Must(kill("pid1")), Must(kill("pid2")), Must(kill("pid3")),
    Must(wait), Must(wait), Must(wait)>>

exitwait ==
  LET once(k) == Spawn("pid", <<>>) \o <<GivesReg(wait, "pid")>>
  IN For(1, Rounds, once)

(* Two processes write through one descriptor: nothing is overwritten.      *)
sharedfd ==
  LET put(c) == LET one(k) == <<Gives(write("fd", <<c>>), 1)>> IN For(1, Rounds, one)
      both == {d \in [1 .. 2 * Rounds -> {"c", "p"}] :
                 Cardinality({k \in DOMAIN d : d[k] = "c"}) = Rounds}
  IN <<unlink(<<"sharedfd">>), Must(open("fd", <<"sharedfd">>, "rwc"))>>
     \o Spawn("pid", put("c")) \o put("p") \o <<wait, close("fd"),
          Must(open("fd", <<"sharedfd">>, "r")),
          GivesOne(readall("fd", 1, 1), both), close("fd"),
          unlink(<<"sharedfd">>)>>

(* Each process writes a file of its own.                                   *)
fourfiles ==
  LET child(k) == <<Must(open("fd", Name("f", k), "rwc"))>>
                  \o For(1, Rounds, LAMBDA j : <<Gives(write("fd", <<k>>), 1)>>)
      start(k) == <<unlink(Name("f", k))>> \o Spawn("pid", child(k))
      reread(k) == <<open("fd", Name("f", k), "r"),
                    GivesData(readall("fd", 2, 1), Fill(k, Rounds)),
                    close("fd"), unlink(Name("f", k))>>
  IN For(1, Workers, start) \o For(1, Workers, LAMBDA k : <<wait>>)
     \o For(1, Workers, reread)

(* Each process creates four files of its own and removes the second.       *)
createdelete ==
  LET N == 4
      nm(k, i) == <<ToString(k) \o ToString(i)>>
      step(k, i) == Create(nm(k, i), "rwc")
                    \o (IF i > 0 /\ i % 2 = 0 THEN <<Must(unlink(nm(k, i \div 2)))>>
                        ELSE <<>>)
      child(k) == For(0, N - 1, LAMBDA i : step(k, i))
      see(k, i) == IF i = 0 \/ i >= N \div 2 THEN Create(nm(k, i), "r")
                   ELSE <<MustNot(open("fd", nm(k, i), "r"))>>
      \* The loop computes the first letter from i, so most files stay.
      remove(i) == For(1, Workers, LAMBDA k : <<unlink(nm(i, i))>>)
  IN For(1, Workers, LAMBDA k : Spawn("pid", child(k)))
     \o For(1, Workers, LAMBDA k : <<wait>>)
     \o For(0, N - 1, LAMBDA i : For(1, Workers, LAMBDA k : see(k, i)))
     \o For(0, N - 1, remove)

(* A file that is unlinked while it is open keeps its data.                 *)
unlinkread ==
  <<Must(open("fd", <<"unlinkread">>, "rwc")), write("fd", <<"h", "i">>), close("fd"),
    Must(open("fd", <<"unlinkread">>, "rw")), Gives(unlink(<<"unlinkread">>), 0),
    open("fd1", <<"unlinkread">>, "rwc"), write("fd1", <<"y">>), close("fd1"),
    GivesData(read("fd", MAXFILE), <<"h", "i">>),
    Gives(write("fd", <<"h", "i", "y">>), 3), close("fd"),
    unlink(<<"unlinkread">>)>>

linktest ==
  <<unlink(<<"lf1">>), unlink(<<"lf2">>),
    Must(open("fd", <<"lf1">>, "rwc")), Gives(write("fd", <<"h", "i">>), 2), close("fd"),
    Must(link(<<"lf1">>, <<"lf2">>)), unlink(<<"lf1">>),
    MustNot(open("fd", <<"lf1">>, "r")), Must(open("fd", <<"lf2">>, "r")),
    Gives(read("fd", MAXFILE), 2), close("fd"),
    MustNot(link(<<"lf2">>, <<"lf2">>)), unlink(<<"lf2">>),
    MustNot(link(<<"lf2">>, <<"lf1">>)), MustNot(link(<<".">>, <<"lf1">>))>>

(* Parent and child create, link and remove the same name.                  *)
concreate ==
  LET N == 3
      all == For(0, N - 1, LAMBDA i : Name("C", i))
      make(i) == Create(Name("C", i), "rwc")
      tie(i) == <<link(<<"C0">>, Name("C", i))>>
      first(i) == <<unlink(Name("C", i))>>
                  \o Spawn("pid", IF i % 5 = 1 THEN tie(i) ELSE make(i))
                  \o (IF i % 3 = 1 THEN tie(i) ELSE make(i)) \o <<wait>>
      look(i) == For(1, 2, LAMBDA k : <<open("fd", Name("C", i), "r"), close("fd")>>)
      remove(i) == For(1, 2, LAMBDA k : <<unlink(Name("C", i))>>)
      second(i) == Spawn("pid", IF i % 3 = 0 THEN look(i) ELSE remove(i))
                   \o (IF i % 3 = 1 THEN look(i) ELSE remove(i)) \o <<wait>>
      listed == {".", "..", "console", "usertests.ran"} \cup Range(Programs)
                \cup {all[k] : k \in DOMAIN all}
  IN For(0, N - 1, first)
     \o <<open("fd", <<".">>, "r"), GivesData(readdir("fd"), listed), close("fd")>>
     \o For(0, N - 1, second)

(* The pseudo-random choice of a call is any choice.                        *)
linkunlink ==
  LET turn(k) == <<anyof({<<open("fd", <<"x">>, "rwc"), close("fd")>>,
                          <<link(<<"cat">>, <<"x">>)>>, <<unlink(<<"x">>)>>})>>
  IN <<unlink(<<"x">>)>> \o Spawn("pid", For(1, Rounds, turn))
     \o For(1, Rounds, turn) \o <<wait>>

bigdir ==
  LET tie(k) == <<Gives(link(<<"bd">>, Name("x", k)), 0)>>
      untie(k) == <<Gives(unlink(Name("x", k)), 0)>>
  IN <<unlink(<<"bd">>)>> \o Create(<<"bd">>, "rc") \o For(1, 2 * Rounds, tie)
     \o <<unlink(<<"bd">>)>> \o For(1, 2 * Rounds, untie)

-----------------------------------------------------------------------------
(* subdir(): paths through directories.  Up to the first look back into     *)
(* dd, and from there on.                                                   *)
subdirFirst ==
  <<unlink(<<"ff">>), Gives(mkdir(<<"dd">>), 0),
    Must(open("fd", <<"dd", "ff">>, "rwc")), write("fd", <<"f", "f">>), close("fd"),
    MustNot(unlink(<<"dd">>)),
    Gives(mkdir(<<"/", "dd", "dd">>), 0),
    Must(open("fd", <<"dd", "dd", "ff">>, "rwc")), write("fd", <<"F", "F">>), close("fd"),
    Must(open("fd", <<"dd", "dd", "..", "ff">>, "r")),
    GivesData(read("fd", MAXFILE), <<"f", "f">>), close("fd"),
    Gives(link(<<"dd", "dd", "ff">>, <<"dd", "dd", "ffff">>), 0),
    Gives(unlink(<<"dd", "dd", "ff">>), 0),
    MustNot(open("fd", <<"dd", "dd", "ff">>, "r")),
    Gives(chdir(<<"dd">>), 0), Gives(chdir(<<"dd", "..", "..", "dd">>), 0),
    Gives(chdir(<<"dd", "..", "..", "..", "dd">>), 0), Gives(chdir(<<".", "..">>), 0),
    Must(open("fd", <<"dd", "dd", "ffff">>, "r")), Gives(read("fd", MAXFILE), 2),
    close("fd")>>

subdirSecond ==
  <<MustNot(open("fd", <<"dd", "dd", "ff">>, "r")),
    MustNot(open("fd", <<"dd", "ff", "ff">>, "rwc")),
    MustNot(open("fd", <<"dd", "xx", "ff">>, "rwc")),
    MustNot(open("fd", <<"dd">>, "rc")), MustNot(open("fd", <<"dd">>, "rw")),
    MustNot(open("fd", <<"dd">>, "w")),
    MustNot(link(<<"dd", "ff", "ff">>, <<"dd", "dd", "xx">>)),
    MustNot(link(<<"dd", "xx", "ff">>, <<"dd", "dd", "xx">>)),
    MustNot(link(<<"dd", "ff">>, <<"dd", "dd", "ffff">>)),
    MustNot(mkdir(<<"dd", "ff", "ff">>)), MustNot(mkdir(<<"dd", "xx", "ff">>)),
    MustNot(mkdir(<<"dd", "dd", "ffff">>)),
    MustNot(unlink(<<"dd", "xx", "ff">>)), MustNot(unlink(<<"dd", "ff", "ff">>)),
    MustNot(chdir(<<"dd", "ff">>)), MustNot(chdir(<<"dd", "xx">>)),
    Gives(unlink(<<"dd", "dd", "ffff">>), 0), Gives(unlink(<<"dd", "ff">>), 0),
    MustNot(unlink(<<"dd">>)), Must(unlink(<<"dd", "dd">>)), Must(unlink(<<"dd">>))>>

(* Writes of one unit up to more than two transactions.                     *)
bigwrite ==
  LET at(n) == <<Must(open("fd", <<"bigwrite">>, "rwc"))>>
               \o For(1, 2, LAMBDA k : <<Gives(write("fd", Fill("b", n)), n)>>)
               \o <<close("fd"), unlink(<<"bigwrite">>)>>
  IN <<unlink(<<"bigwrite">>)>> \o For(1, MAXFILE \div 2, at)

(* Written two units at a time and read one at a time.                      *)
bigfile ==
  LET put(k) == <<Gives(write("fd", <<k, k>>), 2)>>
  IN <<unlink(<<"bigfile">>), Must(open("fd", <<"bigfile">>, "rwc"))>>
     \o For(0, Rounds - 1, put)
     \o <<close("fd"), Must(open("fd", <<"bigfile">>, "r")),
          GivesData(readall("fd", 1, 1), [k \in 1 .. 2 * Rounds |-> (k - 1) \div 2]),
          close("fd"), unlink(<<"bigfile">>)>>

(* Names of 14 characters and longer ones that agree in the first 14.       *)
fourteen ==
  LET n14 == "12345678901234"
      n15 == "123456789012345"
  IN <<Gives(mkdir(<<n14>>), 0), Gives(mkdir(<<n14, n15>>), 0),
       Must(open("fd", <<n15, n15, n15>>, "rc")), close("fd"),
       Must(open("fd", <<n14, n14, n14>>, "r")), close("fd"),
       MustNot(mkdir(<<n14, n14>>)), MustNot(mkdir(<<n15, n14>>))>>

rmdot ==
  <<Gives(mkdir(<<"dots">>), 0), Gives(chdir(<<"dots">>), 0),
    MustNot(unlink(<<".">>)), MustNot(unlink(<<"..">>)), Gives(chdir(<<"/">>), 0),
    MustNot(unlink(<<"dots", ".">>)), MustNot(unlink(<<"dots", "..">>)),
    Gives(unlink(<<"dots">>), 0)>>

dirfile ==
  Create(<<"dirfile">>, "rc")
  \o <<MustNot(chdir(<<"dirfile">>)), MustNot(open("fd", <<"dirfile", "xx">>, "r")),
       MustNot(open("fd", <<"dirfile", "xx">>, "rc")),
       MustNot(mkdir(<<"dirfile", "xx">>)), MustNot(unlink(<<"dirfile", "xx">>)),
       MustNot(link(<<"README">>, <<"dirfile", "xx">>)),
       Gives(unlink(<<"dirfile">>), 0), MustNot(open("fd", <<".">>, "rw")),
       open("fd", <<".">>, "r"), MustNot(write("fd", <<"x">>)), close("fd")>>

(* The empty path is the current directory, and nothing can be made there.  *)
iref ==
  LET deeper(k) == <<Gives(mkdir(<<"irefd">>), 0), Gives(chdir(<<"irefd">>), 0),
                     mkdir(<<>>), link(<<"README">>, <<>>),
                     open("fd", <<>>, "rc"), close("fd"),
                     open("fd", <<"xx">>, "rc"), close("fd"), unlink(<<"xx">>)>>
  IN For(1, Rounds, deeper) \o <<chdir(<<"/">>)>>

forktest == <<forkall("n", <<exit>>), waitall("n"), Gives(wait, -1)>>

-----------------------------------------------------------------------------
(* sbrktest(): small steps, a step to BIG and back, what a freed page holds, *)
(* and memory that runs out.  Children that read the kernel's memory are a   *)
(* test of their own.                                                        *)
Hog(k) == "pid" \o ToString(k)
sbrktest ==
  LET top == StartSize + Rounds
      small(k) == <<Gives(sbrk(1), StartSize + k), store(StartSize + k)>>
      hog(v) == <<Must(fork(v, <<brk(BIG), write("w", <<"x">>), spin>>)), read("r", 1)>>
  IN <<Gives(sbrk(0), StartSize)>> \o For(0, Rounds - 1, small)
     \o Spawn("pid", <<sbrk(1), Gives(sbrk(1), top + 1)>>)
     \o <<sbrk(1), Gives(sbrk(1), top + 1), wait,
          Gives(brk(BIG), top + 2), store(BIG - 1),
          Must(sbrk(-PGSIZE)), Gives(sbrk(0), BIG - PGSIZE),
          Gives(sbrk(PGSIZE), BIG - PGSIZE), Gives(sbrk(0), BIG),
          Gives(load(BIG - 1), 0), Gives(brk(StartSize), BIG),
          Must(mkpipe("r", "w"))>>
     \o For(1, Hogs, LAMBDA k : hog(Hog(k)))
     \o <<Must(sbrk(PGSIZE))>> \o For(1, Hogs, LAMBDA k : <<kill(Hog(k)), wait>>)
     \o <<brk(StartSize), Gives(sbrk(0), StartSize)>>

(* The part of sbrktest() in which a child reads the kernel's memory: the    *)
(* parent waits for it to be killed.                                         *)
sbrktestKernel ==
  Spawn("pid", <<load(KERNBASE), kill("ppid")>>) \o <<wait>>

(* An argument of sleep() at every address, also where no memory is.         *)
validatetest ==
  LET at(a) == <<Must(fork("pid", <<sleepat(a), exit>>)), kill("pid"), wait,
                 MustNot(link(<<"nosuchfile">>, <<"at", "a">>))>>
  IN For(0, 1, LAMBDA k : at(k * StartSize))

bsstest == For(0, StartSize - 1, LAMBDA a : <<Gives(load(a), 0)>>)

(* Arguments that do not fit on the stack: exec() fails, the child goes on.  *)
bigargtest ==
  <<unlink(<<"bigarg-ok">>)>>
  \o Spawn("pid", <<exec(<<"echo">>, Fill("big", StackRoom + 1)),
                    open("fd", <<"bigarg-ok">>, "rc"), close("fd")>>)
  \o <<wait, Must(open("fd", <<"bigarg-ok">>, "r")), close("fd"),
       unlink(<<"bigarg-ok">>)>>

(* A user instruction on an I/O port.                                        *)
uio == <<Must(fork("pid", <<trap, MustNot(sbrk(0)), exit>>)), wait>>

(* A length of -1.                                                           *)
argptest ==
  <<Must(open("fd", <<"init">>, "r")), MustNot(read("fd", -1)), close("fd")>>

(* main() runs the tests one after the other unless they ran before.  Here   *)
(* each has a behaviour of its own, on a fresh file system.                  *)
mainFirst ==
  <<MustNot(open("fd", <<"usertests.ran">>, "r")),
    open("fd", <<"usertests.ran">>, "rc"), close("fd")>>

UserTests ==
  {argptest, createdelete, linkunlink, concreate, fourfiles, sharedfd, bigargtest,
   bigwrite, bsstest, sbrktest, validatetest, opentest, writetest, writetest1,
   createtest, openiputtest, exitiputtest, iputtest, pipe1, preempt, exitwait,
   rmdot, fourteen, bigfile, subdirFirst \o subdirSecond, linktest, unlinkread,
   dirfile, iref, forktest, bigdir, uio, exectest, dirtest}

main == {[run |-> mainFirst \o t \o <<exit>>, check |-> <<>>] : t \in UserTests}
=============================================================================
