--------------------------- MODULE UserPrograms ----------------------------
(***************************************************************************)
(* The small user programs: what each does with its arguments argv, the    *)
(* program's own name left out.  A word is one unit of output; spaces, new *)
(* lines and messages are left out.                                        *)
(***************************************************************************)
EXTENDS Syscalls

BufSize == 2                \* units a program reads at a time
EachArg(argv, body(_)) == FlattenSeq([k \in DOMAIN argv |-> body(argv[k])])

echo(argv) == EachArg(argv, LAMBDA a : <<write("stdout", <<a>>)>>) \o <<exit>>

(* cat() of one descriptor.                                                 *)
catFd(fd) == <<OrExit(copy(fd, BufSize, "stdout"))>>
cat(argv) ==
  (IF argv = <<>> THEN catFd("stdin")
   ELSE EachArg(argv, LAMBDA a : <<OrExit(open("fd", <<a>>, "r"))>> \o catFd("fd")
                                 \o <<close("fd")>>))
  \o <<exit>>

rm(argv) == EachArg(argv, LAMBDA a : <<OrExit(unlink(<<a>>))>>) \o <<exit>>

mkdirProgram(argv) == EachArg(argv, LAMBDA a : <<OrExit(mkdir(<<a>>))>>) \o <<exit>>

ln(argv) ==
  (IF Len(argv) = 2 THEN <<link(<<argv[1]>>, <<argv[2]>>)>> ELSE <<>>) \o <<exit>>

(* The child ends before its parent, which never waits for it.              *)
zombie == <<fork("pid", <<exit>>), exit>>

forktestProgram ==
  <<forkall("n", <<exit>>), waitall("n"), Gives(wait, -1), exit>>

(* A chain of processes, each with a file of its own; a parent works while  *)
(* its child does.                                                          *)
stressLinks == 2            \* fork() calls in the chain
stressUnits == 2            \* write() calls of each
stressWork(i) ==
  LET f == <<"stressfs" \o ToString(i)>>
  IN <<open("fd", f, "rwc")>> \o [k \in 1 .. stressUnits |-> write("fd", <<i>>)]
     \o <<close("fd"), open("fd", f, "r")>>
     \o [k \in 1 .. stressUnits |-> GivesData(read("fd", 1), <<i>>)]
     \o <<close("fd"), wait, exit>>
stressfs ==
  LET chain[i \in 0 .. stressLinks] ==
        IF i = stressLinks THEN stressWork(i)
        ELSE <<fork("pid", chain[i + 1])>> \o stressWork(i)
  IN chain[0]

(* A file that holds none of them, README, is no program: exec() has failed *)
(* before this.                                                             *)
ImageOf(f, argv) ==
  CASE f = "echo" -> echo(argv)
    [] f = "cat" -> cat(argv)
    [] f = "rm" -> rm(argv)
    [] f = "mkdir" -> mkdirProgram(argv)
    [] f = "ln" -> ln(argv)
    [] f = "zombie" -> zombie
    [] f = "forktest" -> forktestProgram
    [] f = "stressfs" -> stressfs
=============================================================================
