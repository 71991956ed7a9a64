------------------------------- MODULE Shell -------------------------------
(***************************************************************************)
(* sh.c: a line, as a sequence of tokens, is parsed into a command, and    *)
(* the command is run by processes that share descriptors and pipes.       *)
(* Denote says, without processes, what a command should leave behind.     *)
(***************************************************************************)
EXTENDS UserPrograms

CONSTANTS MAXARGS, Commands  \* the commands to run
ASSUME ShellAssumption == MAXARGS \in Nat \ {0}

-----------------------------------------------------------------------------
(* Commands.                                                                *)

execcmd(argv) == [type |-> "exec", argv |-> argv]
redircmd(cmd, f, mode, fd) ==
  [type |-> "redir", cmd |-> cmd, file |-> f, mode |-> mode, fd |-> fd]
pipecmd(l, r) == [type |-> "pipe", left |-> l, right |-> r]
listcmd(l, r) == [type |-> "list", left |-> l, right |-> r]
backcmd(cmd) == [type |-> "back", cmd |-> cmd]

(* redirections: both ">" and ">>" write from the start of the file         *)
redirect(cmd, tok, f) ==
  IF tok = "<" THEN redircmd(cmd, f, "r", "stdin") ELSE redircmd(cmd, f, "wc", "stdout")

-----------------------------------------------------------------------------
(* The parser.  Each function takes the tokens that are left and returns    *)
(* the command and the tokens after it; bad is the result of a panic.       *)

Symbols == {"|", "(", ")", ";", "&", "<", ">", ">>"}
bad == [cmd |-> [type |-> "bad"], ts |-> <<>>]
Panics(r) == r.cmd.type = "bad"
peek(ts, toks) == ts # <<>> /\ Head(ts) \in toks
After(cmd, ts) == [cmd |-> cmd, ts |-> ts]

RECURSIVE parseline(_), parsepipe(_), parseexec(_), parseredirs(_, _),
          parseargs(_, _, _), backs(_)

parseredirs(cmd, ts) ==
  IF ~peek(ts, {"<", ">", ">>"}) THEN After(cmd, ts)
  ELSE IF Len(ts) < 2 \/ ts[2] \in Symbols THEN bad
  ELSE parseredirs(redirect(cmd, ts[1], ts[2]), SubSeq(ts, 3, Len(ts)))

parseblock(ts) ==
  LET r == parseline(Tail(ts))
  IN IF Panics(r) \/ ~peek(r.ts, {")"}) THEN bad
     ELSE parseredirs(r.cmd, Tail(r.ts))

parseexec(ts) ==
  IF peek(ts, {"("}) THEN parseblock(ts) ELSE parseargs(<<>>, <<>>, ts)

(* argv holds the words so far, rs the redirections between them: the words  *)
(* all go to the innermost command, each redirection encloses the earlier.   *)
parseargs(argv, rs, ts) ==
  IF peek(ts, {"<", ">", ">>"})
  THEN IF Len(ts) < 2 \/ ts[2] \in Symbols THEN bad
       ELSE parseargs(argv, Append(rs, <<ts[1], ts[2]>>), SubSeq(ts, 3, Len(ts)))
  ELSE IF ts = <<>> \/ peek(ts, {"|", ")", "&", ";"})
  THEN After(FoldLeft(LAMBDA c, r : redirect(c, r[1], r[2]), execcmd(argv), rs), ts)
  ELSE IF Head(ts) = "(" \/ Len(argv) + 1 >= MAXARGS THEN bad
  ELSE parseargs(Append(argv, Head(ts)), rs, Tail(ts))

parsepipe(ts) ==
  LET l == parseexec(ts)
      r == parsepipe(Tail(l.ts))
  IN IF Panics(l) \/ ~peek(l.ts, {"|"}) THEN l
     ELSE IF Panics(r) THEN bad
     ELSE After(pipecmd(l.cmd, r.cmd), r.ts)

backs(r) ==
  IF Panics(r) \/ ~peek(r.ts, {"&"}) THEN r
  ELSE backs(After(backcmd(r.cmd), Tail(r.ts)))

parseline(ts) ==
  LET l == backs(parsepipe(ts))
      r == parseline(Tail(l.ts))
  IN IF Panics(l) \/ ~peek(l.ts, {";"}) THEN l
     ELSE IF Panics(r) THEN bad
     ELSE After(listcmd(l.cmd, r.cmd), r.ts)

parsecmd(ts) ==
  LET r == parseline(ts) IN IF r.ts # <<>> THEN bad.cmd ELSE r.cmd

-----------------------------------------------------------------------------
(* Running a command.                                                       *)

fork1(v, child) == OrExit(fork(v, child))

RECURSIVE runcmd(_)
runcmd(c) ==
  CASE c.type = "bad" -> <<exit>>
    [] c.type = "exec" ->
         IF c.argv = <<>> THEN <<exit>>
         ELSE <<exec(<<c.argv[1]>>, Tail(c.argv)), exit>>
    [] c.type = "redir" ->
         <<close(c.fd), OrExit(open("fd", <<c.file>>, c.mode))>> \o runcmd(c.cmd)
    [] c.type = "list" ->
         <<fork1("pid", runcmd(c.left)), wait>> \o runcmd(c.right)
    [] c.type = "pipe" ->
         LET side(std, end) == <<close(std), dup(end), close("p0"), close("p1")>>
         IN <<OrExit(mkpipe("p0", "p1")),
              fork1("pid", side("stdout", "p1") \o runcmd(c.left)),
              fork1("pid", side("stdin", "p0") \o runcmd(c.right)),
              close("p0"), close("p1"), wait, wait, exit>>
    [] c.type = "back" -> <<fork1("pid", runcmd(c.cmd)), exit>>

(* The shell reads lines; cd is its own affair, everything else is a child's. *)
shLine(ts) ==
  IF ts # <<>> /\ ts[1] = "cd" THEN <<chdir(SubSeq(ts, 2, 2))>>
  ELSE <<fork1("pid", runcmd(parsecmd(ts))), wait>>

sh(lines) ==
  <<open("fd", <<"console">>, "rw"), close("fd")>>
  \o FlattenSeq([k \in DOMAIN lines |-> shLine(lines[k])]) \o <<exit>>

-----------------------------------------------------------------------------
(* The reference.  A command that was written out with as few parentheses as *)
(* its shape needs is read back the same.                                    *)

Level(c) == CASE c.type \in {"exec", "redir"} -> 0 [] c.type = "pipe" -> 1
              [] c.type = "back" -> 2 [] c.type = "list" -> 3

RECURSIVE Unparse(_, _)
Unparse(c, level) ==
  IF Level(c) > level THEN <<"(">> \o Unparse(c, 3) \o <<")">>
  ELSE CASE c.type = "exec" -> c.argv
         [] c.type = "redir" ->
              Unparse(c.cmd, 0) \o <<IF c.mode = "r" THEN "<" ELSE ">", c.file>>
         [] c.type = "pipe" -> Unparse(c.left, 0) \o <<"|">> \o Unparse(c.right, 1)
         [] c.type = "back" -> Unparse(c.cmd, 2) \o <<"&">>
         [] c.type = "list" -> Unparse(c.left, 2) \o <<";">> \o Unparse(c.right, 3)

RECURSIVE Interleavings(_, _)
Interleavings(s, t) ==
  IF s = <<>> \/ t = <<>> THEN {s \o t}
  ELSE {<<Head(s)>> \o u : u \in Interleavings(Tail(s), t)}
       \cup {<<Head(t)>> \o u : u \in Interleavings(s, Tail(t))}

(* What a command can do with x, the input that is left, the output so far   *)
(* and the files: every outcome.  A command in the background writes between *)
(* what follows it in a list.                                                *)
DenoteExec(argv, x) ==
  LET args == IF argv = <<>> THEN <<>> ELSE Tail(argv)
      known == SelectSeq(args, LAMBDA a : a \in DOMAIN x.fs)
      say(d) == [x EXCEPT !.out = @ \o d]
  IN CASE argv = <<>> -> x
       [] argv[1] = "echo" -> say(args)
       [] argv[1] = "cat" /\ args = <<>> -> [say(x.in) EXCEPT !.in = <<>>]
       [] argv[1] = "cat" -> say(FlattenSeq([k \in DOMAIN known |-> x.fs[known[k]]]))
       [] argv[1] = "rm" ->
            [x EXCEPT !.fs = [n \in DOMAIN @ \ Range(args) |-> @[n]]]
       [] argv[1] = "ln" /\ args[1] \in DOMAIN x.fs ->
            [x EXCEPT !.fs = @ @@ args[2] :> @[args[1]]]
       [] OTHER -> x

RECURSIVE Denote(_, _)
Denote(c, x) ==
  CASE c.type = "exec" -> {DenoteExec(c.argv, x)}
    [] c.type = "redir" /\ c.mode = "r" ->
         IF c.file \notin DOMAIN x.fs THEN {x}
         ELSE {[y EXCEPT !.in = x.in] : y \in Denote(c.cmd, [x EXCEPT !.in = x.fs[c.file]])}
    [] c.type = "redir" ->
         LET old == IF c.file \in DOMAIN x.fs THEN x.fs[c.file] ELSE <<>>
             over(d) == d \o SubSeq(old, Len(d) + 1, Len(old))
             start == [x EXCEPT !.out = <<>>, !.fs = c.file :> old @@ @]
         IN {[y EXCEPT !.out = x.out, !.fs = c.file :> over(y.out) @@ @] :
               y \in Denote(c.cmd, start)}
    [] c.type = "pipe" ->
         UNION {{[z EXCEPT !.in = x.in, !.out = x.out \o @] :
                   z \in Denote(c.right, [y EXCEPT !.in = y.out, !.out = <<>>])} :
                 y \in Denote(c.left, [x EXCEPT !.out = <<>>])}
    [] c.type = "back" -> Denote(c.cmd, x)
    [] c.type = "list" /\ c.left.type # "back" ->
         UNION {Denote(c.right, y) : y \in Denote(c.left, x)}
    [] OTHER ->
         UNION {UNION {{[z EXCEPT !.out = x.out \o u] :
                          u \in Interleavings(y.out, z.out)} :
                        z \in Denote(c.right, [y EXCEPT !.out = <<>>])} :
                 y \in Denote(c.left.cmd, [x EXCEPT !.out = <<>>])}

Fresh == [in |-> <<>>, out |-> <<>>, fs |-> << >>]
Outcomes(c) == {[out |-> y.out, fs |-> y.fs] : y \in Denote(c, Fresh)}

(* The shell, given the command as a line, and what is seen afterwards.      *)
shMain ==
  {[run |-> sh(<<Unparse(c, 3)>>), check |-> <<GivesOne(outcome({"f", "g"}), Outcomes(c))>>] :
     c \in Commands}
=============================================================================
