------------------------------- MODULE MCUser -------------------------------
(* The user programs on a small system.                                      *)
EXTENDS UserTests, Shell
MCPrograms == <<"echo", "cat", "init", "README", "rm", "mkdir", "zombie",
                "forktest", "stressfs", "ln">>
MCImage(f, argv) == ImageOf(f, argv)

E(argv) == execcmd(argv)
To(c, f) == redircmd(c, f, "wc", "stdout")
From(c, f) == redircmd(c, f, "r", "stdin")
Parts == {E(<<"echo", "a">>), pipecmd(E(<<"echo", "a", "b">>), E(<<"cat">>)),
          To(E(<<"echo", "a", "b">>), "f"), From(E(<<"cat">>), "f"),
          To(listcmd(E(<<"echo", "c">>), E(<<"nosuch">>)), "f"),
          backcmd(E(<<"echo", "d">>))}
MCCommands ==
  {listcmd(x, y) : x \in Parts, y \in Parts}
  \cup {pipecmd(pipecmd(E(<<"echo", "a", "b", "c">>), E(<<"cat">>)), E(<<"cat">>)),
        pipecmd(listcmd(E(<<"echo", "a">>), backcmd(E(<<"echo", "b">>))), E(<<"cat">>)),
        pipecmd(E(<<"echo", "a", "b", "c">>), E(<<"echo", "d">>)),
        To(To(E(<<"echo", "a">>), "f"), "g"), E(<<>>),
        listcmd(To(E(<<"echo", "a">>), "f"), listcmd(E(<<"ln", "f", "g">>), E(<<"rm", "f">>))),
        E(<<"zombie">>), E(<<"forktest">>), E(<<"stressfs">>)}
MCMains == main \cup shMain
=============================================================================
