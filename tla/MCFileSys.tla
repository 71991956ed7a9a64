----------------------------- MODULE MCFileSys -----------------------------
(* TLC instances of FileSys: what small programs do.                        *)
EXTENDS FileSys

A == [abs |-> FALSE, elems |-> <<"a">>]
B == [abs |-> FALSE, elems |-> <<"b">>]
RootA == [abs |-> TRUE, elems |-> <<"a">>]
Parent == [abs |-> FALSE, elems |-> <<"..">>]

(* A file is made, linked, opened and unlinked.                             *)
FileProgram ==
  [uses |-> {<<"creat", A>>, <<"unlink", A>>, <<"unlink", B>>},
   links |-> {<<A, B>>}]

(* A directory is made, entered and removed, and so is one inside it.       *)
DirProgram ==
  [uses |-> {<<"mkdir", A>>, <<"chdir", A>>, <<"chdir", Parent>>,
             <<"unlink", A>>, <<"unlink", RootA>>, <<"openw", RootA>>},
   links |-> {}]

(* A device is made, opened and unlinked.                                   *)
DevProgram ==
  [uses |-> {<<"mknod", A>>, <<"open", RootA>>, <<"unlink", A>>}, links |-> {}]

MCPrograms == {FileProgram, DirProgram, DevProgram}
=============================================================================
