-------------------------------- MODULE Tty ---------------------------------
(***************************************************************************)
(* What the console promises a reader: characters are edited on a line     *)
(* until it is complete, and only complete input is read, in order, at     *)
(* most a line by one read.                                                *)
(***************************************************************************)
EXTENDS Integers, Sequences

CONSTANTS Room, Plain, NL, EOF       \* characters: plain ones, newline, ^D

VARIABLES
  lines,   \* complete input that nobody has read yet
  edit     \* the line that is being typed

Chars == Plain \cup {NL, EOF}

TInit == lines = <<>> /\ edit = <<>>

(* A character ends the line if it is a newline or ^D, or fills the buffer. *)
Type(c) ==
  /\ Len(lines) + Len(edit) < Room
  /\ IF c \in {NL, EOF} \/ Len(lines) + Len(edit) + 1 = Room
     THEN lines' = lines \o Append(edit, c) /\ edit' = <<>>
     ELSE edit' = Append(edit, c) /\ UNCHANGED lines
Erase == edit # <<>> /\ edit' = SubSeq(edit, 1, Len(edit) - 1) /\ UNCHANGED lines
KillLine == edit # <<>> /\ edit' = <<>> /\ UNCHANGED lines

(* A read takes some of the input, nothing beyond a newline, and a ^D only  *)
(* when it is the first: the reader of a ^D gets nothing else.              *)
Read == /\ \E k \in 1 .. Len(lines) :
             /\ lines' = SubSeq(lines, k + 1, Len(lines))
             /\ \A i \in 1 .. k - 1 : lines[i] \notin {NL, EOF}
             /\ lines[k] = EOF => k = 1
        /\ UNCHANGED edit

TNext == (\E c \in Chars : Type(c)) \/ Erase \/ KillLine \/ Read
TSpec == TInit /\ [][TNext]_<<lines, edit>>
=============================================================================
