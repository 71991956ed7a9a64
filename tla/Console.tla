------------------------------ MODULE Console -------------------------------
(***************************************************************************)
(* Input from the console (console.c): the interrupt handler edits a ring  *)
(* of characters with three indices that only grow, and a reader takes     *)
(* complete lines.  A step is a critical section of cons.lock.             *)
(***************************************************************************)
EXTENDS Integers, Sequences, FiniteSets

CONSTANTS
  CProcs,      \* processes that read
  INPUT_BUF,
  CUint,       \* the indices wrap here (2^32 in the code)
  Plain,       \* characters without a meaning
  MaxRead      \* bound: bytes of one read

NL == "newline"
EOF == "eof"                 \* ^D
ERASE == "erase"             \* ^H
KILL == "kill"               \* ^U
LIST == "list"               \* ^P: procdump(), which changes nothing here
Keys == Plain \cup {NL, EOF, ERASE, KILL}

(* The ring's size divides the range of the indices, and the characters     *)
(* with a meaning are different ones.                                       *)
ASSUME ConsoleAssumption ==
  /\ INPUT_BUF \in Nat \ {0} /\ CUint \in Nat \ {0} /\ MaxRead \in Nat
  /\ INPUT_BUF < CUint /\ CUint % INPUT_BUF = 0
  /\ Plain \cap {NL, EOF, ERASE, KILL} = {}

VARIABLES
  ring,          \* input.buf
  inr, inw, ine, \* input.r, input.w and input.e: read, complete, edited up to
  rd,            \* per process: where it is in consoleread(), n and target
  ckilled        \* the processes that have been killed

cvars == <<ring, inr, inw, ine, rd, ckilled>>

NoRead == [pc |-> "user", n |-> 0, target |-> 0]
Dist(a, b) == (a - b) % CUint
Slot(i) == i % INPUT_BUF

(* Nobody is between the test of the ring and the end of sleep().           *)
LockFree == \A p \in CProcs : rd[p].pc # "sleep"

CInit ==
  /\ ring = [i \in 0 .. INPUT_BUF - 1 |-> NL]
  /\ inr = 0 /\ inw = 0 /\ ine = 0
  /\ rd = [p \in CProcs |-> NoRead]
  /\ ckilled = {}

-----------------------------------------------------------------------------
(* consoleintr(), one character.                                            *)

Fits == Dist(ine, inr) < INPUT_BUF

Complete(c, e) == c \in {NL, EOF} \/ Dist(e, inr) = INPUT_BUF

(* wakeup(&input.r).                                                        *)
ReadersWoken == [p \in CProcs |-> IF rd[p].pc = "asleep" THEN [rd[p] EXCEPT !.pc = "run"]
                                  ELSE rd[p]]

(* ^U takes k characters back: the line back to w, or to a newline.         *)
Killed(k) ==
  LET before(i) == ring[Slot((ine - i) % CUint)]
  IN /\ \A i \in 1 .. k : before(i) # NL
     /\ k = Dist(ine, inw) \/ before(k + 1) = NL

consoleintr(c) ==
  /\ LockFree
  /\ \/ /\ c = KILL
        /\ \E k \in 0 .. Dist(ine, inw) : Killed(k) /\ ine' = (ine - k) % CUint
        /\ UNCHANGED <<ring, inw, rd>>
     \/ /\ c = ERASE /\ ine # inw
        /\ ine' = (ine - 1) % CUint
        /\ UNCHANGED <<ring, inw, rd>>
     \/ /\ c \in Plain \cup {NL, EOF} /\ Fits
        /\ ring' = [ring EXCEPT ![Slot(ine)] = c]
        /\ ine' = (ine + 1) % CUint
        /\ inw' = IF Complete(c, ine') THEN ine' ELSE inw
        /\ rd' = IF Complete(c, ine') THEN ReadersWoken ELSE rd
  /\ UNCHANGED <<inr, ckilled>>

-----------------------------------------------------------------------------
(* consoleread().                                                           *)

ReadCall(p) ==
  /\ rd[p].pc = "user" /\ p \notin ckilled
  /\ \E n \in 1 .. MaxRead : rd' = [rd EXCEPT ![p] = [pc |-> "run", n |-> n, target |-> n]]
  /\ UNCHANGED <<ring, inr, inw, ine, ckilled>>

(* The characters from index a up to index b.                               *)
Stretch(a, b) == [k \in 1 .. Dist(b, a) |-> ring[Slot((a + k - 1) % CUint)]]
Ready == Stretch(inr, inw)

(* Mutant of Consumed: ^D is consumed also after other characters.          *)
ConsumedEof(p, k) ==
  /\ k <= Len(Ready) /\ \A i \in 1 .. k - 1 : Ready[i] \notin {NL, EOF}
  /\ k = rd[p].n \/ k = Len(Ready) \/ (k > 0 /\ Ready[k] \in {NL, EOF})

(* The loop takes k characters before it ends or finds no more: ^D ends the *)
(* read, and is left for the next one unless it is all there is.            *)
Consumed(p, k) ==
  LET keep(i) == Ready[i] = EOF /\ rd[p].n - i + 1 < rd[p].target
  IN /\ k <= Len(Ready) /\ \A i \in 1 .. k - 1 : Ready[i] \notin {NL, EOF}
     /\ k > 0 => ~keep(k)
     /\ \/ k = rd[p].n \/ k = Len(Ready)
        \/ k > 0 /\ Ready[k] \in {NL, EOF}
        \/ k < Len(Ready) /\ keep(k + 1)

(* The loop has ended: everything asked for is there, or a newline or ^D.   *)
Done(p, k) == k = rd[p].n \/ (k > 0 /\ Ready[k] \in {NL, EOF}) \/ k < Len(Ready)

(* consoleread() from cons.lock to its return or to sleep().                *)
consoleread(p) ==
  /\ rd[p].pc = "run" /\ LockFree
  /\ \E k \in 0 .. rd[p].n :
       /\ Consumed(p, k)
       /\ inr' = (inr + k) % CUint
       /\ \/ (Done(p, k) \/ p \in ckilled) /\ rd' = [rd EXCEPT ![p] = NoRead]
          \/ /\ ~Done(p, k) /\ p \notin ckilled
             /\ rd' = [rd EXCEPT ![p].pc = "sleep", ![p].n = @ - k]
  /\ UNCHANGED <<ring, inw, ine, ckilled>>

(* sleep() lets go of cons.lock.                                            *)
CSleep(p) ==
  /\ rd[p].pc = "sleep"
  /\ rd' = [rd EXCEPT ![p].pc = "asleep"]
  /\ UNCHANGED <<ring, inr, inw, ine, ckilled>>

(* kill() wakes a sleeper.  It does not take cons.lock, so that it may come *)
(* between the test of killed and the sleep.                                *)
CKill(p) ==
  /\ ckilled' = ckilled \cup {p}
  /\ rd' = [rd EXCEPT ![p].pc = IF @ = "asleep" THEN "run" ELSE @]
  /\ UNCHANGED <<ring, inr, inw, ine>>

CNext == \/ \E c \in Keys : consoleintr(c)
         \/ \E p \in CProcs : ReadCall(p) \/ consoleread(p) \/ CSleep(p) \/ CKill(p)

-----------------------------------------------------------------------------
T == INSTANCE Tty WITH Room <- INPUT_BUF, lines <- Ready,
                       edit <- Stretch(inw, ine)

(* The ring and its wrapping indices implement the line discipline of Tty:  *)
(* characters are neither lost nor repeated, erasing never reaches what is  *)
(* complete, and a reader only gets complete input.                         *)
LineDiscipline == T!TSpec

(* A reader sleeps only while there is no complete input: neither a newline *)
(* nor ^D nor a full buffer misses it.                                      *)
ReaderWaits == \A p \in CProcs : rd[p].pc \in {"sleep", "asleep"} => inr = inw
=============================================================================
