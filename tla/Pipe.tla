-------------------------------- MODULE Pipe --------------------------------
(***************************************************************************)
(* A pipe (pipe.c) between processes that write to it, read from it, are   *)
(* killed and close it, in steps of p->lock.  A byte is the number of its  *)
(* place in the stream, modulo Marks.  kill() does not take the pipe's     *)
(* lock, so that it may come between a caller's test of killed and its     *)
(* sleep.                                                                  *)
(***************************************************************************)
EXTENDS Integers, FiniteSets, FiniteSetsExt

CONSTANTS
  Writers,   \* processes with the writing end
  Readers,   \* processes with the reading end
  PIPESIZE,
  Uint,      \* nread and nwrite wrap here (2^32 in the code)
  Marks,     \* bound: bytes that are told apart
  MaxBytes   \* bound: bytes of one call

PProcs == Writers \cup Readers

(* A process has one of the ends.  PIPESIZE divides the range of the        *)
(* counters, and the marks tell the bytes of a full ring apart.             *)
ASSUME PipeAssumption ==
  /\ Writers \cap Readers = {} /\ "free" \notin PProcs
  /\ PIPESIZE \in Nat \ {0} /\ Uint \in Nat \ {0} /\ Marks \in Nat \ {0}
  /\ MaxBytes \in Nat
  /\ PIPESIZE < Uint /\ Uint % PIPESIZE = 0 /\ PIPESIZE < Marks

VARIABLES
  nread, nwrite,      \* bytes read and written, modulo Uint
  data,               \* the ring of bytes
  open,               \* the processes whose end is still open
  plock,              \* who holds p->lock across steps, or "free"
  call,               \* per process: where it is, and bytes still to go
  killed,             \* the processes that have been killed
  sent, got           \* marks of the next byte to send and to receive

pvars == <<nread, nwrite, data, open, plock, call, killed, sent, got>>

Returned == [pc |-> "user", n |-> 0]
readopen == Readers \cap open # {}
writeopen == Writers \cap open # {}
Filled == (nwrite - nread) % Uint

PInit ==
  /\ nread = 0 /\ nwrite = 0
  /\ data = [i \in 0 .. PIPESIZE - 1 |-> 0]
  /\ open = PProcs /\ plock = "free" /\ killed = {}
  /\ call = [p \in PProcs |-> Returned]
  /\ sent = 0 /\ got = 0

(* A process calls read() or write(); one that is killed does not return to *)
(* make a call.                                                             *)
Call(p) ==
  /\ call[p].pc = "user" /\ p \in open \ killed
  /\ \E n \in 1 .. MaxBytes : call' = [call EXCEPT ![p] = [pc |-> "run", n |-> n]]
  /\ UNCHANGED <<nread, nwrite, data, open, plock, killed, sent, got>>

(* wakeup() of the sleepers in ps, and p is at pc with n bytes to go.       *)
Wake(ps, p, pc, n) ==
  call' = [q \in PProcs |-> IF q = p THEN [pc |-> pc, n |-> n]
                            ELSE IF q \in ps /\ call[q].pc = "asleep"
                            THEN [call[q] EXCEPT !.pc = "run"] ELSE call[q]]

(* Mutant of Room: the ring may take one byte too many.                     *)
RoomMore == PIPESIZE + 1 - Filled

Room == PIPESIZE - Filled

(* pipewrite(), from p->lock to sleep() or the return.  Only a writer that  *)
(* finds the ring full looks for a reader.                                  *)
pipewrite(p) ==
  /\ call[p].pc = "run" /\ plock = "free"
  /\ LET k == Min({call[p].n, Room})
         left == call[p].n - k
     IN /\ data' = [i \in DOMAIN data |->
              IF \E j \in 0 .. k - 1 : (nwrite + j) % PIPESIZE = i
              THEN (sent + CHOOSE j \in 0 .. k - 1 : (nwrite + j) % PIPESIZE = i) % Marks
              ELSE data[i]]
        /\ nwrite' = (nwrite + k) % Uint
        /\ sent' = (sent + k) % Marks
        /\ \/ /\ left = 0
              /\ Wake(Readers, p, "user", 0) /\ UNCHANGED plock
           \/ /\ left > 0 /\ (~readopen \/ p \in killed)
              /\ call' = [call EXCEPT ![p] = Returned] /\ UNCHANGED plock
           \/ /\ left > 0 /\ readopen /\ p \notin killed
              /\ Wake(Readers, p, "sleep", left) /\ plock' = p
  /\ UNCHANGED <<nread, open, killed, got>>

(* piperead(), from p->lock to sleep() or the return.                       *)
piperead(p) ==
  /\ call[p].pc = "run" /\ plock = "free"
  /\ \/ /\ Filled = 0 /\ writeopen
        /\ \/ /\ p \in killed
              /\ call' = [call EXCEPT ![p] = Returned] /\ UNCHANGED plock
           \/ /\ p \notin killed
              /\ call' = [call EXCEPT ![p].pc = "sleep"] /\ plock' = p
        /\ UNCHANGED <<nread, got>>
     \/ /\ Filled > 0 \/ ~writeopen
        /\ LET k == Min({call[p].n, Filled})
           IN /\ nread' = (nread + k) % Uint
              /\ got' = (got + k) % Marks
        /\ Wake(Writers, p, "user", 0) /\ UNCHANGED plock
  /\ UNCHANGED <<nwrite, data, open, killed, sent>>

(* sleep() lets go of p->lock.                                              *)
Sleep(p) ==
  /\ call[p].pc = "sleep"
  /\ call' = [call EXCEPT ![p].pc = "asleep"]
  /\ plock' = "free"
  /\ UNCHANGED <<nread, nwrite, data, open, killed, sent, got>>

(* kill() marks the process, also once more, and wakes it if it sleeps.     *)
Kill(p) ==
  /\ p \in open
  /\ killed' = killed \cup {p}
  /\ call' = [call EXCEPT ![p].pc = IF @ = "asleep" THEN "run" ELSE @]
  /\ UNCHANGED <<nread, nwrite, data, open, plock, sent, got>>

(* Mutant of CloseWakes: the other end is not told.                         *)
CloseWakesNot(p) == UNCHANGED call

(* pipeclose() wakes the other end.                                         *)
CloseWakes(p) ==
  IF p \in Writers THEN Wake(Readers, p, "user", 0) ELSE Wake(Writers, p, "user", 0)

(* close(), or exit(): the last of an end runs pipeclose().                 *)
pipeclose(p) ==
  /\ call[p].pc = "user" /\ p \in open
  /\ open' = open \ {p}
  /\ \/ /\ {p} \in {Writers \cap open, Readers \cap open} /\ plock = "free"
        /\ CloseWakes(p)
     \/ /\ {p} \notin {Writers \cap open, Readers \cap open}
        /\ UNCHANGED call
  /\ UNCHANGED <<nread, nwrite, data, plock, killed, sent, got>>

(* Everybody has closed: the pipe's page is free.                           *)
Freed == open = {} /\ UNCHANGED pvars

PRun(p) == \/ p \in Writers /\ pipewrite(p)
           \/ p \in Readers /\ piperead(p)
           \/ Sleep(p)
PNext == \/ \E p \in PProcs : PRun(p) \/ Call(p) \/ Kill(p) \/ pipeclose(p)
         \/ Freed

-----------------------------------------------------------------------------
(* The ring holds, in order, the bytes that were sent and not yet received: *)
(* none is lost, repeated or overwritten while writers sleep in the middle  *)
(* of a call and the counters wrap.                                         *)
InOrder ==
  /\ Filled <= PIPESIZE /\ (sent - got) % Marks = Filled
  /\ \A i \in 0 .. Filled - 1 : data[(nread + i) % PIPESIZE] = (got + i) % Marks

(* A writer sleeps only while the ring is full and somebody may read, a     *)
(* reader only while it is empty and somebody may write: neither a transfer *)
(* nor the last close of the other end misses the sleeper.  One transfer    *)
(* does: a writer that has been killed returns from a full ring without a   *)
(* wakeup, so that a reader then sleeps in front of what it wrote until the *)
(* next write or close.                                                     *)
PipeSleepers ==
  \A p \in PProcs : call[p].pc \in {"sleep", "asleep"} =>
    IF p \in Writers THEN Filled = PIPESIZE /\ readopen
    ELSE (Filled = 0 \/ Writers \cap killed # {}) /\ writeopen

(* Nobody sleeps for ever in a pipe whose other end is used or closed.      *)
PipeWakes == \A p \in PProcs : call[p].pc = "asleep" ~> call[p].pc # "asleep"
=============================================================================
