------------------------------ MODULE Devices -------------------------------
(***************************************************************************)
(* The parts of the kernel in which processes wait for each other or for a *)
(* device: the buffer cache and the disk, a pipe, and the console.  They   *)
(* share no state, so that it is enough to let any one of them run.        *)
(***************************************************************************)
EXTENDS Bcache, Pipe, Console

VARIABLE device    \* the part that runs

dvars == <<device, bvars, pvars, cvars>>

DInit == BInit /\ PInit /\ CInit /\ device \in {"disk", "pipe", "console"}

DNext == \/ BNext /\ device = "disk" /\ UNCHANGED <<device, pvars, cvars>>
         \/ PNext /\ device = "pipe" /\ UNCHANGED <<device, bvars, cvars>>
         \/ CNext /\ device = "console" /\ UNCHANGED <<device, bvars, pvars>>

(* The disk answers, processes that may run in the kernel go on, and the    *)
(* programs at the ends of a pipe go on to use it or to close it.           *)
DFair ==
  /\ WF_bvars(device = "disk" /\ ideintr)
  /\ \A p \in BProcs : WF_bvars(device = "disk" /\ BProc(p))
  /\ \A p \in PProcs : /\ WF_pvars(device = "pipe" /\ PRun(p))
                       /\ WF_pvars(device = "pipe" /\ (Call(p) \/ pipeclose(p)))

DSpec == DInit /\ [][DNext]_dvars /\ DFair

(* Nobody sleeps past what it waits for: the disk's answer and the release  *)
(* of a buffer's lock (Bcache), a transfer or the last close of the other   *)
(* end of a pipe (Pipe), and complete console input (Console).              *)
SleepersWait == WaitsSound /\ PipeSleepers /\ ReaderWaits

(* Sleepers are woken: every disk request is answered, and nobody sleeps    *)
(* for ever in a pipe whose other end is used or closed.                    *)
SleepersWoken == IoEnds /\ PipeWakes
=============================================================================
