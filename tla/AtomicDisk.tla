----------------------------- MODULE AtomicDisk -----------------------------
(* What the logging layer (log.c) promises to a file-system call: its       *)
(* writes are all on disk or none is, whenever the machine stops.           *)
CONSTANTS Procs, Blocks, Vals, InitVal

VARIABLES
  durable,  \* what a reboot would find
  view,     \* what file-system calls read
  active    \* the processes inside begin_op() ... end_op()

vars == <<durable, view, active>>

Init ==
  /\ durable = [b \in Blocks |-> InitVal]
  /\ view = durable
  /\ active = {}

Begin(p) ==
  /\ p \notin active
  /\ active' = active \cup {p}
  /\ UNCHANGED <<durable, view>>

Write(p, b, v) ==
  /\ p \in active
  /\ view' = [view EXCEPT ![b] = v]
  /\ UNCHANGED <<durable, active>>

End(p) ==
  /\ p \in active
  /\ active' = active \ {p}
  /\ UNCHANGED <<durable, view>>

(* All writes of all finished calls become durable in one step, and no call *)
(* is half way.                                                             *)
Commit ==
  /\ active = {}
  /\ durable' = view
  /\ UNCHANGED <<view, active>>

Crash ==
  /\ view' = durable
  /\ active' = {}
  /\ UNCHANGED durable

Next ==
  \/ \E p \in Procs : Begin(p) \/ End(p)
  \/ \E p \in Procs, b \in Blocks, v \in Vals : Write(p, b, v)
  \/ Commit
  \/ Crash

Spec == Init /\ [][Next]_vars
=============================================================================
