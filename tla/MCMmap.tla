------------------------------- MODULE MCMmap -------------------------------
(***************************************************************************)
(* A small instance of Mmap for TLC.  The calls of mmap() are those of     *)
(* mytest in small: each combination of flags, mappings that overlap or    *)
(* touch, an empty one, one that the file's mode forbids, and one of a     *)
(* descriptor that is not open.                                            *)
(***************************************************************************)
EXTENDS Mmap, TLC

Arg(addr, len, prot, pop, f) ==
  [addr |-> addr, len |-> len, prot |-> prot, pop |-> pop, f |-> f]
MCRequests == {Arg(0, 2, PROT_READ, "now", "ro"), Arg(0, 2, PROT_READ, "later", "ro"),
               Arg(1, 0, PROT_RW, "later", "ro"), Arg(1, 1, PROT_RW, "now", "none"),
               Arg(1, 1, PROT_RW, "now", "anon")}

(* kalloc() may give any frame, so that frames are interchangeable.          *)
AnyFrame == Permutations(Frames)
=============================================================================
