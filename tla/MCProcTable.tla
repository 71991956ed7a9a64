---------------------------- MODULE MCProcTable ----------------------------
(* TLC instances of ProcTable.                                              *)
EXTENDS ProcTable
=============================================================================
