-------------------------- MODULE MCVirtualMemory ---------------------------
(***************************************************************************)
(* Tables of two entries, 32 bits hold eight pages.  RODATA gets tables of *)
(* its own, DATA has pages in a table of exec_init and in a new one at a   *)
(* multiple of WRAP, and so is the end page of the stack.                  *)
(***************************************************************************)
EXTENDS VirtualMemory

MCPages == {0} \cup 2 .. 3 \cup 6 .. 8 \cup 15 .. 16
=============================================================================
