-------------------------- MODULE MCXraySupervisor --------------------------
(* Two launch specs; processes are numbered in the order of their launch.  *)
EXTENDS XraySupervisor
=============================================================================
