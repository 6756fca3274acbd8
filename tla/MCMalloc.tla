------------------------------ MODULE MCMalloc ------------------------------
(***************************************************************************)
(* Instances of Malloc.  The heap starts at an odd address with blocks of  *)
(* two units, so that its first and last unit can be lost; the sizes       *)
(* include two that overflow, with and without the header, and the offsets *)
(* one that is no multiple of a block.                                     *)
(***************************************************************************)
EXTENDS Malloc

MCOffsets == {2, -1}
=============================================================================
