--------------------------- MODULE MCNsbootDaemon ---------------------------
(***************************************************************************)
(* Model-checking instance of NsbootDaemon.                                *)
(***************************************************************************)
EXTENDS NsbootDaemon
=============================================================================
