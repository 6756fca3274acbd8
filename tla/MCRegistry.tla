----------------------------- MODULE MCRegistry -----------------------------
(***************************************************************************)
(* Instances of Registry.  Worker processes are numbers, so that dhcp.by   *)
(* can be 0 for nobody.                                                    *)
(***************************************************************************)
EXTENDS Registry

\* As in cfg.lua, where the third machine has the target id of the second, the
\* last machine has that of the one before it.
MCShipped == <<1, 1>>
=============================================================================
