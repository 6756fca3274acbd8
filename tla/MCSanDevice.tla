---------------------------- MODULE MCSanDevice -----------------------------
(***************************************************************************)
(* Instances of SanDevice: one path, as NSBoot uses it, and two paths.     *)
(***************************************************************************)
EXTENDS SanDevice
=============================================================================
