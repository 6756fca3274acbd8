---------------------------- MODULE MCBootServer ----------------------------
(***************************************************************************)
(* Instances of BootServer for model checking.                             *)
(***************************************************************************)
EXTENDS BootServer, TLC

CONSTANTS w1, w2

OneTid == w1 :> 1
TwoTids == w1 :> 1 @@ w2 :> 2
File == <<"dyndisk">>
ZvolAndIso == <<"dynblock", "iso">>
=============================================================================
