---------------------------- MODULE MCRetryTimer ----------------------------
(***************************************************************************)
(* An instance of RetryTimer: timers with timeouts of a few ticks.         *)
(***************************************************************************)
EXTENDS RetryTimer
=============================================================================
