--------------------------- MODULE CommandChannel ---------------------------
(***************************************************************************)
(* What the boot pipeline may rely on when it hands a qemu-nbd command to  *)
(* nsboot.cmd.nbd.add: the command is refused, run once, or lost, and      *)
(* nothing tells the caller which.  NsbootDaemon implements this channel;  *)
(* BootServer is written against it (its queue, Execute and Lose).         *)
(***************************************************************************)
CONSTANT Commands

VARIABLE fate   \* what has become of each command

Init == fate = [c \in Commands |-> "new"]

\* The command is under way.
Submit(c) ==
    /\ fate[c] = "new"
    /\ fate' = [fate EXCEPT ![c] = "queued"]

\* Nobody takes the command.
Refuse(c) ==
    /\ fate[c] = "new"
    /\ fate' = [fate EXCEPT ![c] = "lost"]

Run(c) ==
    /\ fate[c] = "queued"
    /\ fate' = [fate EXCEPT ![c] = "run"]

\* Commands under way are lost, several at a time.
Drop(S) ==
    /\ \A c \in S : fate[c] = "queued"
    /\ fate' = [c \in Commands |-> IF c \in S THEN "lost" ELSE fate[c]]

Next ==
    \/ \E c \in Commands : Submit(c) \/ Refuse(c) \/ Run(c)
    \/ \E S \in SUBSET Commands : Drop(S)

Spec == Init /\ [][Next]_fate
=============================================================================
