----------------------------- MODULE SanDevice ------------------------------
(***************************************************************************)
(* The SAN device of an iPXE station (src/src/ipxe/src/core/sanboot.c):    *)
(* the disk that NSBoot exports over iSCSI as the firmware sees it.        *)
(*                                                                         *)
(* A device has paths (iSCSI sessions to one target each).  The blocking   *)
(* calls open the paths, wait until one becomes the active one, issue a    *)
(* command on it and wait for its end, and meanwhile call step(): one      *)
(* step may handle all packets that have arrived, so several events may    *)
(* happen between two looks at the device.                                 *)
(*                                                                         *)
(* Status codes are "ok", "busy" (-EINPROGRESS) and "err".  The events of  *)
(* the block devices underneath are external.                              *)
(***************************************************************************)
EXTENDS Naturals, Sequences, Functions

CONSTANTS MaxPaths,    \* bound: the number of URIs given to alloc_sandev
          SanRetries,  \* san_retries
          MaxCount,    \* capacity.max_count: blocks per command
          MaxBlocks    \* bound: the longest read or write

ASSUME SanAssumption ==
    /\ MaxPaths \in Nat \ {0} /\ SanRetries \in Nat
    /\ MaxCount \in Nat \ {0} /\ MaxBlocks \in Nat \ {0}

Paths == 1..MaxPaths

VARIABLES
    dev,     \* the san_device
    pc,      \* where the blocking call is
    op,      \* the call: its stage, retries, and the blocks it still has to move
    result,  \* status of the last call
    moved    \* history: blocks moved by the commands of the current call

vars == <<dev, pc, op, result, moved>>

Rcs == {"ok", "busy", "err"}
Waits == {"open", "describe", "command", "delay"}
Stages == {"none", "reopen", "describe", "capacity", "iso9660", "reset", "rw"}
NoOp == [stage |-> "none", retries |-> 0, lba |-> 0, count |-> 0, remaining |-> 0]

\* alloc_sandev for n URIs.
alloc_sandev(n) ==
    [paths |-> n,
     opened |-> <<>>, closed |-> [i \in 1..n |-> i],  \* the two lists of paths
     active |-> 0,
     timer |-> FALSE, command_rc |-> "ok",
     path_rc |-> [p \in Paths |-> "busy"],
     window |-> [p \in Paths |-> FALSE],    \* xfer_window of the block interface
     process |-> [p \in Paths |-> FALSE],   \* the path's process is queued
     desc |-> [p \in Paths |-> "none"],     \* ACPI descriptor
     cmds |-> {},                           \* commands plugged into sandev->command
     listed |-> FALSE]                      \* in san_devices

Device ==
    [paths : Paths, opened : Seq(Paths), closed : Seq(Paths), active : Paths \cup {0},
     timer : BOOLEAN, command_rc : Rcs, path_rc : [Paths -> Rcs],
     window : [Paths -> BOOLEAN], process : [Paths -> BOOLEAN],
     desc : [Paths -> {"none", "partial", "full"}],
     cmds : SUBSET [lba : Nat, count : Nat, try : Nat], listed : BOOLEAN]

\* Every path is in one of the two lists, once.
Lists(d) ==
    /\ IsInjective(d.opened) /\ IsInjective(d.closed)
    /\ Range(d.opened) \cap Range(d.closed) = {}
    /\ Range(d.opened) \cup Range(d.closed) = 1..d.paths

TypeOK ==
    /\ dev \in Device /\ Lists(dev)
    /\ pc \in Waits \cup {"idle", "reopen", "retry", "issue", "asserted"}
    /\ op \in [stage : Stages, retries : 0..(SanRetries + 1), lba : 0..MaxBlocks,
               count : 0..MaxCount, remaining : 0..MaxBlocks]
    /\ result \in Rcs

Init ==
    /\ \E n \in Paths : dev = alloc_sandev(n)
    /\ pc = "idle" /\ op = NoOp /\ result = "ok" /\ moved = {}

-----------------------------------------------------------------------------
(***************************************************************************)
(* What the functions do to a device d.                                    *)
(***************************************************************************)

\* list_del, from whichever list the path is in.
Unlisted(l, p) ==
    LET n == CHOOSE i \in DOMAIN l : l[i] = p
    IN IF p \in Range(l) THEN SubSeq(l, 1, n - 1) \o SubSeq(l, n + 1, Len(l)) ELSE l

\* The command is left plugged in.
Bad_sandev_command_close(d, rc) == [d EXCEPT !.timer = FALSE, !.command_rc = rc]

sandev_command_close(d, rc) ==
    [d EXCEPT !.timer = FALSE, !.cmds = {}, !.command_rc = rc]

\* A closed path is not checked for being the active one.
Bad_sanpath_close(d, p, rc) ==
    [d EXCEPT !.path_rc[p] = rc,
              !.opened = Unlisted(@, p),
              !.closed = Append(Unlisted(@, p), p),
              !.process[p] = FALSE,
              !.window[p] = FALSE]

sanpath_close(d, p, rc) ==
    LET closed == [d EXCEPT !.path_rc[p] = rc,
                            !.opened = Unlisted(@, p),
                            !.closed = Append(Unlisted(@, p), p),
                            !.process[p] = FALSE,
                            !.window[p] = FALSE]
    IN IF p # d.active THEN closed
       ELSE sandev_command_close([closed EXCEPT !.active = 0], rc)

\* Nothing has to be done for the active path; a path whose window is not open
\* yet will be called again.
sanpath_step(d, p) ==
    IF p = d.active \/ ~d.window[p] THEN d
    ELSE IF d.active = 0 THEN [d EXCEPT !.path_rc[p] = "ok", !.active = p]
    ELSE sanpath_close([d EXCEPT !.path_rc[p] = "ok"], p, "ok")

\* The loop of sandev_restart closes the opened paths one by one, from the first
\* to the last.
sandev_restart(d, rc) ==
    LET was == Range(d.opened) IN
    sandev_command_close(
        [d EXCEPT !.opened = <<>>, !.closed = @ \o d.opened, !.active = 0,
                  !.path_rc = [p \in Paths |-> IF p \in was THEN rc ELSE d.path_rc[p]],
                  !.process = [p \in Paths |-> p \notin was /\ d.process[p]],
                  !.window = [p \in Paths |-> p \notin was /\ d.window[p]]], rc)

\* sanpath_open of the first n closed paths, from the first to the last.  The new
\* session of a path has a descriptor, complete (as good as none) or not, and may
\* be ready at once: the process notices that.
sanpath_open(d, n, desc, ready) ==
    LET new == Range(SubSeq(d.closed, 1, n)) IN
    [d EXCEPT !.opened = @ \o SubSeq(d.closed, 1, n),
              !.closed = SubSeq(@, n + 1, Len(@)),
              !.desc = [p \in Paths |-> IF p \in new THEN desc[p] ELSE d.desc[p]],
              !.window = [p \in Paths |-> IF p \in new THEN ready[p] ELSE d.window[p]],
              !.process = [p \in Paths |-> p \in new \/ d.process[p]],
              !.path_rc = [p \in Paths |-> IF p \in new THEN "busy" ELSE d.path_rc[p]]]

sandev_undescribe(d) == [d EXCEPT !.desc = [p \in Paths |-> "none"]]

Smaller(a, b) == IF a < b THEN a ELSE b
Blocks(c) == c.lba..(c.lba + c.count - 1)

-----------------------------------------------------------------------------
(***************************************************************************)
(* The calls of the firmware.                                              *)
(***************************************************************************)

\* sandev_rw: the fragment at lba of what remains.  Addresses are those of the
\* underlying device, after the shift for a CD-ROM.
Fragment(stage, lba, remaining) ==
    [stage |-> stage, retries |-> 0, lba |-> lba, count |-> Smaller(MaxCount, remaining),
     remaining |-> remaining]

\* A device is allocated and registered, unless its drive number is in use by the
\* one that is listed: then it is freed again, never opened.
register_sandev ==
    /\ pc = "idle"
    /\ IF dev.listed
       THEN result' = "err" /\ UNCHANGED <<dev, pc, op>>
       ELSE /\ \E n \in Paths : dev' = alloc_sandev(n)
            /\ pc' = "reopen" /\ op' = [NoOp EXCEPT !.stage = "reopen"]
            /\ UNCHANGED result
    /\ UNCHANGED moved

sandev_reset ==
    /\ pc = "idle" /\ dev.listed
    /\ pc' = "reopen" /\ op' = [NoOp EXCEPT !.stage = "reset"]
    /\ UNCHANGED <<dev, result, moved>>

sandev_rw ==
    /\ pc = "idle" /\ dev.listed
    /\ \E n \in 1..MaxBlocks : op' = Fragment("rw", 0, n)
    /\ pc' = "retry" /\ moved' = {}
    /\ UNCHANGED <<dev, result>>

unregister_sandev ==
    /\ pc = "idle" /\ dev.listed
    /\ dev' = sandev_undescribe(sandev_restart([dev EXCEPT !.listed = FALSE], "ok"))
    /\ UNCHANGED <<pc, op, result, moved>>

\* Only the descriptors are removed.
BadFailed(d, rc) ==
    /\ dev' = sandev_undescribe(d)
    /\ pc' = "idle" /\ op' = NoOp /\ result' = rc
    /\ UNCHANGED moved

\* A call fails; a device that was being registered is shut down again.
Failed(d, rc) ==
    /\ dev' = IF op.stage \in {"reopen", "describe", "capacity", "iso9660"}
              THEN sandev_undescribe(sandev_restart(d, rc)) ELSE d
    /\ pc' = "idle" /\ op' = NoOp /\ result' = rc
    /\ UNCHANGED moved

-----------------------------------------------------------------------------
(***************************************************************************)
(* sandev_reopen.                                                          *)
(***************************************************************************)

\* Opening is retried indefinitely with one path too.
BadReopenFails(d, rc) ==
    IF op.stage \in {"reopen", "reset"} THEN Failed(d, rc)
    ELSE /\ dev' = d
         /\ pc' = "delay"
         /\ UNCHANGED <<op, result, moved>>

\* Where a failed sandev_reopen returns to.  sandev_command waits and retries,
\* for ever if there are several paths.
ReopenFails(d, rc) ==
    IF op.stage \in {"reopen", "reset"} THEN Failed(d, rc)
    ELSE /\ dev' = d
         /\ op' = [op EXCEPT !.retries = IF dev.paths <= 1 THEN @ + 1 ELSE @]
         /\ pc' = "delay"
         /\ UNCHANGED <<result, moved>>

\* All paths are restarted and opened in the order of the closed list, until
\* one of them cannot be opened.
Reopen ==
    LET clean == sandev_restart(dev, "err") IN
    /\ pc = "reopen"
    /\ \E n \in 0..Len(clean.closed), desc \in [Paths -> {"partial", "full"}],
          ready \in [Paths -> BOOLEAN] :
          LET d == sanpath_open(clean, n, desc, ready)
          IN IF n < Len(clean.closed) THEN ReopenFails(sandev_restart(d, "err"), "err")
             ELSE /\ dev' = d /\ pc' = "open"
                  /\ UNCHANGED <<op, result, moved>>

\* The caller goes on: sandev_reset returns, register_sandev describes the
\* device, sandev_command issues its command.
Reopened(rc) ==
    /\ UNCHANGED moved
    /\ CASE op.stage = "reset" ->
              pc' = "idle" /\ op' = NoOp /\ result' = rc
         [] op.stage = "reopen" ->
              pc' = "describe" /\ op' = [op EXCEPT !.stage = "describe"] /\ UNCHANGED result
         [] OTHER -> pc' = "issue" /\ UNCHANGED <<op, result>>

\* The loop ends as soon as one path is closed.
BadOpenLoop ==
    /\ pc = "open"
    /\ \/ dev.active # 0 \/ dev.closed # <<>>
    /\ Reopened("ok") /\ UNCHANGED dev

\* The loop of sandev_reopen looks at the device after a step().  When all paths
\* are closed the status of the one closed first is returned, whatever it is.
OpenLoop ==
    /\ pc = "open"
    /\ \/ /\ dev.active # 0
          /\ Reopened("ok") /\ UNCHANGED dev
       \/ /\ dev.active = 0 /\ dev.opened = <<>>
          /\ LET rc == dev.path_rc[Head(dev.closed)]
                 d == sandev_restart(dev, rc)
             IN IF rc = "ok" THEN Reopened(rc) /\ dev' = d ELSE ReopenFails(d, rc)

\* sandev_describe: an incomplete descriptor of a closed path is a failure, one
\* of an opened path is waited for.
Describe ==
    LET partial == {p \in Paths : dev.desc[p] = "partial"} IN
    /\ pc = "describe"
    /\ \/ /\ partial \cap Range(dev.closed) # {}
          /\ Failed(dev, "err")
       \/ /\ partial = {}
          /\ op' = [op EXCEPT !.stage = "capacity", !.retries = 0]
          /\ pc' = "retry"
          /\ UNCHANGED <<dev, result, moved>>

-----------------------------------------------------------------------------
(***************************************************************************)
(* sandev_command.                                                         *)
(***************************************************************************)

\* One try too many.
BadAgain(d, retries, rc) ==
    IF retries > SanRetries + 1
    THEN Failed(d, rc)
    ELSE /\ dev' = d /\ op' = [op EXCEPT !.retries = retries]
         /\ pc' = "retry"
         /\ UNCHANGED <<result, moved>>

\* The end of the do loop: another try, or give up.
Again(d, retries, rc) ==
    IF retries > SanRetries
    THEN Failed(d, rc)
    ELSE /\ dev' = d /\ op' = [op EXCEPT !.retries = retries]
         /\ pc' = "retry"
         /\ UNCHANGED <<result, moved>>

\* sleep_fixed has ended.
DelayOver == pc = "delay" /\ Again(dev, op.retries, "err")

\* The top of the loop: sandev_needs_reopen.
Retry ==
    /\ pc = "retry"
    /\ pc' = IF dev.active = 0 THEN "reopen" ELSE "issue"
    /\ UNCHANGED <<dev, op, result, moved>>

\* The command is issued on the active path, which is asserted to exist.  It may
\* fail at once; otherwise the timer is started.
Issue ==
    /\ pc = "issue"
    /\ IF dev.active = 0
       THEN pc' = "asserted" /\ UNCHANGED <<dev, op, result, moved>>
       ELSE \/ Again(dev, op.retries + 1, "err")
            \/ /\ dev' = [dev EXCEPT !.timer = TRUE,
                          !.cmds = @ \cup {[lba |-> op.lba, count |-> op.count, try |-> op.retries]}]
               /\ pc' = "command"
               /\ UNCHANGED <<op, result, moved>>

\* register_sandev is over.
Register ==
    /\ dev' = [dev EXCEPT !.listed = TRUE]
    /\ op' = NoOp /\ pc' = "idle" /\ result' = "ok"
    /\ UNCHANGED moved

\* sandev_rw goes on to the next fragment, or returns to its caller.
NextFragment ==
    IF op.remaining = op.count
    THEN IF op.stage = "iso9660" THEN Register
         ELSE /\ op' = NoOp /\ pc' = "idle" /\ result' = "ok"
              /\ UNCHANGED <<dev, moved>>
    ELSE /\ op' = Fragment(op.stage, op.lba + op.count, op.remaining - op.count)
         /\ pc' = "retry" /\ UNCHANGED <<dev, result, moved>>

\* sandev_parse_iso9660: blocks too large for a CD-ROM, no memory, or a read of
\* the volume descriptor.
ParseIso9660 ==
    \/ Register
    \/ Failed(dev, "err")
    \/ /\ op' = Fragment("iso9660", 0, MaxBlocks) /\ pc' = "retry" /\ moved' = {}
       /\ UNCHANGED <<dev, result>>

\* The loop that waits while the timer runs.
CommandLoop ==
    /\ pc = "command"
    /\ ~dev.timer
    /\ IF dev.command_rc # "ok"
       THEN Again(dev, op.retries + 1, dev.command_rc)
       ELSE IF op.stage = "capacity" THEN ParseIso9660 ELSE NextFragment

-----------------------------------------------------------------------------
(***************************************************************************)
(* Events inside step().                                                   *)
(***************************************************************************)

\* step() is called by the loops above, and by iPXE itself between the calls.
Stepping == pc \in Waits \cup {"idle"} /\ UNCHANGED <<pc, op, result>>

\* The session is ready: the window opens and xfer_window_changed is called.
WindowOpens(p) ==
    /\ Stepping
    /\ p \in Range(dev.opened) /\ ~dev.window[p]
    /\ dev' = sanpath_step([dev EXCEPT !.window[p] = TRUE], p)
    /\ UNCHANGED moved

\* The process of a path runs once.
PathProcess(p) ==
    /\ Stepping
    /\ dev.process[p]
    /\ dev' = sanpath_step([dev EXCEPT !.process[p] = FALSE], p)
    /\ UNCHANGED moved

\* The session ends, never opened or lost later.
sanpath_block_close(p) ==
    /\ Stepping
    /\ p \in Range(dev.opened)
    /\ dev' = sanpath_close(dev, p, "err")
    /\ UNCHANGED moved

Described(p) ==
    /\ Stepping
    /\ p \in Range(dev.opened) /\ dev.desc[p] = "partial"
    /\ dev' = [dev EXCEPT !.desc[p] = "full"]
    /\ UNCHANGED moved

\* A command that is still plugged in closes with its status.
Answer ==
    /\ Stepping
    /\ \E c \in dev.cmds, rc \in {"ok", "err"} :
          /\ dev' = [sandev_command_close(dev, rc) EXCEPT !.cmds = @ \ {c}]
          /\ moved' = IF rc = "ok" THEN moved \cup Blocks(c) ELSE moved

sandev_command_expired ==
    /\ Stepping
    /\ dev.timer
    /\ dev' = sandev_command_close(dev, "err")
    /\ UNCHANGED moved

Call == register_sandev \/ sandev_reset \/ sandev_rw \/ unregister_sandev
Return == Reopen \/ OpenLoop \/ Describe \/ DelayOver \/ Retry \/ Issue \/ CommandLoop
PathEvent(p) ==
    WindowOpens(p) \/ PathProcess(p) \/ sanpath_block_close(p) \/ Described(p)

Next ==
    \/ Call \/ Return \/ Answer \/ sandev_command_expired
    \/ \E p \in Paths : PathEvent(p)

\* The blocking calls keep stepping, and step() runs the processes and the timer.
\* The target owes nothing: a session that it has accepted may stay as it is.
Fairness ==
    /\ WF_vars(Return) /\ WF_vars(sandev_command_expired)
    /\ \A p \in Paths : WF_vars(PathProcess(p))

Spec == Init /\ [][Next]_vars /\ Fairness

-----------------------------------------------------------------------------
(***************************************************************************)
(* Properties.                                                             *)
(***************************************************************************)

\* "assert ( sanpath != NULL )" of sandev_command_rw and
\* sandev_command_read_capacity: a command is issued only while a path is
\* active, so a sandev_reopen that succeeds has left one.  With several paths the
\* assertion fails when a path that was closed as a spare was closed first and
\* the active one is lost before the loop of sandev_reopen looks again.
CommandHasPath == dev.paths = 1 => pc # "asserted"

\* The active path is an opened one, and its closure takes the command and the
\* timer with it: no command waits on a path that is gone.
ActiveIsOpen ==
    /\ dev.active # 0 => dev.active \in Range(dev.opened) /\ dev.window[dev.active]
    /\ dev.cmds # {} => dev.active # 0 /\ dev.timer
    /\ dev.timer => pc = "command"

\* The assertions of sandev_free: after a failed registration or after
\* unregister_sandev the device has no timer, active path, opened path or
\* descriptor left, whatever was under way.
AllClosed ==
    (pc = "idle" /\ ~dev.listed) =>
        /\ ~dev.timer /\ dev.active = 0 /\ dev.opened = <<>> /\ dev.cmds = {}
        /\ \A p \in Paths : dev.desc[p] = "none" /\ ~dev.process[p]

\* A read or write that reports success has moved every block it was asked for,
\* each with a command of its own that succeeded, across retries, timeouts and
\* lost paths; a late answer to an abandoned command does not count.
RwComplete ==
    [][(pc = "command" /\ op.remaining > 0 /\ pc' = "idle" /\ result' = "ok")
          => moved' = 0..(op.lba + op.remaining - 1)]_vars

\* A session that its target neither completes, describes nor closes.
Silent ==
    \E p \in Range(dev.opened) :
        \/ pc = "open" /\ ~dev.window[p]
        \/ pc = "describe" /\ dev.desc[p] = "partial"

\* "Use an overall timeout for all commands to avoid this problem": with one
\* path every call returns, with a status if not with success, unless it waits
\* for ever for a silent target to open or to describe its session, which no
\* timer bounds.  No sequence of lost paths, failed commands and retries keeps it.
CallsEnd == <>[]Silent \/ ((pc # "idle" /\ dev.paths = 1) ~> (pc = "idle"))
=============================================================================
