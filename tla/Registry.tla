------------------------------ MODULE Registry ------------------------------
(***************************************************************************)
(* The configuration file nsboot.json, the requests of the web page that   *)
(* rewrite it, and dhcpd.conf, which ApplyMy derives from it               *)
(* (bin/nsbctl.lua: SaveToFile, LoadFromFile, ExportDHCP, GetMy, ApplyMy,  *)
(* DeleteMachine and the super-mode requests).                             *)
(*                                                                         *)
(* A request runs in one nginx worker: it loads the whole file, changes    *)
(* its copy, and saves the whole copy.  Saving truncates the file, then    *)
(* encodes and writes.  Nothing is locked.  A browser holds the answer of  *)
(* GetMy in a form until the user sends it back with ApplyMy.              *)
(*                                                                         *)
(* An entry of cfg.wks is nil, {empty = "true"}, or a machine, of which    *)
(* the target id and the enable and supper flags are kept: they are what   *)
(* one request can lose of another's.  The page names a machine by its     *)
(* target id, which it shows in the rows of its table and in a disabled    *)
(* field of the form, and the handlers take that id for the index.  In     *)
(* cfg.lua it is not: wks[3].tid is 2.  A request that loads the file      *)
(* several times (lines 1875, 714, 716) is modelled by its last load: the  *)
(* earlier ones can only make it fail.  Only the last load and the steps   *)
(* after it touch the state.                                               *)
(***************************************************************************)
EXTENDS Naturals, FiniteSets, Sequences, FiniteSetsExt

CONSTANTS Workers,   \* nginx worker processes
          Browsers,  \* pages opened by administrators
          Shipped,   \* the target ids of the machines in cfg.lua
          MaxId,     \* bound: target ids 1..MaxId
          MaxServed, \* bound: requests
          MaxCrash   \* bound: worker crashes

ASSUME RegistryAssumption ==
    /\ MaxId \in Nat \ {0} /\ {MaxServed, MaxCrash} \subseteq Nat
    /\ Shipped \in Seq(1..MaxId) /\ Len(Shipped) <= MaxId
    /\ \A i \in 1..Len(Shipped) : Shipped[i] <= Len(Shipped)

Ids == 1..MaxId

Nil == [kind |-> "nil", tid |-> 0, enable |-> FALSE, supper |-> FALSE]
Empty == [kind |-> "empty", tid |-> 0, enable |-> FALSE, supper |-> FALSE]
Machine(t, e, s) == [kind |-> "machine", tid |-> t, enable |-> e, supper |-> s]
Machines == {Machine(t, e, s) : t \in Ids, e, s \in BOOLEAN}
Entries == {Nil, Empty} \cup Machines
Tables == [Ids -> Entries]

\* cfg.lua: every machine is enabled.
Default ==
    [i \in Ids |-> IF i <= Len(Shipped) THEN Machine(Shipped[i], TRUE, FALSE) ELSE Nil]
Blank == [i \in Ids |-> Nil]

Requests ==
    {[op |-> "ApplyMy", id |-> m.tid, entry |-> m] : m \in Machines}
        \cup [op : {"DeleteMachine", "superOn", "superOff", "create"}, id : Ids,
              entry : {Nil}]

NoForm == Nil
Forms == {NoForm} \cup Machines

VARIABLES
    file,    \* nsboot.json: "absent", "torn" or "whole", and its table
    dhcp,    \* dhcpd.conf: "old" (not ours yet), "torn" or "whole", the machines
             \* with a host block, those with the end of one and no beginning,
             \* and the worker that has it open
    h,       \* the request each worker is serving
    form,    \* the machine form open in each browser
    served,  \* bound: requests so far
    crashes, \* bound: crashes so far
    mixed,   \* history: two requests have overlapped
    saved,   \* history: what the requests that have saved have left in each entry
    deleted  \* history: machines deleted since the last export

vars == <<file, dhcp, h, form, served, crashes, mixed, saved, deleted>>

Pcs == {"idle", "load", "change", "truncate", "write", "rename", "export"}
Idle == [pc |-> "idle", todo |-> <<>>, wks |-> Blank]
Torn == [state |-> "torn", wks |-> Blank]

TypeOK ==
    /\ file \in [state : {"absent", "torn", "whole"}, wks : Tables]
    /\ dhcp \in [state : {"old", "torn", "whole"}, hosts : SUBSET Ids,
                strays : SUBSET Ids, by : Workers \cup {0}]
    /\ h \in [Workers -> [pc : Pcs, todo : Seq(Requests), wks : Tables]]
    /\ \A p \in Workers : h[p].pc \notin {"idle", "rename", "export"} => h[p].todo # <<>>
    /\ form \in [Browsers -> Forms]
    /\ served \in 0..MaxServed /\ crashes \in 0..MaxCrash
    /\ mixed \in BOOLEAN
    /\ saved \in Tables
    /\ deleted \subseteq Ids

Init ==
    /\ file = [state |-> "absent", wks |-> Blank]
    /\ dhcp = [state |-> "old", hosts |-> {}, strays |-> {}, by |-> 0]
    /\ h = [p \in Workers |-> Idle]
    /\ form = [b \in Browsers |-> NoForm]
    /\ served = 0 /\ crashes = 0
    /\ mixed = FALSE
    /\ saved = Default
    /\ deleted = {}

-----------------------------------------------------------------------------
(***************************************************************************)
(* What the requests compute.                                              *)
(***************************************************************************)

\* GetMy for a new machine.  ipairs ends at the first nil; the first empty slot
\* is taken, or the index after the last machine whose target id is its index.
\* Without one t_id is nil (here 0), on which the handler dies.
NewId(wks) ==
    LET listed == {n \in Ids : \A i \in 1..n : wks[i].kind # "nil"}
        empties == {n \in listed : wks[n].kind = "empty"}
        own == {n \in listed : wks[n].tid = n}
    IN IF empties # {} THEN Min(empties)
       ELSE IF own # {} THEN Max(own) + 1
       ELSE 0

\* A deleted machine leaves nil behind.
BadEffect(r, wks) ==
    CASE r.op = "create" -> Default
      [] r.op = "ApplyMy" -> [wks EXCEPT ![r.id] = r.entry]
      [] r.op = "DeleteMachine" /\ wks[r.id].tid = r.id ->
            [wks EXCEPT ![r.id] = Nil]
      [] r.op = "superOn" -> [wks EXCEPT ![r.id].supper = TRUE]
      [] r.op = "superOff" -> [wks EXCEPT ![r.id].supper = FALSE]
      [] OTHER -> wks

\* The change a request makes to its copy of cfg.wks.  The test in ApplyMy
\* compares with wks[t_id] for a t_id that the page sends as a string, so it
\* finds nil and the entry is replaced whatever it was.  A DeleteMachine that
\* finds no machine with the target id at its index answers "ERROR", and saves.
Effect(r, wks) ==
    CASE r.op = "create" -> Default
      [] r.op = "ApplyMy" -> [wks EXCEPT ![r.id] = r.entry]
      [] r.op = "DeleteMachine" /\ wks[r.id].tid = r.id ->
            [wks EXCEPT ![r.id] = Empty]
      [] r.op = "superOn" -> [wks EXCEPT ![r.id].supper = TRUE]
      [] r.op = "superOff" -> [wks EXCEPT ![r.id].supper = FALSE]
      [] OTHER -> wks

\* The super-mode requests index the images of the machine and die without.
Dies(r, wks) == r.op \in {"superOn", "superOff"} /\ wks[r.id].kind # "machine"

\* ExportDHCP writes a host block for an enabled machine.  For a disabled one it
\* leaves out the beginning and still writes the options and the closing brace.
Hosts(wks) == {i \in Ids : wks[i].kind = "machine" /\ wks[i].enable}
Strays(wks) == {i \in Ids : wks[i].kind = "machine" /\ ~wks[i].enable}

-----------------------------------------------------------------------------
(***************************************************************************)
(* The page.                                                               *)
(***************************************************************************)

\* GetMy: the form of a new machine, or of one that a row of the page (which may
\* be older than the file) names, as the user edits it.
GetMy(b) ==
    /\ file.state = "whole"
    /\ form[b] = NoForm
    /\ \/ /\ NewId(file.wks) \in Ids
          /\ \E e \in BOOLEAN :
                form' = [form EXCEPT ![b] = Machine(NewId(file.wks), e, FALSE)]
       \/ \E i \in Ids, e \in BOOLEAN :
             /\ file.wks[i].kind = "machine"
             /\ form' = [form EXCEPT ![b] =
                            Machine(file.wks[i].tid, e, file.wks[i].supper)]
    /\ UNCHANGED <<file, dhcp, h, served, crashes, mixed, saved, deleted>>

Serve(p, r) ==
    /\ h[p].pc = "idle"
    /\ served < MaxServed
    /\ served' = served + 1
    /\ mixed' = (mixed \/ \E q \in Workers : h[q].pc # "idle")
    /\ h' = [h EXCEPT ![p] = [pc |-> "load", todo |-> <<r>>, wks |-> Blank]]
    /\ UNCHANGED <<file, dhcp, crashes, saved, deleted>>

SendForm(p, b) ==
    /\ form[b] # NoForm
    /\ Serve(p, [op |-> "ApplyMy", id |-> form[b].tid, entry |-> form[b]])
    /\ form' = [form EXCEPT ![b] = NoForm]

Send(p) ==
    /\ \E o \in {"DeleteMachine", "superOn", "superOff"}, i \in Ids :
          Serve(p, [op |-> o, id |-> i, entry |-> Nil])
    /\ UNCHANGED form

-----------------------------------------------------------------------------
(***************************************************************************)
(* A request in its worker.                                                *)
(***************************************************************************)

\* isFile looks elsewhere: every request starts from the default configuration.
BadLoadFromFile(p) ==
    /\ h[p].pc = "load"
    /\ h' = [h EXCEPT ![p] =
          [pc |-> "change", wks |-> Blank,
           todo |-> <<[op |-> "create", id |-> 1, entry |-> Nil]>> \o @.todo]]
    /\ UNCHANGED <<file, dhcp, form, served, crashes, mixed, saved, deleted>>

\* Line 1875: without a file the default configuration is saved first.  An
\* empty file does not decode: the request dies.
LoadFromFile(p) ==
    /\ h[p].pc = "load"
    /\ h' = [h EXCEPT ![p] =
          CASE file.state = "whole" -> [@ EXCEPT !.pc = "change", !.wks = file.wks]
            [] file.state = "torn" -> Idle
            [] file.state = "absent" ->
                  [pc |-> "change", wks |-> Blank,
                   todo |-> <<[op |-> "create", id |-> 1, entry |-> Nil]>> \o @.todo]]
    /\ UNCHANGED <<file, dhcp, form, served, crashes, mixed, saved, deleted>>

Change(p) ==
    LET r == Head(h[p].todo) IN
    /\ h[p].pc = "change"
    /\ h' = [h EXCEPT ![p] =
          IF Dies(r, @.wks) THEN Idle
          ELSE [@ EXCEPT !.pc = "truncate", !.wks = Effect(r, h[p].wks)]]
    /\ UNCHANGED <<file, dhcp, form, served, crashes, mixed, saved, deleted>>

\* SaveToFile: io.open(fpath, "w") ...
Truncate(p) ==
    /\ h[p].pc = "truncate"
    /\ file' = Torn
    /\ h' = [h EXCEPT ![p].pc = "write"]
    /\ UNCHANGED <<dhcp, form, served, crashes, mixed, saved, deleted>>

\* What a request leaves in its entry, whether its answer arrives or not.
Record(r, wks) ==
    saved' = IF r.op = "create" THEN saved ELSE [saved EXCEPT ![r.id] = wks[r.id]]

\* ... then encode, write and close.  If another worker has written since this
\* one truncated, the shorter of the two texts leaves a tail of the other.
Write(p) ==
    LET r == Head(h[p].todo)
        rest == Tail(h[p].todo)
    IN
    /\ h[p].pc = "write"
    /\ \/ file' = [state |-> "whole", wks |-> h[p].wks]
       \/ file.state = "whole" /\ file' = Torn
    /\ Record(r, h[p].wks)
    /\ deleted' = IF r.op = "DeleteMachine" /\ h[p].wks[r.id].kind = "empty"
                  THEN deleted \cup {r.id} ELSE deleted
    /\ h' = [h EXCEPT ![p] =
          IF rest # <<>> THEN [@ EXCEPT !.pc = "change", !.todo = rest]
          ELSE IF r.op = "ApplyMy" THEN [@ EXCEPT !.pc = "rename", !.todo = rest]
          ELSE Idle]
    /\ UNCHANGED <<dhcp, form, served, crashes, mixed>>

\* ExportDHCP: the old file is renamed away, another worker's unfinished one
\* included, and a new one is opened ...
Rename(p) ==
    /\ h[p].pc = "rename"
    /\ dhcp' = [state |-> "torn", hosts |-> {}, strays |-> {}, by |-> p]
    /\ h' = [h EXCEPT ![p].pc = "export"]
    /\ UNCHANGED <<file, form, served, crashes, mixed, saved, deleted>>

\* The disabled machines are exported too.
BadExport(p) ==
    /\ h[p].pc = "export"
    /\ dhcp' = [state |-> "whole", by |-> 0, strays |-> {},
                hosts |-> {i \in Ids : h[p].wks[i].kind = "machine"}]
    /\ deleted' = {}
    /\ h' = [h EXCEPT ![p] = Idle]
    /\ UNCHANGED <<file, form, served, crashes, mixed, saved>>

\* ... and filled: dhcpd.conf, or the backup it has become meanwhile.
Export(p) ==
    /\ h[p].pc = "export"
    /\ IF dhcp.by = p
       THEN /\ dhcp' = [state |-> "whole", by |-> 0, hosts |-> Hosts(h[p].wks),
                        strays |-> Strays(h[p].wks)]
            /\ deleted' = {}
       ELSE UNCHANGED <<dhcp, deleted>>
    /\ h' = [h EXCEPT ![p] = Idle]
    /\ UNCHANGED <<file, form, served, crashes, mixed, saved>>

Crash(p) ==
    /\ crashes < MaxCrash
    /\ h[p].pc # "idle"
    /\ crashes' = crashes + 1
    /\ h' = [h EXCEPT ![p] = Idle]
    /\ UNCHANGED <<file, dhcp, form, served, mixed, saved, deleted>>

Request(p) ==
    \/ LoadFromFile(p) \/ Change(p) \/ Truncate(p) \/ Write(p)
    \/ Rename(p) \/ Export(p)

Next ==
    \/ \E b \in Browsers : GetMy(b)
    \/ \E p \in Workers :
          \/ \E b \in Browsers : SendForm(p, b)
          \/ Send(p) \/ Request(p) \/ Crash(p)

Spec == Init /\ [][Next]_vars

-----------------------------------------------------------------------------
(***************************************************************************)
(* Properties.                                                             *)
(***************************************************************************)

AtRest == \A p \in Workers : h[p].pc = "idle"
Loaded == {"change", "truncate", "write"}

\* Unless requests have overlapped, what a request has saved, and the page then
\* confirms ("SAVE CONFIGURATIONS JSON: ", "OK"), is in nsboot.json until a later
\* request names the same entry: the SaveToFile of one request, or its crash, does
\* not undo ApplyMy, DeleteMachine or super mode of another.
ConfirmedKept == (~mixed /\ AtRest /\ file.state = "whole") => file.wks = saved

\* Unless requests have overlapped, cfg.wks has no hole: ipairs, which lists the
\* machines and finds the next free id in GetMy, reaches every machine, over any
\* sequence of GetMy, ApplyMy and DeleteMachine and with forms of any age.
NoHoles ==
    \A i, j \in Ids :
        (~mixed /\ file.state = "whole" /\ i < j /\ file.wks[i].kind = "nil")
            => file.wks[j].kind = "nil"

\* Unless requests have overlapped or a worker has died, dhcpd.conf has a host
\* block for exactly the enabled machines of nsboot.json, and the stray end of one,
\* on which dhcpd refuses the file, exactly when some machine is disabled; besides
\* them only for machines that were deleted since the last ApplyMy, because
\* DeleteMachine does not call ExportDHCP.
DhcpFollows ==
    (~mixed /\ crashes = 0 /\ AtRest /\ file.state = "whole" /\ dhcp.state = "whole")
        => /\ dhcp.hosts \ deleted = Hosts(file.wks) \ deleted
           /\ dhcp.strays \ deleted = Strays(file.wks) \ deleted

\* nsboot.json is unreadable and no request still holds a copy of it.
Unreadable == file.state = "torn" /\ \A p \in Workers : h[p].pc \notin Loaded

\* An unreadable nsboot.json is final: once no request still holds a copy that
\* it loaded before, every later one dies in LoadFromFile, and none repairs it.
TornIsFinal == [][Unreadable => Unreadable']_vars
=============================================================================
