----------------------------- MODULE BootServer -----------------------------
(***************************************************************************)
(* The boot pipeline of bin/nsbctl.lua: what the nginx handler does for a  *)
(* workstation that asks for its boot arguments, and what the super-mode   *)
(* requests of the web page do to the same disks.                          *)
(*                                                                         *)
(* A station boots from copy-on-write children (qcow2 overlays), one per   *)
(* image slot.  In normal mode a child lies over a private ZFS snapshot of *)
(* the base image and is thrown away at every boot; an image chosen in     *)
(* super mode gets a child over the LIVE base image, kept across boots     *)
(* (a lock file marks it) until it is committed into the base.  A child    *)
(* is exported by qemu-nbd as /dev/nbdN, and /dev/nbdN by tgtd as a LUN.   *)
(*                                                                         *)
(* Every nginx worker runs one handler at a time (the handlers block in    *)
(* os.execute and never yield); several workers interleave.  Each action   *)
(* below is one external command of a handler together with the check      *)
(* right before it; lsofkill and img.del, and the disconnects of nbdFree,  *)
(* are one action as well.                                                 *)
(*                                                                         *)
(* The image slots are the enabled ones; the page gives every station      *)
(* three slots, and the others are disabled, which all handlers skip.      *)
(*                                                                         *)
(* All stations use the same base image in slot i.  The data of a child is *)
(* the set of MARKS written to it: in which mode it was written is all     *)
(* that the properties ask.  Of a base image the model keeps what should   *)
(* not be in it, and of a snapshot whether the base has changed since.     *)
(***************************************************************************)
EXTENDS Naturals, FiniteSets

CONSTANTS
    Stations,  \* registered workstations (nsboot.cfg.wks)
    Enabled,   \* those with enable == "1"
    NImages,   \* image slots of a station
    ImgType,   \* [1..NImages -> {"dyndisk", "dynblock", "iso"}]
    NbdNbds,   \* nsboot.cfg.server.nbd_nbds
    Supers,    \* the stations the administrator switches to super mode
    Tid,       \* [Stations -> Nat \ {0}], the iSCSI target ids
    Workers,   \* nginx workers
    Prompt,    \* TRUE: nsbootd and qemu-nbd finish what they were told before
               \* a handler's next command
    Crashes,   \* TRUE: nginx workers may be killed
    None       \* no owner, no station

Images == 1..NImages
Devs == 1..NbdNbds
Disks == Stations \X Images
Tids == {Tid[w] : w \in Stations}

ASSUME BootAssumption ==
    /\ Enabled \subseteq Stations
    /\ Supers \subseteq Stations
    /\ None \notin Stations
    /\ NImages \in Nat \ {0}
    /\ ImgType \in [Images -> {"dyndisk", "dynblock", "iso"}]
    /\ NbdNbds \in Nat
    /\ Tid \in [Stations -> Nat \ {0}]
    /\ Prompt \in BOOLEAN
    /\ Crashes \in BOOLEAN

VARIABLES
    cfg,      \* the saved super-mode settings of each station
    child,    \* child image of each disk: "none", "live" or "snap" backed
    delta,    \* marks in the child
    lock,     \* disks with a lock file
    base,     \* what is wrong with each base image
    snap,     \* the station's snapshot of a base: "none", "fresh" or "old"
    qst,      \* the qemu-nbd process of a child
    qdev,     \* the device it was told to use
    queue,    \* commands on their way through client.lua and nsbootd
    com,      \* the background qemu-img commit of a child
    tgt,      \* the station that owns the target with a given tid, or None
    lun,      \* the device behind a LUN, 0 for no LUN
    blank,    \* LUNs created on a device nobody served: size 0 for ever
    h,        \* the handler each worker runs
    st,       \* what a station does
    smode     \* the images a running station was given in super mode

diskVars == <<child, delta, lock>>
storeVars == <<base, snap>>
nbdVars == <<qst, qdev, queue>>
tgtVars == <<tgt, lun, blank>>
stVars == <<st, smode>>
vars == <<cfg, diskVars, storeVars, nbdVars, com, tgtVars, h, stVars>>

Written == {"normal", "super", "discarded"}
Flaws == {"normal", "discarded", "broken"}
Pcs == {"idle", "stop", "free", "zfree", "unmount", "snap", "mk", "create",
        "replace", "lock", "search", "connect", "tgt", "lun",
        "cstop", "ccommit", "csave", "cwait"}

\* The super-mode settings of a station: supper == "1", and the images with
\* commit == "1".
Settings == [supper : BOOLEAN, commit : SUBSET Images]
NormalMode == [supper |-> FALSE, commit |-> {}]

\* A handler: where it is, for which station and image, the images in super mode
\* (of a commit request: those whose commit it has started), v.nbd of each image,
\* whether a station waits for the answer, and the configuration a commit request
\* has loaded and will save.
Handler == [pc : Pcs, ws : Stations \cup {None}, img : Images,
            super : SUBSET Images, dev : [Images -> 0..NbdNbds], live : BOOLEAN,
            cfg : [Stations -> Settings]]

TypeOK ==
    /\ cfg \in [Stations -> Settings]
    /\ child \in [Disks -> {"none", "live", "snap"}]
    /\ delta \in [Disks -> SUBSET Written]
    /\ lock \subseteq Disks
    /\ base \in [Images -> SUBSET Flaws]
    /\ snap \in [Disks -> {"none", "fresh", "old"}]
    /\ qst \in [Disks -> {"none", "open", "serve", "exit"}]
    /\ qdev \in [Disks -> 0..NbdNbds]
    /\ queue \subseteq Disks \X Devs
    /\ com \in [Disks -> {"none", "started", "running"}]
    /\ tgt \in [Tids -> Stations \cup {None}]
    /\ lun \in [Tids \X Images -> 0..NbdNbds]
    /\ blank \subseteq Tids \X Images
    /\ h \in [Workers -> Handler]
    /\ \A p \in Workers : h[p].pc # "idle" => h[p].ws \in Stations
    /\ st \in [Stations -> {"off", "wait", "ready", "on"}]
    /\ smode \in [Stations -> SUBSET Images]

NoDevs == [i \in Images |-> 0]
AllNormal == [w \in Stations |-> NormalMode]

Idle == [pc |-> "idle", ws |-> None, img |-> 1, super |-> {},
         dev |-> NoDevs, live |-> FALSE, cfg |-> AllNormal]

Init ==
    /\ cfg = AllNormal
    /\ child = [d \in Disks |-> "none"]
    /\ delta = [d \in Disks |-> {}]
    /\ lock = {}
    /\ base = [i \in Images |-> {}]
    /\ snap = [d \in Disks |-> "none"]
    /\ qst = [d \in Disks |-> "none"]
    /\ qdev = [d \in Disks |-> 0]
    /\ queue = {}
    /\ com = [d \in Disks |-> "none"]
    /\ tgt = [t \in Tids |-> None]
    /\ lun = [l \in Tids \X Images |-> 0]
    /\ blank = {}
    /\ h = [p \in Workers |-> Idle]
    /\ st = [w \in Stations |-> "off"]
    /\ smode = [w \in Stations |-> {}]

-----------------------------------------------------------------------------
(***************************************************************************)
(* What the handlers ask the system.  (Names that begin with Bad are       *)
(* faulty variants of the definition that follows them, each kept to show  *)
(* that the properties below notice that fault.)                           *)
(***************************************************************************)

\* nsboot.cmd.tgt.used greps the listing for "Target [0-9]:", which no target
\* with a tid of two digits matches.
TgtUsed(w) == tgt[Tid[w]] = w /\ Tid[w] <= 9

\* lsof on a device: a connected qemu-nbd, or tgtd through a LUN.
NbdHolders(n) == {d \in Disks : qst[d] \in {"serve", "exit"} /\ qdev[d] = n}
TgtHolds(n) == \E l \in DOMAIN lun : lun[l] = n

\* A listing that shows tgtd only.
BadNbdUsed(n) == TgtHolds(n)

NbdUsed(n) == NbdHolders(n) # {} \/ TgtHolds(n)

\* search_nbd returns n: the first device nobody has open; 0 stands for nil.
FreeDevs == {n \in Devs : ~NbdUsed(n)}
search_nbd(n) == \/ n \in FreeDevs /\ \A m \in 1..(n - 1) : NbdUsed(m)
                 \/ n = 0 /\ FreeDevs = {}

\* lsof on a child image.
ImgUsed(d) == qst[d] # "none" \/ com[d] = "running"

\* A snapshot cannot be unmounted or destroyed while a child over it is open.
\* The file images of a station share one snapshot, a zvol has its own.
SnapBusy(d) ==
    \E i \in Images :
        /\ i = d[2] \/ (ImgType[i] = "dyndisk" /\ ImgType[d[2]] = "dyndisk")
        /\ child[<<d[1], i>>] = "snap"
        /\ ImgUsed(<<d[1], i>>)

OfType(w, type) == {d \in Disks : d[1] = w /\ ImgType[d[2]] = type}

\* With Prompt, nothing a handler started is still under way.
Settled == Prompt => queue = {} /\ \A d \in Disks : qst[d] \in {"none", "serve"}

\* tgtstop: kill the target of the station if it is listed.
tgtstop(w) ==
    /\ tgt' = IF TgtUsed(w) THEN [tgt EXCEPT ![Tid[w]] = None] ELSE tgt
    /\ lun' = [l \in DOMAIN lun |-> IF TgtUsed(w) /\ l[1] = Tid[w] THEN 0 ELSE lun[l]]
    /\ blank' = {l \in blank : ~(TgtUsed(w) /\ l[1] = Tid[w])}

\* nbdFree: for every child of w that a connected qemu-nbd has open, stop the
\* target and tell qemu-nbd to disconnect.  The process goes away by itself.
Connected(w) == {d \in Disks : /\ d[1] = w /\ child[d] # "none"
                               /\ qst[d] \in {"serve", "exit"}}

nbdDisconnect(ds) ==
    qst' = [d \in Disks |-> IF d \in ds THEN "exit" ELSE qst[d]]

\* The target stops, the qemu-nbd stays.
BadnbdFree(w) ==
    /\ IF Connected(w) # {} THEN tgtstop(w) ELSE UNCHANGED tgtVars
    /\ UNCHANGED nbdVars

nbdFree(w) ==
    /\ nbdDisconnect(Connected(w))
    /\ IF Connected(w) # {} THEN tgtstop(w) ELSE UNCHANGED tgtVars
    /\ UNCHANGED <<qdev, queue>>

\* The snapshots of base i, once something has been written to the base.
outdate(i) ==
    snap' = [d \in Disks |-> IF d[2] = i /\ snap[d] = "fresh" THEN "old" ELSE snap[d]]

\* lsofkill: kill -9 whoever has the child open.  A commit that dies leaves
\* the base image half written.
lsofkill(d) ==
    /\ qst' = [qst EXCEPT ![d] = "none"]
    /\ qdev' = [qdev EXCEPT ![d] = 0]
    /\ com' = [com EXCEPT ![d] = IF @ = "running" THEN "none" ELSE @]
    /\ base' = [base EXCEPT ![d[2]] = IF com[d] = "running"
                                      THEN @ \cup {"broken"} ELSE @]

\* img.del
delChild(d) ==
    /\ child' = [child EXCEPT ![d] = "none"]
    /\ delta' = [delta EXCEPT ![d] = {}]

-----------------------------------------------------------------------------
(***************************************************************************)
(* The boot request: tgtstop, nbdFree, zfsmount, mkChild, nbdConnect,      *)
(* LunAdd, each on the configuration loaded when the request came in.      *)
(***************************************************************************)

At(p, pc) == h[p].pc = pc /\ Settled
Goto(p, pc) == h' = [h EXCEPT ![p].pc = pc]

\* The loops over img: the same place with the next image, or the place after
\* the loop.
Turned(r, again, after) ==
    IF r.img < NImages THEN [r EXCEPT !.pc = again, !.img = r.img + 1]
    ELSE [r EXCEPT !.pc = after, !.img = 1]
NextImage(p, again, after) == h' = [h EXCEPT ![p] = Turned(h[p], again, after)]

Disk(p) == <<h[p].ws, h[p].img>>
Super(p) == h[p].img \in h[p].super
Child(p) == h[p].ws \in Enabled /\ ImgType[h[p].img] # "iso"

\* GetPage with getmebootargs.
GetBootArgs(p, w) ==
    /\ At(p, "idle")
    /\ st[w] = "off"
    /\ st' = [st EXCEPT ![w] = "wait"]
    /\ h' = [h EXCEPT ![p] =
               [Idle EXCEPT !.pc = "stop", !.ws = w, !.live = TRUE,
                            !.super = IF cfg[w].supper THEN cfg[w].commit ELSE {}]]
    /\ UNCHANGED <<cfg, diskVars, storeVars, nbdVars, com, tgtVars, smode>>

TgtStop(p) ==
    /\ At(p, "stop")
    /\ tgtstop(h[p].ws)
    /\ Goto(p, "free")
    /\ UNCHANGED <<cfg, diskVars, storeVars, nbdVars, com, stVars>>

NbdFree(p) ==
    /\ \/ At(p, "free") /\ Goto(p, "zfree")
       \/ At(p, "zfree") /\ Goto(p, "unmount")
    /\ nbdFree(h[p].ws)
    /\ UNCHANGED <<cfg, diskVars, storeVars, com, stVars>>

\* The last snapshot stays mounted.
BadZfsUnmount(p) ==
    /\ At(p, "unmount")
    /\ Goto(p, "snap")
    /\ UNCHANGED <<cfg, diskVars, storeVars, nbdVars, com, tgtVars, stVars>>

\* zfsmount, first half: umount and zfs destroy; both fail silently when busy.
ZfsUnmount(p) ==
    /\ At(p, "unmount")
    /\ snap' = [d \in Disks |-> IF d \in OfType(h[p].ws, "dyndisk") /\ ~SnapBusy(d)
                                THEN "none" ELSE snap[d]]
    /\ Goto(p, "snap")
    /\ UNCHANGED <<cfg, diskVars, base, nbdVars, com, tgtVars, stVars>>

\* zfsmount, second half: snapshot and mount what is not mounted; then destroy
\* and retake the snapshots of the zvols, unless they are busy.
ZfsSnap(p) ==
    /\ At(p, "snap")
    /\ LET files == {d \in OfType(h[p].ws, "dyndisk") : snap[d] = "none"}
           zvols == {d \in OfType(h[p].ws, "dynblock") : ~SnapBusy(d)}
       IN  snap' = [d \in Disks |-> IF d \in files \cup zvols THEN "fresh" ELSE snap[d]]
    /\ Goto(p, "mk")
    /\ UNCHANGED <<cfg, diskVars, base, nbdVars, com, tgtVars, stVars>>

\* mkChild, one image: what happens to the child and the lock file of the last
\* boot.
MkNothing(p) ==
    /\ ~Child(p)
    /\ NextImage(p, "mk", "search")
    /\ UNCHANGED <<diskVars, base, qst, qdev, com>>

\* The lock is not looked at.
BadMkReplace(p) ==
    /\ Child(p) /\ Super(p) /\ child[Disk(p)] # "none"
    /\ lsofkill(Disk(p))
    /\ delChild(Disk(p))
    /\ Goto(p, "replace")
    /\ UNCHANGED lock

\* Super mode, no lock: the child belongs to a normal boot.  Remove it.
MkReplace(p) ==
    /\ Child(p) /\ Super(p) /\ Disk(p) \notin lock /\ child[Disk(p)] # "none"
    /\ lsofkill(Disk(p))
    /\ delChild(Disk(p))
    /\ Goto(p, "replace")
    /\ UNCHANGED lock

\* Super mode, neither lock nor child: the lock comes first.
MkFirst(p) ==
    /\ Child(p) /\ Super(p) /\ Disk(p) \notin lock /\ child[Disk(p)] = "none"
    /\ lock' = lock \cup {Disk(p)}
    /\ Goto(p, "create")
    /\ UNCHANGED <<child, delta, base, qst, qdev, com>>

\* Super mode with lock and child: keep both.
MkKeep(p) ==
    /\ Child(p) /\ Super(p) /\ Disk(p) \in lock /\ child[Disk(p)] # "none"
    /\ NextImage(p, "mk", "search")
    /\ UNCHANGED <<diskVars, base, qst, qdev, com>>

\* A child that is there is used again.
BadMkFresh(p) ==
    /\ Child(p)
    /\ ~Super(p) \/ (Disk(p) \in lock /\ child[Disk(p)] = "none")
    /\ UNCHANGED <<diskVars, base, qst, qdev, com>>
    /\ IF child[Disk(p)] # "none" THEN NextImage(p, "mk", "search")
       ELSE Goto(p, "create")

\* Everything else: a child goes, and its lock with it.
MkFresh(p) ==
    /\ Child(p)
    /\ ~Super(p) \/ (Disk(p) \in lock /\ child[Disk(p)] = "none")
    /\ IF child[Disk(p)] # "none"
       THEN /\ lsofkill(Disk(p))
            /\ delChild(Disk(p))
            /\ lock' = lock \ {Disk(p)}
       ELSE UNCHANGED <<diskVars, base, qst, qdev, com>>
    /\ Goto(p, "create")

MkChild(p) ==
    /\ At(p, "mk")
    /\ MkNothing(p) \/ MkReplace(p) \/ MkFirst(p) \/ MkKeep(p) \/ MkFresh(p)
    /\ UNCHANGED <<cfg, snap, queue, tgtVars, stVars>>

\* Every child lies over the live image.
BadCreate(p) ==
    LET d == Disk(p) IN
    /\ At(p, "create") \/ At(p, "replace")
    /\ IF ImgUsed(d) THEN UNCHANGED <<child, delta>>
       ELSE /\ child' = [child EXCEPT ![d] = "live"]
            /\ delta' = [delta EXCEPT ![d] = {}]
    /\ IF h[p].pc = "replace" THEN Goto(p, "lock")
       ELSE NextImage(p, "mk", "search")
    /\ UNCHANGED <<cfg, lock, storeVars, nbdVars, com, tgtVars, stVars>>

\* img.child over the live image, or over the snapshot once it is there;
\* qemu-img refuses to overwrite an image in use.
Create(p) ==
    LET d == Disk(p) IN
    /\ At(p, "create") \/ At(p, "replace")
    /\ Super(p) \/ snap[d] # "none"
    /\ IF ImgUsed(d) THEN UNCHANGED <<child, delta>>
       ELSE /\ child' = [child EXCEPT ![d] = IF Super(p) THEN "live" ELSE "snap"]
            /\ delta' = [delta EXCEPT ![d] = {}]
    /\ IF h[p].pc = "replace" THEN Goto(p, "lock")
       ELSE NextImage(p, "mk", "search")
    /\ UNCHANGED <<cfg, lock, storeVars, nbdVars, com, tgtVars, stVars>>

\* After MkReplace the lock comes last.
CreateLock(p) ==
    /\ At(p, "lock")
    /\ lock' = lock \cup {Disk(p)}
    /\ NextImage(p, "mk", "search")
    /\ UNCHANGED <<cfg, child, delta, storeVars, nbdVars, com, tgtVars, stVars>>

\* nbdConnect, one image: v.nbd = search_nbd() ...
Search(p) ==
    /\ At(p, "search")
    /\ \E n \in 0..NbdNbds :
          /\ search_nbd(n)
          /\ h' = [h EXCEPT ![p].pc = "connect", ![p].dev[h[p].img] = n]
    /\ UNCHANGED <<cfg, diskVars, storeVars, nbdVars, com, tgtVars, stVars>>

Nbd(p) == h[p].dev[h[p].img]

\* ... while somebody has taken the device since: disconnect a qemu-nbd; if
\* only tgtd has it, stop the target of this station (with the Lua versions
\* in which os.execute returns nil for a failed command, usewho never answers
\* 2 and nothing is done) and look again ...
ConnectBlocked(p) ==
    /\ At(p, "connect")
    /\ Nbd(p) # 0
    /\ NbdUsed(Nbd(p))
    /\ IF NbdHolders(Nbd(p)) # {}
       THEN nbdDisconnect(NbdHolders(Nbd(p))) /\ UNCHANGED tgtVars
       ELSE /\ UNCHANGED qst
            /\ tgtstop(h[p].ws) \/ UNCHANGED tgtVars
    /\ UNCHANGED <<cfg, diskVars, storeVars, qdev, queue, com, h, stVars>>

\* ... and when it is free, hand the command to client.lua.
Connect(p) ==
    /\ At(p, "connect")
    /\ ImgType[h[p].img] = "iso" \/ Nbd(p) # 0
    /\ Nbd(p) # 0 => ~NbdUsed(Nbd(p))
    /\ queue' = IF ImgType[h[p].img] = "iso" THEN queue
                ELSE queue \cup {<<Disk(p), Nbd(p)>>}
    /\ NextImage(p, "search", "tgt")
    /\ UNCHANGED <<cfg, diskVars, storeVars, qst, qdev, com, tgtVars, stVars>>

\* The station that waits for worker p gets no answer it can use.
HangUp(p) ==
    /\ h' = [h EXCEPT ![p] = Idle]
    /\ st' = [w \in Stations |-> IF h[p].live /\ w = h[p].ws THEN "off" ELSE st[w]]

\* All devices busy: nbd.add concatenates nil and the request dies.
ConnectError(p) ==
    /\ At(p, "connect")
    /\ ImgType[h[p].img] # "iso" /\ Nbd(p) = 0
    /\ HangUp(p)
    /\ UNCHANGED <<cfg, diskVars, storeVars, nbdVars, com, tgtVars, smode>>

\* tgtstart with the enable test the wrong way round.
BadTgtStart(p) ==
    LET w == h[p].ws IN
    /\ At(p, "tgt")
    /\ ~TgtUsed(w)
    /\ tgt' = IF w \notin Enabled /\ tgt[Tid[w]] = None
              THEN [tgt EXCEPT ![Tid[w]] = w] ELSE tgt
    /\ UNCHANGED <<cfg, diskVars, storeVars, nbdVars, com, lun, blank, h, stVars>>

\* LunAdd: create the target until it is listed.  tgtadm refuses a tid that
\* exists, and tgtstart skips a disabled station.  tgt.rules follows tgt.new and
\* lets the address of the station in; that rule is not part of the state.
TgtStart(p) ==
    LET w == h[p].ws IN
    /\ At(p, "tgt")
    /\ ~TgtUsed(w)
    /\ tgt' = IF w \in Enabled /\ tgt[Tid[w]] = None
              THEN [tgt EXCEPT ![Tid[w]] = w] ELSE tgt
    /\ UNCHANGED <<cfg, diskVars, storeVars, nbdVars, com, lun, blank, h, stVars>>

TgtStarted(p) ==
    /\ At(p, "tgt")
    /\ TgtUsed(h[p].ws)
    /\ Goto(p, "lun")
    /\ UNCHANGED <<cfg, diskVars, storeVars, nbdVars, com, tgtVars, stVars>>

\* After the last LUN the answer is complete and the station can boot.
LunDone(p) ==
    IF h[p].img < NImages
    THEN NextImage(p, "lun", "lun") /\ UNCHANGED stVars
    ELSE /\ h' = [h EXCEPT ![p] = Idle]
         /\ IF h[p].live
            THEN /\ st' = [st EXCEPT ![h[p].ws] = "ready"]
                 /\ smode' = [smode EXCEPT ![h[p].ws] = h[p].super]
            ELSE UNCHANGED stVars

\* lun.add for one image.  tgtd refuses a LUN that exists or a target that is
\* gone; on a device nobody serves yet it either fails or keeps a LUN of size 0.
LunAdd(p) ==
    LET l == <<Tid[h[p].ws], h[p].img>> IN
    /\ At(p, "lun")
    /\ LunDone(p)
    /\ \/ /\ ImgType[h[p].img] # "iso" /\ Nbd(p) # 0
          /\ tgt[l[1]] # None /\ lun[l] = 0
          /\ lun' = [lun EXCEPT ![l] = Nbd(p)]
          /\ blank' = IF NbdHolders(Nbd(p)) = {} THEN blank \cup {l} ELSE blank
       \/ /\ \/ ImgType[h[p].img] = "iso" \/ Nbd(p) = 0
             \/ tgt[l[1]] = None \/ lun[l] # 0
             \/ NbdHolders(Nbd(p)) = {}
          /\ UNCHANGED <<lun, blank>>
    /\ UNCHANGED <<cfg, diskVars, storeVars, nbdVars, com, tgt>>

BootStep(p) ==
    \/ TgtStop(p) \/ NbdFree(p) \/ ZfsUnmount(p) \/ ZfsSnap(p)
    \/ MkChild(p) \/ Create(p) \/ CreateLock(p)
    \/ Search(p) \/ ConnectBlocked(p) \/ Connect(p) \/ ConnectError(p)
    \/ TgtStart(p) \/ TgtStarted(p) \/ LunAdd(p)

-----------------------------------------------------------------------------
(***************************************************************************)
(* The super-mode requests of the web page.  The ones that only rewrite    *)
(* the configuration are one action each; the server does not look whether *)
(* the station is running.                                                 *)
(***************************************************************************)

\* supper=true with the list of the images to keep.
SuperTrue(p, w, imgs) ==
    /\ At(p, "idle")
    /\ cfg' = [cfg EXCEPT ![w] = [supper |-> TRUE, commit |-> @.commit \cup imgs]]
    /\ UNCHANGED <<diskVars, storeVars, nbdVars, com, tgtVars, h, stVars>>

\* The answer "no" to "update disks?".  Only the configuration changes; what
\* the user gave up (and is not being committed) is marked, so that it is not
\* taken for the work that super mode keeps.
DisableUncommit(p, w) ==
    /\ At(p, "idle")
    /\ cfg' = [cfg EXCEPT ![w] = NormalMode]
    /\ delta' = [d \in Disks |-> IF /\ d[1] = w /\ d[2] \in cfg[w].commit
                                   /\ "super" \in delta[d] /\ com[d] = "none"
                                THEN (delta[d] \ {"super"}) \cup {"discarded"}
                                ELSE delta[d]]
    /\ UNCHANGED <<child, lock, storeVars, nbdVars, com, tgtVars, h, stVars>>

\* "Create point": the same assignments, and no commit.
DisableCommitPoint(p, w) ==
    /\ At(p, "idle")
    /\ cfg' = [cfg EXCEPT ![w] = NormalMode]
    /\ UNCHANGED <<diskVars, storeVars, nbdVars, com, tgtVars, h, stVars>>

\* The answer "yes": for every chosen image with a child, stop the target,
\* free the devices ...
DisableCommit(p, w) ==
    /\ At(p, "idle")
    /\ h' = [h EXCEPT ![p] =
               [Idle EXCEPT !.pc = "cstop", !.ws = w, !.cfg = cfg]]
    /\ UNCHANGED <<cfg, diskVars, storeVars, nbdVars, com, tgtVars, stVars>>

\* The image is chosen, in the configuration that this request has loaded.
ToCommit(p) ==
    h[p].cfg[h[p].ws].supper /\ h[p].img \in h[p].cfg[h[p].ws].commit

CommitStop(p) ==
    /\ At(p, "cstop")
    /\ IF ToCommit(p) /\ ImgType[h[p].img] # "iso" /\ child[Disk(p)] # "none"
       THEN /\ tgtstop(h[p].ws)
            /\ nbdDisconnect(Connected(h[p].ws))
            /\ Goto(p, "ccommit")
       ELSE /\ NextImage(p, "cstop", "csave")
            /\ UNCHANGED <<tgtVars, qst>>
    /\ UNCHANGED <<cfg, diskVars, storeVars, qdev, queue, com, stVars>>

\* ... and start `qemu-img commit` with io.popen, which does not wait for it.  A
\* second one for the same child gives up at once.
CommitStart(p) ==
    LET first == com[Disk(p)] = "none" IN
    /\ At(p, "ccommit")
    /\ com' = IF first THEN [com EXCEPT ![Disk(p)] = "started"] ELSE com
    /\ h' = [h EXCEPT ![p] =
               [Turned(h[p], "cstop", "csave") EXCEPT
                   !.super = IF first THEN @ \cup {h[p].img} ELSE @]]
    /\ UNCHANGED <<cfg, diskVars, storeVars, nbdVars, tgtVars, stVars>>

\* SaveToFile writes the whole configuration, as it was when the request came.
CommitSave(p) ==
    /\ At(p, "csave")
    /\ cfg' = [h[p].cfg EXCEPT ![h[p].ws] = NormalMode]
    /\ Goto(p, "cwait")
    /\ UNCHANGED <<diskVars, storeVars, nbdVars, com, tgtVars, stVars>>

\* The page has its answer; the Lua state of the request goes, which closes what
\* io.popen opened, and that waits for qemu-img.
CommitWait(p) ==
    /\ At(p, "cwait")
    /\ \A i \in h[p].super : com[<<h[p].ws, i>>] = "none"
    /\ h' = [h EXCEPT ![p] = Idle]
    /\ UNCHANGED <<cfg, diskVars, storeVars, nbdVars, com, tgtVars, stVars>>

CommitStep(p) == CommitStop(p) \/ CommitStart(p) \/ CommitSave(p) \/ CommitWait(p)

\* The worker is killed; what it had started stays as it is.
Crash(p) ==
    /\ Crashes
    /\ h[p].pc # "idle"
    /\ HangUp(p)
    /\ UNCHANGED <<cfg, diskVars, storeVars, nbdVars, com, tgtVars, smode>>

-----------------------------------------------------------------------------
(***************************************************************************)
(* The programs around the handlers.  nsbootd and its client are the       *)
(* module NsbootDaemon; here they are a set of commands, each run once or  *)
(* lost.  qemu-nbd opens the child first and the device second.            *)
(***************************************************************************)

Execute(d, n) ==
    /\ <<d, n>> \in queue
    /\ queue' = queue \ {<<d, n>>}
    /\ IF /\ child[d] # "none" /\ ~ImgUsed(d)
          /\ child[d] = "snap" => snap[d] # "none"
       THEN /\ qst' = [qst EXCEPT ![d] = "open"]
            /\ qdev' = [qdev EXCEPT ![d] = n]
       ELSE UNCHANGED <<qst, qdev>>
    /\ UNCHANGED <<cfg, diskVars, storeVars, com, tgtVars, h, stVars>>

Lose(d, n) ==
    /\ ~Prompt
    /\ <<d, n>> \in queue
    /\ queue' = queue \ {<<d, n>>}
    /\ UNCHANGED <<cfg, diskVars, storeVars, qst, qdev, com, tgtVars, h, stVars>>

\* The kernel gives a device to one client only; the other one exits.
Attach(d) ==
    /\ qst[d] = "open"
    /\ qst' = [qst EXCEPT ![d] = IF NbdHolders(qdev[d]) = {} THEN "serve" ELSE "none"]
    /\ qdev' = [qdev EXCEPT ![d] = IF NbdHolders(@) = {} THEN @ ELSE 0]
    /\ UNCHANGED <<cfg, diskVars, storeVars, queue, com, tgtVars, h, stVars>>

Exit(d) ==
    /\ qst[d] = "exit"
    /\ qst' = [qst EXCEPT ![d] = "none"]
    /\ qdev' = [qdev EXCEPT ![d] = 0]
    /\ UNCHANGED <<cfg, diskVars, storeVars, queue, com, tgtVars, h, stVars>>

Attaching == \E d \in Disks : Attach(d) \/ Exit(d) \/ \E n \in Devs : Execute(d, n)

\* qemu-img commit needs the child and the base to itself, and a base it can
\* write: a snapshot is read-only.
CommitBegin(d) ==
    /\ com[d] = "started"
    /\ IF /\ child[d] = "live" /\ ~ImgUsed(d)
          /\ \A w \in Stations : com[<<w, d[2]>>] # "running"
       THEN com' = [com EXCEPT ![d] = "running"] /\ outdate(d[2])
       ELSE com' = [com EXCEPT ![d] = "none"] /\ UNCHANGED snap
    /\ UNCHANGED <<cfg, diskVars, base, nbdVars, tgtVars, h, stVars>>

\* The commit is complete; qemu-img empties the child.
CommitEnd(d) ==
    /\ com[d] = "running"
    /\ com' = [com EXCEPT ![d] = "none"]
    /\ base' = [base EXCEPT ![d[2]] = @ \cup (delta[d] \cap Flaws)]
    /\ outdate(d[2])
    /\ delta' = [delta EXCEPT ![d] = {}]
    /\ UNCHANGED <<cfg, child, lock, nbdVars, tgtVars, h, stVars>>

-----------------------------------------------------------------------------
(***************************************************************************)
(* The stations.                                                           *)
(***************************************************************************)

\* The disks behind LUN i of station w, as its initiator finds them.
Seen(w, i) ==
    LET l == <<Tid[w], i>>
    IN  IF tgt[Tid[w]] = w /\ lun[l] # 0 /\ l \notin blank
        THEN {d \in Disks : qst[d] = "serve" /\ qdev[d] = lun[l]} ELSE {}

\* sanboot from the first LUN, or give up.
SanBoot(w) ==
    /\ st[w] = "ready"
    /\ st' = [st EXCEPT ![w] = IF Seen(w, 1) # {} THEN "on" ELSE "off"]
    /\ smode' = [smode EXCEPT ![w] = IF Seen(w, 1) # {} THEN @ ELSE {}]
    /\ UNCHANGED <<cfg, diskVars, storeVars, nbdVars, com, tgtVars, h>>

\* A write goes to whatever disk is behind the LUN.
Write(w, i) ==
    /\ st[w] = "on"
    /\ Seen(w, i) # {}
    /\ delta' = [d \in Disks |-> IF d \in Seen(w, i)
                    THEN delta[d] \cup {IF i \in smode[w] THEN "super" ELSE "normal"}
                    ELSE delta[d]]
    /\ UNCHANGED <<cfg, child, lock, storeVars, nbdVars, com, tgtVars, h, stVars>>

\* Reset or power off, at any time; a pending answer no longer reaches it.
PowerOff(w) ==
    /\ st[w] # "off"
    /\ st' = [st EXCEPT ![w] = "off"]
    /\ smode' = [smode EXCEPT ![w] = {}]
    /\ h' = [p \in Workers |-> IF h[p].ws = w THEN [h[p] EXCEPT !.live = FALSE]
                               ELSE h[p]]
    /\ UNCHANGED <<cfg, diskVars, storeVars, nbdVars, com, tgtVars>>

Station(w) == SanBoot(w) \/ PowerOff(w) \/ \E i \in Images : Write(w, i)

Request(p, w) ==
    \/ GetBootArgs(p, w)
    \/ /\ w \in Supers
       /\ \/ \E imgs \in SUBSET Images : SuperTrue(p, w, imgs)
          \/ DisableUncommit(p, w) \/ DisableCommitPoint(p, w) \/ DisableCommit(p, w)

Step(p) == BootStep(p) \/ CommitStep(p)

Committing == \E d \in Disks : CommitBegin(d) \/ CommitEnd(d)

Next ==
    \/ \E p \in Workers : Step(p) \/ Crash(p) \/ \E w \in Stations : Request(p, w)
    \/ Attaching \/ Committing
    \/ \E d \in Disks, n \in Devs : Lose(d, n)
    \/ \E w \in Stations : Station(w)

\* A worker runs its handler, nsbootd and qemu-nbd do what they were told, a
\* commit ends.  Nobody has to send a request, to write or to switch off.
Fairness ==
    /\ \A p \in Workers : WF_vars(Step(p))
    /\ WF_vars(Attaching) /\ WF_vars(Committing)

Spec == Init /\ [][Next]_vars
FairSpec == Spec /\ Fairness

-----------------------------------------------------------------------------
(***************************************************************************)
(* Properties.                                                             *)
(***************************************************************************)

\* A LUN that nbdConnect and LunAdd made for image i of station w shows the
\* child of w and i, or nothing, whoever else searched for a device meanwhile.
OwnDisk == \A w \in Stations, i \in Images : Seen(w, i) \subseteq {<<w, i>>}

\* "Just restart your computer and the system state will return": when the
\* boot request has been answered, an image that is not in super mode shows
\* an empty child over a snapshot, nothing written before the restart.
RestartRestores ==
    \A w \in Stations : st[w] = "ready" =>
        \A i \in Images \ smode[w] : \A d \in Seen(w, i) :
            child[d] = "snap" /\ delta[d] = {}

\* "No unauthorized changes": nothing a station wrote outside super mode gets
\* into a base image, through whatever sequence of commits.
NoUnauthorizedChanges == \A i \in Images : "normal" \notin base[i]

\* Whatever the page does to the mode of a running station, an image it booted in
\* normal mode stays a child over a snapshot: what it writes has no way into the
\* base, and a commit of the disk it uses cannot succeed.
NormalOffBase ==
    \A w \in Stations : st[w] = "on" =>
        \A i \in Images \ smode[w] : \A d \in Seen(w, i) : child[d] = "snap"

\* When LunAdd has answered, every disk of a normal boot is there, the station's
\* own one: no lun.add was refused, and none made a LUN of size 0.
AnswerHasDisks ==
    [][\A w \in Stations : (st[w] = "wait" /\ st'[w] = "ready") =>
         \A i \in Images \ smode'[w] :
            ImgType[i] # "iso" => Seen(w, i)' = {<<w, i>>}]_vars

\* What was written to an image in super mode survives reboots of the station:
\* as long as the mode is on, no step empties the locked child, except the end
\* of its commit.
SuperKept ==
    [][\A w \in Stations, i \in Images :
         (/\ cfg[w].supper /\ i \in cfg[w].commit
          /\ cfg'[w] = cfg[w]
          /\ <<w, i>> \in lock
          /\ "super" \in delta[<<w, i>>]
          /\ "super" \notin delta'[<<w, i>>])
         => com[<<w, i>>] = "running"]_vars

\* Every boot works on a new snapshot: umount and zfs destroy never find the old
\* one busy, so a machine never starts from a base older than its boot request.
SnapshotIsNew ==
    [][\A p \in Workers :
         (h[p].pc = "snap" /\ h'[p].pc = "mk") =>
            \A i \in Images : ImgType[i] # "iso" => snap'[<<h[p].ws, i>>] = "fresh"]_vars

\* search_nbd always finds a device when there is one per disk: no sequence of
\* boots, crashes and super-mode requests leaks devices.
DeviceFound == \A p \in Workers : h[p].pc = "search" => FreeDevs # {}

\* With target ids of one digit, a different one for each station, every handler
\* comes to an end: none of the polling loops of mkChild, nbdConnect and LunAdd
\* waits for something that nobody does.  The exception is the station that is
\* disabled: its target never appears, and LunAdd keeps the worker.
Disabled(p) == h[p].pc = "tgt" /\ h[p].ws \notin Enabled
HandlersEnd ==
    \A p \in Workers : (h[p].pc # "idle") ~> (h[p].pc = "idle" \/ Disabled(p))

\* With concurrent boots, once no new request comes in, every handler ends
\* unless one of them hangs in nbdConnect, on a device that tgtd has opened since
\* search_nbd returned it.  That one can also keep a later handler of the same
\* station from ending: it stops the target that LunAdd waits for.
Quiet == <>[][\A p \in Workers : h[p].pc = "idle" => h'[p].pc = "idle"]_vars
HangsOnlyOnLun ==
    Quiet => <>[](\/ \A p \in Workers : h[p].pc = "idle"
                  \/ \E p \in Workers : h[p].pc = "connect" /\ TgtHolds(Nbd(p)))

\* "Commited": a commit that has started is never cut off, which would leave the
\* base image half written.
BaseWhole == \A i \in Images : "broken" \notin base[i]
=============================================================================
