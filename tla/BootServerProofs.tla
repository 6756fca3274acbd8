-------------------------- MODULE BootServerProofs --------------------------
(***************************************************************************)
(* What holds of BootServer for every number of stations, images and       *)
(* devices, with commands delayed or lost and workers killed: first for    *)
(* every number of workers, then for one.                                  *)
(***************************************************************************)
EXTENDS BootServer, TLAPS

\* The part of TypeOK about the handlers.
HandlersOK ==
    /\ h \in [Workers -> Handler]
    /\ \A p \in Workers : h[p].pc # "idle" => h[p].ws \in Stations

\* The images are walked up to the last one.
LEMMA LastImage ==
    ASSUME NEW i \in Images
    PROVE  i < NImages \/ i = NImages
BY BootAssumption DEF Images

\* The images of a station are numbered from 1 to NImages ...
LEMMA ImageOrder ==
    ASSUME NEW i \in Images, NEW j \in Images
    PROVE  /\ i <= i /\ ~(i < 1) /\ i <= NImages
           /\ i < j => i # j
           /\ i < j + 1 => i < j \/ i = j
           /\ j + 1 <= i => j <= i /\ i # j
BY BootAssumption DEF Images

\* ... and each is a disk of its own.
LEMMA ImageDisk ==
    ASSUME NEW w \in Stations, NEW i \in Images
    PROVE  <<w, i>> \in Disks /\ \A j : i # j => <<w, i>> # <<w, j>>
BY DEF Disks

\* A worker between two requests is a well-formed handler.
LEMMA IdleType == Idle \in Handler /\ Idle.pc = "idle"
BY BootAssumption
   DEF Idle, Handler, Pcs, NoDevs, Images, AllNormal, NormalMode, Settings

\* The three ways in which a handler moves on: to another place ...
LEMMA GotoType ==
    ASSUME HandlersOK, NEW p \in Workers, NEW pc \in Pcs,
           h[p].pc # "idle", Goto(p, pc)
    PROVE  HandlersOK'
BY ZenonT(30) DEF HandlersOK, Goto, Handler

\* ... to the next image of a loop or behind the loop ...
LEMMA TurnedType ==
    ASSUME NEW r \in Handler, NEW again \in Pcs, NEW after \in Pcs
    PROVE  /\ Turned(r, again, after) \in Handler
           /\ Turned(r, again, after).ws = r.ws /\ Turned(r, again, after).super = r.super
           /\ \/ Turned(r, again, after).pc = again
              \/ Turned(r, again, after).pc = after
<1>1. r.img \in Images
    BY DEF Handler
<1>2. CASE r.img < NImages
  <2>1. r.img + 1 \in Images
    BY <1>1, <1>2, BootAssumption DEF Images
  <2>2. Turned(r, again, after) = [r EXCEPT !.pc = again, !.img = r.img + 1]
    BY <1>2 DEF Turned
  <2> QED BY Zenon, <2>1, <2>2 DEF Handler
<1>3. CASE ~(r.img < NImages)
  <2>1. 1 \in Images
    BY BootAssumption DEF Images
  <2>2. Turned(r, again, after) = [r EXCEPT !.pc = after, !.img = 1]
    BY <1>3 DEF Turned
  <2> QED BY Zenon, <2>1, <2>2 DEF Handler
<1> QED BY <1>2, <1>3

LEMMA NextImageType ==
    ASSUME HandlersOK, NEW p \in Workers, NEW again \in Pcs, NEW after \in Pcs,
           h[p].pc # "idle", NextImage(p, again, after)
    PROVE  HandlersOK'
<1> DEFINE new == Turned(h[p], again, after)
<1>1. new \in Handler /\ new.ws = h[p].ws
    BY Zenon, TurnedType DEF HandlersOK
<1>2. h' = [h EXCEPT ![p] = new]
    BY DEF NextImage
<1> HIDE DEF new
<1> QED BY Zenon, <1>1, <1>2 DEF HandlersOK

\* (disableCommit also notes whose commit it has started) ...
LEMMA CommitStartMoves ==
    ASSUME HandlersOK, NEW p \in Workers, CommitStart(p)
    PROVE  \E new \in Handler : /\ h' = [h EXCEPT ![p] = new] /\ h'[p] = new
                                /\ new.ws = h[p].ws /\ new.pc \in {"cstop", "csave"}
<1> DEFINE r == Turned(h[p], "cstop", "csave")
           super == IF com[Disk(p)] = "none" THEN r.super \cup {h[p].img} ELSE r.super
           new == [r EXCEPT !.super = super]
<1>1. h[p] \in Handler
    BY Zenon DEF HandlersOK
<1>2. h[p].img \in Images /\ h[p].super \in SUBSET Images
    BY <1>1 DEF Handler
<1>3. "cstop" \in Pcs /\ "csave" \in Pcs
    BY DEF Pcs
<1>4. /\ r \in Handler /\ r.ws = h[p].ws /\ r.super = h[p].super
      /\ r.pc = "cstop" \/ r.pc = "csave"
    BY Zenon, <1>1, <1>3, TurnedType
<1>5. h' = [h EXCEPT ![p] = new]
    BY DEF CommitStart
<1> HIDE DEF r
<1>6. super \in SUBSET Images
    BY Zenon, <1>2, <1>4
<1> HIDE DEF super
<1>7. new \in Handler /\ new.ws = r.ws /\ new.pc = r.pc
    BY <1>4, <1>6 DEF Handler
<1> HIDE DEF new
<1> QED BY Zenon, <1>4, <1>5, <1>7 DEF HandlersOK

\* ... or to the end of its request.
LEMMA ToIdleType ==
    ASSUME HandlersOK, NEW p \in Workers, h' = [h EXCEPT ![p] = Idle]
    PROVE  HandlersOK'
BY IdleType DEF HandlersOK

\* Everything but the handlers.
SystemOK ==
    /\ cfg \in [Stations -> Settings]
    /\ child \in [Disks -> {"none", "live", "snap"}]
    /\ delta \in [Disks -> SUBSET Written]
    /\ lock \subseteq Disks
    /\ base \in [Images -> SUBSET Flaws]
    /\ snap \in [Disks -> {"none", "fresh", "old"}]
    /\ qst \in [Disks -> {"none", "open", "serve", "exit"}]
    /\ qdev \in [Disks -> 0..NbdNbds]
    /\ queue \subseteq Disks \X Devs
    /\ com \in [Disks -> {"none", "started", "running"}]
    /\ tgt \in [Tids -> Stations \cup {None}]
    /\ lun \in [Tids \X Images -> 0..NbdNbds]
    /\ blank \subseteq Tids \X Images
    /\ st \in [Stations -> {"off", "wait", "ready", "on"}]
    /\ smode \in [Stations -> SUBSET Images]

Types == SystemOK /\ HandlersOK

\* The effects shared by several actions.
LEMMA TgtStopType ==
    ASSUME SystemOK, NEW w \in Stations, tgtstop(w)
    PROVE  /\ tgt' \in [Tids -> Stations \cup {None}]
           /\ lun' \in [Tids \X Images -> 0..NbdNbds]
           /\ blank' \subseteq Tids \X Images
<1>1. 0 \in 0..NbdNbds /\ Tid[w] \in Tids
    BY BootAssumption DEF Tids
<1>2. tgt' \in [Tids -> Stations \cup {None}]
    BY <1>1 DEF SystemOK, tgtstop
<1>3. lun' \in [Tids \X Images -> 0..NbdNbds]
    BY <1>1 DEF SystemOK, tgtstop
<1>4. blank' \subseteq Tids \X Images
    BY DEF SystemOK, tgtstop
<1> QED BY <1>2, <1>3, <1>4

\* qemu-nbd -d on a set of children.
LEMMA DisconnectType ==
    ASSUME SystemOK, NEW ds, nbdDisconnect(ds)
    PROVE  qst' \in [Disks -> {"none", "open", "serve", "exit"}]
BY DEF SystemOK, nbdDisconnect

\* kill -9 on the holders of a child (lsofkill).
LEMMA KillType ==
    ASSUME SystemOK, NEW d \in Disks, lsofkill(d)
    PROVE  /\ qst' \in [Disks -> {"none", "open", "serve", "exit"}]
           /\ qdev' \in [Disks -> 0..NbdNbds]
           /\ com' \in [Disks -> {"none", "started", "running"}]
           /\ base' \in [Images -> SUBSET Flaws]
<1>1. 0 \in 0..NbdNbds
    BY BootAssumption
<1>2. d[2] \in Images
    BY DEF Disks
<1>3. base' \in [Images -> SUBSET Flaws]
    BY <1>2 DEF SystemOK, lsofkill, Flaws
<1> QED BY <1>1, <1>3 DEF SystemOK, lsofkill

\* What search_nbd returns is a device or nil.
LEMMA SearchType ==
    ASSUME HandlersOK, NEW p \in Workers, h[p].pc # "idle", Search(p)
    PROVE  HandlersOK'
<1>1. PICK n \in 0..NbdNbds :
        h' = [h EXCEPT ![p].pc = "connect", ![p].dev[h[p].img] = n]
    BY Zenon DEF Search
<1>2. /\ h[p] \in Handler /\ h[p].img \in Images
      /\ [h[p].dev EXCEPT ![h[p].img] = n] \in [Images -> 0..NbdNbds]
    BY DEF HandlersOK, Handler
<1>3. h' = [h EXCEPT ![p] = [h[p] EXCEPT !.pc = "connect",
                             !.dev = [h[p].dev EXCEPT ![h[p].img] = n]]]
    BY Zenon, <1>1, <1>2 DEF HandlersOK, Handler
<1> DEFINE hp == [h[p] EXCEPT !.pc = "connect",
                              !.dev = [h[p].dev EXCEPT ![h[p].img] = n]]
<1>4. hp \in Handler /\ hp.ws = h[p].ws
    BY Zenon, <1>2 DEF Handler, Pcs
<1>5. h' = [h EXCEPT ![p] = hp]
    BY <1>3
<1> HIDE DEF hp
<1> QED BY <1>4, <1>5 DEF HandlersOK

\* A handler that has left "idle" works for a station.
LEMMA WsType ==
    ASSUME HandlersOK, NEW p \in Workers, h[p].pc # "idle"
    PROVE  /\ h[p].ws \in Stations /\ h[p].img \in Images
           /\ Disk(p) \in Disks /\ Tid[h[p].ws] \in Tids
           /\ h[p].super \subseteq Images /\ Nbd(p) \in 0..NbdNbds
BY DEF HandlersOK, Handler, Disk, Disks, Tids, Nbd

\* The steps of the boot request up to the new snapshots.
LEMMA FirstStepsType ==
    ASSUME Types, NEW p \in Workers,
           TgtStop(p) \/ NbdFree(p) \/ ZfsUnmount(p) \/ ZfsSnap(p)
    PROVE  Types'
<1> USE DEF At
<1>0. SystemOK /\ HandlersOK
    BY DEF Types
<1>1. CASE TgtStop(p)
  <2>1. h[p].ws \in Stations
    BY <1>0, <1>1, WsType DEF TgtStop
  <2>2. HandlersOK'
    BY <1>0, <1>1, GotoType DEF TgtStop, Pcs
  <2>3. SystemOK'
    BY <1>0, <1>1, <2>1, TgtStopType
       DEF TgtStop, SystemOK, diskVars, storeVars, nbdVars, stVars
  <2> QED BY <2>2, <2>3 DEF Types
<1>2. CASE NbdFree(p)
  <2>1. h[p].ws \in Stations
    BY <1>0, <1>2, WsType DEF NbdFree
  <2>2. HandlersOK'
    BY <1>0, <1>2, GotoType DEF NbdFree, Pcs
  <2>3. /\ tgt' \in [Tids -> Stations \cup {None}]
        /\ lun' \in [Tids \X Images -> 0..NbdNbds]
        /\ blank' \subseteq Tids \X Images
    <3>1. CASE tgtstop(h[p].ws)
      BY Zenon, <1>0, <2>1, <3>1, TgtStopType
    <3>2. CASE UNCHANGED tgtVars
      BY <1>0, <3>2 DEF SystemOK, tgtVars
    <3> QED BY <1>2, <3>1, <3>2 DEF NbdFree, nbdFree
  <2>4. qst' \in [Disks -> {"none", "open", "serve", "exit"}]
    BY <1>0, <1>2, DisconnectType DEF NbdFree, nbdFree
  <2>5. SystemOK'
    BY <1>0, <1>2, <2>3, <2>4
       DEF NbdFree, nbdFree, SystemOK, diskVars, storeVars, stVars
  <2> QED BY <2>2, <2>5 DEF Types
<1>3. CASE ZfsUnmount(p)
  <2>2. HandlersOK'
    BY <1>0, <1>3, GotoType DEF ZfsUnmount, Pcs
  <2>3. SystemOK'
    BY <1>0, <1>3 DEF ZfsUnmount, SystemOK, diskVars, nbdVars, tgtVars, stVars
  <2> QED BY <2>2, <2>3 DEF Types
<1>4. CASE ZfsSnap(p)
  <2>2. HandlersOK'
    BY <1>0, <1>4, GotoType DEF ZfsSnap, Pcs
  <2>3. SystemOK'
    BY <1>0, <1>4 DEF ZfsSnap, SystemOK, diskVars, nbdVars, tgtVars, stVars
  <2> QED BY <2>2, <2>3 DEF Types
<1> QED BY <1>1, <1>2, <1>3, <1>4

\* mkChild.
LEMMA MkChildType ==
    ASSUME Types, NEW p \in Workers, MkChild(p)
    PROVE  Types'
<1>0. SystemOK /\ HandlersOK /\ h[p].pc # "idle" /\ Disk(p) \in Disks
    BY WsType DEF Types, MkChild, At
<1>1. HandlersOK'
    BY Zenon, <1>0, GotoType, NextImageType
       DEF MkChild, MkNothing, MkReplace, MkFirst, MkKeep, MkFresh, Pcs
<1>2. ASSUME lsofkill(Disk(p)), delChild(Disk(p)), lock' \subseteq Disks
      PROVE  SystemOK'
  <2>1. /\ child' \in [Disks -> {"none", "live", "snap"}]
        /\ delta' \in [Disks -> SUBSET Written]
    BY <1>0, <1>2 DEF SystemOK, delChild
  <2> QED
    BY Zenon, <1>0, <1>2, <2>1, KillType DEF MkChild, SystemOK, tgtVars, stVars
<1>3. ASSUME UNCHANGED <<child, delta, base, qst, qdev, com>>, lock' \subseteq Disks
      PROVE  SystemOK'
    BY <1>0, <1>3 DEF MkChild, SystemOK, tgtVars, stVars
<1>4. lock \subseteq Disks /\ lock \cup {Disk(p)} \subseteq Disks
    BY <1>0 DEF SystemOK
<1>5. SystemOK'
    BY <1>2, <1>3, <1>4
       DEF MkChild, MkNothing, MkReplace, MkFirst, MkKeep, MkFresh, diskVars
<1> QED BY <1>1, <1>5 DEF Types

\* img.child, and the lock file that follows it.
LEMMA CreateType ==
    ASSUME Types, NEW p \in Workers, Create(p) \/ CreateLock(p)
    PROVE  Types'
<1>0. SystemOK /\ HandlersOK /\ h[p].pc # "idle" /\ Disk(p) \in Disks
    BY Zenon, WsType DEF Types, Create, CreateLock, At
<1>1. HandlersOK'
    BY Zenon, <1>0, GotoType, NextImageType DEF Create, CreateLock, Pcs
<1>2. CASE Create(p)
    BY Zenon, <1>0, <1>1, <1>2 DEF Types, Create, SystemOK, storeVars, nbdVars, tgtVars, stVars
<1>3. CASE CreateLock(p)
    BY Zenon, <1>0, <1>1, <1>3 DEF Types, CreateLock, SystemOK, storeVars, nbdVars, tgtVars, stVars
<1> QED BY <1>2, <1>3

\* nbdConnect.
LEMMA ConnectType ==
    ASSUME Types, NEW p \in Workers,
           Search(p) \/ ConnectBlocked(p) \/ Connect(p) \/ ConnectError(p)
    PROVE  Types'
<1>0. /\ SystemOK /\ HandlersOK /\ h[p].pc # "idle" /\ Disk(p) \in Disks
      /\ h[p].ws \in Stations /\ Nbd(p) \in 0..NbdNbds
    BY WsType DEF Types, Search, ConnectBlocked, Connect, ConnectError, At
<1>1. CASE Search(p)
  <2>1. SystemOK'
    BY <1>0, <1>1 DEF Search, SystemOK, diskVars, storeVars, nbdVars, tgtVars, stVars
  <2> QED BY <1>0, <1>1, <2>1, SearchType DEF Types
<1>2. CASE ConnectBlocked(p)
  <2>1. qst' \in [Disks -> {"none", "open", "serve", "exit"}]
    BY Zenon, <1>0, <1>2, DisconnectType DEF ConnectBlocked, SystemOK
  <2>2. /\ tgt' \in [Tids -> Stations \cup {None}]
        /\ lun' \in [Tids \X Images -> 0..NbdNbds]
        /\ blank' \subseteq Tids \X Images
    <3>1. CASE tgtstop(h[p].ws)
      BY Zenon, <1>0, <3>1, TgtStopType
    <3>2. CASE UNCHANGED tgtVars
      BY Zenon, <1>0, <3>2 DEF SystemOK, tgtVars
    <3> QED BY <1>2, <3>1, <3>2 DEF ConnectBlocked
  <2>3. SystemOK'
    BY Zenon, <1>0, <1>2, <2>1, <2>2
       DEF ConnectBlocked, SystemOK, diskVars, storeVars, stVars
  <2>4. HandlersOK'
    BY <1>0, <1>2 DEF ConnectBlocked, HandlersOK
  <2> QED BY <2>3, <2>4 DEF Types
<1>3. CASE Connect(p)
  <2>1. HandlersOK'
    BY Zenon, <1>0, <1>3, NextImageType DEF Connect, Pcs
  <2>2. Nbd(p) # 0 => Nbd(p) \in Devs
    BY <1>0, BootAssumption DEF Devs
  <2>3. queue' \subseteq Disks \X Devs
    BY <1>0, <1>3, <2>2 DEF Connect, SystemOK
  <2>4. SystemOK'
    BY Zenon, <1>0, <1>3, <2>3 DEF Connect, SystemOK, diskVars, storeVars, tgtVars, stVars
  <2> QED BY <2>1, <2>4 DEF Types
<1>4. CASE ConnectError(p)
  <2>1. HandlersOK'
    BY Zenon, <1>0, <1>4, ToIdleType DEF ConnectError, HangUp
  <2>2. SystemOK'
    BY Zenon, <1>0, <1>4
       DEF ConnectError, HangUp, SystemOK, diskVars, storeVars, nbdVars, tgtVars
  <2> QED BY <2>1, <2>2 DEF Types
<1> QED BY <1>1, <1>2, <1>3, <1>4

\* LunAdd.
LEMMA LunType ==
    ASSUME Types, NEW p \in Workers, TgtStart(p) \/ TgtStarted(p) \/ LunAdd(p)
    PROVE  Types'
<1>0. /\ SystemOK /\ HandlersOK /\ h[p].pc # "idle" /\ Tid[h[p].ws] \in Tids
      /\ h[p].ws \in Stations /\ h[p].img \in Images /\ Nbd(p) \in 0..NbdNbds
      /\ h[p].super \subseteq Images
    BY Zenon, WsType DEF Types, TgtStart, TgtStarted, LunAdd, At
<1>1. CASE TgtStart(p)
  <2>1. tgt' \in [Tids -> Stations \cup {None}]
    BY Zenon, <1>0, <1>1 DEF TgtStart, SystemOK
  <2>2. SystemOK'
    BY Zenon, <1>0, <1>1, <2>1 DEF TgtStart, SystemOK, diskVars, storeVars, nbdVars, stVars
  <2>3. HandlersOK'
    BY Zenon, <1>0, <1>1 DEF TgtStart, HandlersOK
  <2> QED BY <2>2, <2>3 DEF Types
<1>2. CASE TgtStarted(p)
  <2>1. HandlersOK'
    BY Zenon, <1>0, <1>2, GotoType DEF TgtStarted, Pcs
  <2>2. SystemOK'
    BY Zenon, <1>0, <1>2
       DEF TgtStarted, SystemOK, diskVars, storeVars, nbdVars, tgtVars, stVars
  <2> QED BY <2>1, <2>2 DEF Types
<1>3. CASE LunAdd(p)
  <2>1. HandlersOK'
    BY Zenon, <1>0, <1>3, NextImageType, ToIdleType DEF LunAdd, LunDone, Pcs
  <2>2. /\ st' \in [Stations -> {"off", "wait", "ready", "on"}]
        /\ smode' \in [Stations -> SUBSET Images]
    BY Zenon, <1>0, <1>3 DEF LunAdd, LunDone, stVars, SystemOK
  <2>3. <<Tid[h[p].ws], h[p].img>> \in Tids \X Images
    BY <1>0
  <2>4. /\ lun' \in [Tids \X Images -> 0..NbdNbds]
        /\ blank' \subseteq Tids \X Images
    <3> DEFINE l == <<Tid[h[p].ws], h[p].img>>
    <3>1. \/ UNCHANGED <<lun, blank>>
          \/ /\ lun' = [lun EXCEPT ![l] = Nbd(p)]
             /\ blank' = blank \/ blank' = blank \cup {l}
      BY Zenon, <1>3 DEF LunAdd
    <3>2. l \in Tids \X Images /\ Nbd(p) \in 0..NbdNbds
      BY <1>0, <2>3
    <3>3. lun \in [Tids \X Images -> 0..NbdNbds] /\ blank \subseteq Tids \X Images
      BY <1>0 DEF SystemOK
    <3> HIDE DEF l
    <3> QED BY <3>1, <3>2, <3>3
  <2>5. SystemOK'
    BY Zenon, <1>0, <1>3, <2>2, <2>4 DEF LunAdd, SystemOK, diskVars, storeVars, nbdVars
  <2> QED BY <2>1, <2>5 DEF Types
<1> QED BY <1>1, <1>2, <1>3

\* The requests of stations and of the web page.
LEMMA RequestType ==
    ASSUME Types, NEW p \in Workers, NEW w \in Stations, Request(p, w)
    PROVE  Types'
<1> DEFINE super == IF cfg[w].supper THEN cfg[w].commit ELSE {}
<1>0. SystemOK /\ HandlersOK /\ super \subseteq Images /\ cfg[w] \in Settings
    BY DEF Types, SystemOK, Settings
<1>1. ASSUME NEW pc \in Pcs, NEW live \in BOOLEAN,
             h' = [h EXCEPT ![p] = [Idle EXCEPT !.pc = pc, !.ws = w, !.live = live,
                                                !.super = super]]
      PROVE  HandlersOK'
  <2>1. [Idle EXCEPT !.pc = pc, !.ws = w, !.live = live, !.super = super] \in Handler
    BY Zenon, <1>0, IdleType DEF Handler
  <2>2. [Idle EXCEPT !.pc = pc, !.ws = w, !.live = live, !.super = super].ws = w
    BY IdleType DEF Handler
  <2> QED BY <1>0, <1>1, <2>1, <2>2 DEF HandlersOK
<1>2. CASE GetBootArgs(p, w)
  <2>1. HandlersOK'
    BY Zenon, <1>1, <1>2 DEF GetBootArgs, Pcs
  <2>2. SystemOK'
    BY <1>0, <1>2
       DEF GetBootArgs, SystemOK, diskVars, storeVars, nbdVars, tgtVars
  <2> QED BY <2>1, <2>2 DEF Types
<1>3. CASE DisableCommit(p, w)
  <2>1. /\ [Idle EXCEPT !.pc = "cstop", !.ws = w, !.cfg = cfg] \in Handler
        /\ [Idle EXCEPT !.pc = "cstop", !.ws = w, !.cfg = cfg].ws = w
    BY Zenon, <1>0, IdleType DEF Handler, Pcs, SystemOK
  <2>2. HandlersOK'
    BY <1>0, <1>3, <2>1 DEF DisableCommit, HandlersOK
  <2>3. SystemOK'
    BY <1>0, <1>3
       DEF DisableCommit, SystemOK, diskVars, storeVars, nbdVars, tgtVars, stVars
  <2> QED BY <2>2, <2>3 DEF Types
<1>4. ASSUME NEW imgs \in SUBSET Images, SuperTrue(p, w, imgs) PROVE Types'
  <2>0. [supper |-> TRUE, commit |-> cfg[w].commit \cup imgs] \in Settings
    BY <1>0 DEF Settings
  <2>1. cfg' \in [Stations -> Settings]
    BY <1>0, <1>4, <2>0 DEF SuperTrue, SystemOK
  <2>2. SystemOK' /\ HandlersOK'
    BY Zenon, <1>0, <1>4, <2>1 DEF SuperTrue, SystemOK, HandlersOK,
                            diskVars, storeVars, nbdVars, tgtVars, stVars
  <2> QED BY <2>2 DEF Types
<1>5. CASE DisableUncommit(p, w) \/ DisableCommitPoint(p, w)
  <2>0. NormalMode \in Settings
    BY DEF NormalMode, Settings
  <2>1. cfg' \in [Stations -> Settings]
    <3>1. cfg' = [cfg EXCEPT ![w] = NormalMode] /\ cfg \in [Stations -> Settings]
      BY Zenon, <1>0, <1>5 DEF DisableUncommit, DisableCommitPoint, SystemOK
    <3> QED BY <2>0, <3>1
  <2>2. delta' \in [Disks -> SUBSET Written]
    <3>1. CASE UNCHANGED delta
      BY Zenon, <1>0, <3>1 DEF SystemOK
    <3>2. CASE DisableUncommit(p, w)
      <4>1. \A d \in Disks : delta[d] \in SUBSET Written
        BY Zenon, <1>0 DEF SystemOK
      <4>2. \A d \in Disks : (delta[d] \ {"super"}) \cup {"discarded"} \in SUBSET Written
        BY <4>1 DEF Written
      <4> QED BY Zenon, <3>2, <4>1, <4>2 DEF DisableUncommit
    <3> QED BY Zenon, <1>5, <3>1, <3>2 DEF DisableCommitPoint, diskVars
  <2>3. HandlersOK'
    BY Zenon, <1>0, <1>5 DEF DisableUncommit, DisableCommitPoint, HandlersOK
  <2>4. SystemOK'
    <3>1. CASE DisableUncommit(p, w)
      BY Zenon, <1>0, <2>1, <2>2, <3>1
         DEF DisableUncommit, SystemOK, storeVars, nbdVars, tgtVars, stVars
    <3>2. CASE DisableCommitPoint(p, w)
      BY Zenon, <1>0, <2>1, <2>2, <3>2
         DEF DisableCommitPoint, SystemOK, diskVars, storeVars, nbdVars, tgtVars, stVars
    <3> QED BY Zenon, <1>5, <3>1, <3>2
  <2> QED BY <2>3, <2>4 DEF Types
<1> QED BY <1>2, <1>3, <1>4, <1>5 DEF Request

\* The steps of the commit request, and a worker that is killed.
LEMMA CommitType ==
    ASSUME Types, NEW p \in Workers, CommitStep(p) \/ Crash(p)
    PROVE  Types'
<1>0. /\ SystemOK /\ HandlersOK /\ h[p].pc # "idle" /\ Disk(p) \in Disks
      /\ h[p].ws \in Stations
    BY Zenon, WsType DEF Types, CommitStep, CommitStop, CommitStart, CommitSave, CommitWait, At, Crash
<1>1. CASE CommitStop(p)
  <2>1. HandlersOK'
    BY Zenon, <1>0, <1>1, GotoType, NextImageType DEF CommitStop, Pcs
  <2>2. qst' \in [Disks -> {"none", "open", "serve", "exit"}]
    BY Zenon, <1>0, <1>1, DisconnectType DEF CommitStop, SystemOK
  <2>3. /\ tgt' \in [Tids -> Stations \cup {None}]
        /\ lun' \in [Tids \X Images -> 0..NbdNbds]
        /\ blank' \subseteq Tids \X Images
    <3>1. CASE tgtstop(h[p].ws)
      BY Zenon, <1>0, <3>1, TgtStopType
    <3>2. CASE UNCHANGED tgtVars
      BY Zenon, <1>0, <3>2 DEF SystemOK, tgtVars
    <3> QED BY Zenon, <1>1, <3>1, <3>2 DEF CommitStop
  <2>4. SystemOK'
    BY Zenon, <1>0, <1>1, <2>2, <2>3 DEF CommitStop, SystemOK, diskVars, storeVars, stVars
  <2> QED BY <2>1, <2>4 DEF Types
<1>2. CASE CommitStart(p)
  <2>1. HandlersOK'
    BY Zenon, <1>0, <1>2, CommitStartMoves DEF HandlersOK
  <2>2. SystemOK'
    BY Zenon, <1>0, <1>2
       DEF CommitStart, SystemOK, diskVars, storeVars, nbdVars, tgtVars, stVars
  <2> QED BY <2>1, <2>2 DEF Types
<1>3. CASE CommitSave(p)
  <2>1. HandlersOK'
    BY Zenon, <1>0, <1>3, GotoType DEF CommitSave, Pcs
  <2>0. NormalMode \in Settings
    BY DEF NormalMode, Settings
  <2>2. h[p].cfg \in [Stations -> Settings]
    BY <1>0 DEF HandlersOK, Handler
  <2>3. SystemOK'
    BY Zenon, <1>0, <1>3, <2>0, <2>2 DEF CommitSave, SystemOK,
                      diskVars, storeVars, nbdVars, tgtVars, stVars
  <2> QED BY <2>1, <2>3 DEF Types
<1>4. CASE Crash(p)
  <2>1. HandlersOK'
    BY Zenon, <1>0, <1>4, ToIdleType DEF Crash, HangUp
  <2>2. SystemOK'
    BY <1>0, <1>4 DEF Crash, HangUp, SystemOK, diskVars, storeVars, nbdVars, tgtVars
  <2> QED BY <2>1, <2>2 DEF Types
<1>5. CASE CommitWait(p)
  <2>1. HandlersOK'
    BY Zenon, <1>0, <1>5, ToIdleType DEF CommitWait
  <2>2. SystemOK'
    BY Zenon, <1>0, <1>5
       DEF CommitWait, SystemOK, diskVars, storeVars, nbdVars, tgtVars, stVars
  <2> QED BY <2>1, <2>2 DEF Types
<1> QED BY <1>1, <1>2, <1>3, <1>4, <1>5 DEF CommitStep

\* nsbootd, qemu-nbd and qemu-img.
LEMMA ProgramsType ==
    ASSUME Types, NEW d \in Disks,
           \/ Attach(d) \/ Exit(d) \/ CommitBegin(d) \/ CommitEnd(d)
           \/ \E n \in Devs : Execute(d, n) \/ Lose(d, n)
    PROVE  Types'
<1>0. SystemOK /\ HandlersOK /\ d[2] \in Images /\ 0 \in 0..NbdNbds
    BY BootAssumption DEF Types, Disks
<1>1. HandlersOK'
    BY Zenon, <1>0 DEF HandlersOK, Attach, Exit, CommitBegin, CommitEnd, Execute, Lose
<1> USE DEF SystemOK, diskVars, storeVars, nbdVars, tgtVars, stVars
<1>2. CASE Attach(d)
    BY Zenon, <1>0, <1>1, <1>2 DEF Types, Attach
<1>3. CASE Exit(d)
    BY Zenon, <1>0, <1>1, <1>3 DEF Types, Exit
<1>4. CASE CommitBegin(d)
  <2>1. com' \in [Disks -> {"none", "started", "running"}]
    BY <1>0, <1>4 DEF CommitBegin
  <2>2. snap' \in [Disks -> {"none", "fresh", "old"}]
    <3>1. CASE UNCHANGED snap
      BY <1>0, <3>1
    <3>2. CASE outdate(d[2])
      BY <1>0, <3>2 DEF outdate
    <3> QED BY Zenon, <1>4, <3>1, <3>2 DEF CommitBegin
  <2>3. UNCHANGED <<cfg, diskVars, base, nbdVars, tgtVars, stVars>>
    BY Zenon, <1>4 DEF CommitBegin
  <2> QED BY Zenon, <1>0, <1>1, <2>1, <2>2, <2>3 DEF Types
<1>5. CASE CommitEnd(d)
  <2>1. base' \in [Images -> SUBSET Flaws]
    BY <1>0, <1>5 DEF CommitEnd
  <2>2. snap' \in [Disks -> {"none", "fresh", "old"}]
    BY <1>0, <1>5 DEF CommitEnd, outdate
  <2>3. com' \in [Disks -> {"none", "started", "running"}]
        /\ delta' \in [Disks -> SUBSET Written]
    BY <1>0, <1>5 DEF CommitEnd
  <2>4. UNCHANGED <<cfg, child, lock, nbdVars, tgtVars, stVars>>
    BY <1>5 DEF CommitEnd
  <2> QED BY Zenon, <1>0, <1>1, <2>1, <2>2, <2>3, <2>4 DEF Types
<1>6. ASSUME NEW n \in Devs, Execute(d, n) \/ Lose(d, n) PROVE Types'
  <2>1. n \in 0..NbdNbds
    BY BootAssumption DEF Devs
  <2>2. queue' \subseteq Disks \X Devs
    BY Zenon, <1>0, <1>6 DEF Execute, Lose
  <2>3. qst' \in [Disks -> {"none", "open", "serve", "exit"}]
    BY Zenon, <1>0, <1>6 DEF Execute, Lose
  <2>4. qdev' \in [Disks -> 0..NbdNbds]
    <3>1. qdev' = qdev \/ qdev' = [qdev EXCEPT ![d] = n]
      BY Zenon, <1>6 DEF Execute, Lose
    <3> QED BY Zenon, <1>0, <2>1, <3>1
  <2>5. UNCHANGED <<cfg, diskVars, storeVars, com, tgtVars, stVars>>
    BY Zenon, <1>6 DEF Execute, Lose
  <2> QED BY Zenon, <1>0, <1>1, <2>2, <2>3, <2>4, <2>5 DEF Types
<1> QED BY <1>2, <1>3, <1>4, <1>5, <1>6

\* The stations.
LEMMA StationType ==
    ASSUME Types, NEW w \in Stations, Station(w)
    PROVE  Types'
<1>0. SystemOK /\ HandlersOK
    BY DEF Types
<1> USE DEF SystemOK, diskVars, storeVars, nbdVars, tgtVars, stVars
<1>1. CASE SanBoot(w)
    BY <1>0, <1>1 DEF Types, SanBoot, HandlersOK
<1>2. CASE PowerOff(w)
  <2>1. ASSUME NEW p \in Workers
        PROVE  h'[p] \in Handler /\ h'[p].pc = h[p].pc /\ h'[p].ws = h[p].ws
    <3>1. h[p] \in Handler
      BY <1>0 DEF HandlersOK
    <3>2. h'[p] = [h[p] EXCEPT !.live = FALSE] \/ h'[p] = h[p]
      BY <1>2 DEF PowerOff
    <3> QED BY Zenon, <3>1, <3>2 DEF Handler
  <2>2. h' = [p \in Workers |-> h'[p]]
    BY <1>2 DEF PowerOff
  <2>3. HandlersOK'
    BY <1>0, <2>1, <2>2 DEF HandlersOK
  <2> QED BY <1>0, <1>2, <2>3 DEF Types, PowerOff
<1>3. ASSUME NEW i \in Images, Write(w, i) PROVE Types'
  <2>1. delta' \in [Disks -> SUBSET Written]
    BY <1>0, <1>3 DEF Write, Written
  <2> QED BY Zenon, <1>0, <1>3, <2>1 DEF Types, Write, HandlersOK
<1> QED BY <1>1, <1>2, <1>3 DEF Station

-----------------------------------------------------------------------------

\* The server starts with well-formed state ...
LEMMA TypingInit == Init => Types
<1> SUFFICES ASSUME Init PROVE Types
    OBVIOUS
<1>1. HandlersOK
    BY IdleType DEF Init, HandlersOK
<1>2. AllNormal \in [Stations -> Settings]
    BY Zenon DEF AllNormal, NormalMode, Settings
<1>3. SystemOK
    BY <1>2, BootAssumption DEF Init, SystemOK, Written, Flaws, Devs
<1> QED BY <1>1, <1>3 DEF Types

\* ... and every step of a handler, program or station keeps it so.
LEMMA TypingStep == Types /\ [Next]_vars => Types'
<1> SUFFICES ASSUME Types, [Next]_vars PROVE Types'
    OBVIOUS
<1>1. CASE UNCHANGED vars
    BY <1>1 DEF vars, Types, SystemOK, HandlersOK,
                diskVars, storeVars, nbdVars, tgtVars, stVars
<1>2. ASSUME NEW p \in Workers, BootStep(p) PROVE Types'
    BY <1>2, FirstStepsType, MkChildType, CreateType, ConnectType, LunType DEF BootStep
<1>3. ASSUME NEW p \in Workers, CommitStep(p) \/ Crash(p) PROVE Types'
    BY <1>3, CommitType
<1>4. ASSUME NEW p \in Workers, NEW w \in Stations, Request(p, w) PROVE Types'
    BY <1>4, RequestType
<1>5. CASE Attaching \/ Committing \/ \E d \in Disks, n \in Devs : Lose(d, n)
    BY <1>5, ProgramsType DEF Attaching, Committing
<1>6. ASSUME NEW w \in Stations, Station(w) PROVE Types'
    BY <1>6, StationType
<1> QED BY <1>1, <1>2, <1>3, <1>4, <1>5, <1>6 DEF Next, Step

\* The state of the server stays well formed: for instance no handler without a
\* station, no LUN on a device that does not exist, whatever is lost or killed.
THEOREM Typing == Spec => []TypeOK
<1>1. Spec => []Types
    BY TypingInit, TypingStep, PTL DEF Spec
<1>2. Types => TypeOK
    BY DEF Types, SystemOK, HandlersOK, TypeOK
<1> QED BY <1>1, <1>2, PTL

-----------------------------------------------------------------------------
(***************************************************************************)
(* What is in which child, when one nginx worker serves all requests.      *)
(*                                                                         *)
(* First what holds wherever the writes of the stations go: the work of    *)
(* super mode is kept (WorkKept).  Then what holds as long as a station    *)
(* sees its own disk behind each LUN (OwnDisk): a restart restores the     *)
(* image, and nothing written in normal mode gets into a base image.       *)
(* BootDeviceProofs says when OwnDisk itself holds, for many stations;     *)
(* with one exported disk it always does (end of this module).             *)
(*                                                                         *)
(* One worker is needed: the runs restart_race and unauthorized_retry show *)
(* what two of them do to RestartRestores and to NoUnauthorizedChanges.    *)
(***************************************************************************)
OneWorker == \E p : Workers = {p}

Exported(i) == ImgType[i] # "iso"

BootPcs == {"stop", "free", "zfree", "unmount", "snap", "mk", "create",
            "replace", "lock", "search", "connect", "tgt", "lun"}

\* A handler moves on within its request.
SameRequest(p) ==
    /\ h'[p].ws = h[p].ws /\ h'[p].dev = h[p].dev
    /\ h'[p].super = h[p].super /\ h'[p].live = h[p].live

\* What Goto does to it ...
LEMMA GotoMoves ==
    ASSUME HandlersOK, NEW p \in Workers, NEW pc, Goto(p, pc)
    PROVE  SameRequest(p) /\ h'[p].pc = pc /\ h'[p].img = h[p].img
BY DEF HandlersOK, Handler, Goto, SameRequest

\* ... and what the loops over the images do.
LEMMA NextImageMoves ==
    ASSUME HandlersOK, NEW p \in Workers, NEW again, NEW after, NextImage(p, again, after)
    PROVE  /\ SameRequest(p)
           /\ \/ h'[p].pc = again /\ h[p].img < NImages /\ h'[p].img = h[p].img + 1
              \/ h'[p].pc = after /\ h[p].img = NImages /\ h'[p].img = 1
<1>1. h[p] \in Handler /\ h[p].img \in 1..NImages
    BY DEF HandlersOK, Handler, Images
<1>2. CASE h[p].img < NImages
  <2>1. h'[p] = [h[p] EXCEPT !.pc = again, !.img = h[p].img + 1]
    BY <1>2 DEF NextImage, Turned, HandlersOK
  <2> QED BY <1>1, <1>2, <2>1 DEF Handler, SameRequest
<1>3. CASE ~(h[p].img < NImages)
  <2>1. h'[p] = [h[p] EXCEPT !.pc = after, !.img = 1]
    BY <1>3 DEF NextImage, Turned, HandlersOK
  <2>2. h[p].img = NImages
    BY <1>1, <1>3, BootAssumption
  <2> QED BY <1>1, <2>2, <2>1 DEF Handler, SameRequest
<1> QED BY Zenon, <1>2, <1>3

\* Search keeps all but the place and the device.
LEMMA SearchMoves ==
    ASSUME HandlersOK, NEW p \in Workers, Search(p)
    PROVE  /\ h[p].pc = "search" /\ h'[p].pc = "connect"
           /\ h'[p].ws = h[p].ws /\ h'[p].super = h[p].super
<1>1. PICK n : h' = [h EXCEPT ![p].pc = "connect", ![p].dev[h[p].img] = n]
    BY Zenon DEF Search
<1>2. h[p].pc = "search"
    BY Zenon DEF Search, At
<1> QED BY <1>1, <1>2 DEF HandlersOK, Handler

\* A station that switches off only withdraws its request.
LEMMA PowerOffMoves ==
    ASSUME HandlersOK, NEW p \in Workers, NEW w \in Stations, PowerOff(w)
    PROVE  /\ h'[p].pc = h[p].pc /\ h'[p].ws = h[p].ws /\ h'[p].img = h[p].img
           /\ h'[p].super = h[p].super /\ h'[p].dev = h[p].dev
<1>1. h'[p] = h[p] \/ h'[p] = [h[p] EXCEPT !.live = FALSE]
    BY Zenon DEF PowerOff
<1>2. h[p] \in Handler
    BY DEF HandlersOK
<1> QED BY <1>1, <1>2 DEF Handler

-----------------------------------------------------------------------------
(***************************************************************************)
(* The first invariant: children, their processes and their commits.       *)
(***************************************************************************)

\* A qemu-nbd has a child open: mkChild kills it before it removes the child.
Backed == \A d \in Disks : qst[d] # "none" => child[d] # "none"

\* No child, no data.
Empty == \A d \in Disks : child[d] = "none" => delta[d] = {}

\* Children are made for the exported images of enabled stations.
HasChild == \A d \in Disks : child[d] # "none" => d[1] \in Enabled /\ Exported(d[2])

\* A commit runs on a child over the live image.
OverLive == \A d \in Disks : com[d] = "running" => child[d] = "live"

Stored == Backed /\ Empty /\ HasChild /\ OverLive

\* The handler p: while it boots a station, the super-mode settings stay the ones
\* it has loaded, ...
Loaded(p) ==
    h[p].pc \in BootPcs =>
        h[p].super = IF cfg[h[p].ws].supper THEN cfg[h[p].ws].commit ELSE {}

\* ... and in mkChild the old child is gone when the new one is made.
Creating(p) ==
    /\ h[p].pc \in {"create", "replace"} => Child(p) /\ child[Disk(p)] = "none"
    /\ h[p].pc \in {"replace", "lock"} => Super(p)

HandlerStored(p) == Loaded(p) /\ Creating(p)

\* A step that leaves children and commits alone, and starts no qemu-nbd.
LEMMA SameStored ==
    ASSUME Stored, UNCHANGED <<child, delta, com>>,
           \A d \in Disks : qst'[d] # "none" => qst[d] # "none"
    PROVE  Stored'
BY Zenon DEF Stored, Backed, Empty, HasChild, OverLive, Exported

\* A handler that goes on to a place other than create and lock.
LEMMA MovedStored ==
    ASSUME NEW p \in Workers, HandlerStored(p), UNCHANGED cfg, h[p].pc \in BootPcs,
           h'[p].ws = h[p].ws, h'[p].super = h[p].super, h'[p].pc \notin {"create", "replace", "lock"}
    PROVE  HandlerStored(p)'
BY Zenon DEF HandlerStored, Loaded, Creating

\* Outside the boot pipeline the handler says nothing of children.
LEMMA OtherStored ==
    ASSUME NEW p \in Workers, h'[p].pc \in {"idle", "cstop", "ccommit", "csave", "cwait"}
    PROVE  HandlerStored(p)'
BY DEF HandlerStored, Loaded, Creating, BootPcs

\* nbdFree and ConnectBlocked only tell a connected qemu-nbd to disconnect.
LEMMA DisconnectStarts ==
    ASSUME NEW ds, nbdDisconnect(ds), \A d \in ds : d \in Disks => qst[d] \in {"serve", "exit"}
    PROVE  \A d \in Disks : qst'[d] # "none" => qst[d] # "none"
BY DEF nbdDisconnect

\* The steps of a boot request before and behind mkChild.
LEMMA QuietStored ==
    ASSUME Types, Stored, NEW p \in Workers, HandlerStored(p),
           \/ TgtStop(p) \/ NbdFree(p) \/ ZfsUnmount(p) \/ ZfsSnap(p)
           \/ Search(p) \/ ConnectBlocked(p) \/ Connect(p) \/ TgtStart(p) \/ TgtStarted(p)
    PROVE  Stored' /\ HandlerStored(p)'
<1>0. HandlersOK /\ UNCHANGED <<cfg, child, delta, com>>
    BY Zenon DEF Types, TgtStop, NbdFree, ZfsUnmount, ZfsSnap, Search, ConnectBlocked, Connect,
                 TgtStart, TgtStarted, diskVars
<1>1. \A d \in Disks : qst'[d] # "none" => qst[d] # "none"
  <2>1. CASE UNCHANGED qst
    BY Zenon, <2>1
  <2>2. CASE NbdFree(p)
    <3>1. nbdDisconnect(Connected(h[p].ws))
      BY Zenon, <2>2 DEF NbdFree, nbdFree
    <3> QED BY Zenon, <3>1, DisconnectStarts DEF Connected
  <2>3. CASE nbdDisconnect(NbdHolders(Nbd(p)))
    BY Zenon, <2>3, DisconnectStarts DEF NbdHolders
  <2> QED BY Zenon, <2>1, <2>2, <2>3
          DEF TgtStop, ZfsUnmount, ZfsSnap, Search, ConnectBlocked, Connect, TgtStart, TgtStarted,
              nbdVars
<1>2. Stored'
    BY Zenon, <1>0, <1>1, SameStored
<1>3. /\ h[p].pc \in BootPcs /\ h'[p].ws = h[p].ws /\ h'[p].super = h[p].super
      /\ h'[p].pc \notin {"create", "replace", "lock"}
  <2>1. ASSUME NEW pc, pc \in {"free", "zfree", "unmount", "snap", "mk", "lun"}, Goto(p, pc)
        PROVE  /\ h'[p].ws = h[p].ws /\ h'[p].super = h[p].super
               /\ h'[p].pc \notin {"create", "replace", "lock"}
    BY Zenon, <1>0, <2>1, GotoMoves DEF SameRequest
  <2>2. ASSUME NextImage(p, "search", "tgt")
        PROVE  /\ h'[p].ws = h[p].ws /\ h'[p].super = h[p].super
               /\ h'[p].pc \notin {"create", "replace", "lock"}
    <3>1. SameRequest(p) /\ h'[p].pc \in {"search", "tgt"}
      BY ZenonT(30), <1>0, <2>2, NextImageMoves
    <3> QED BY Zenon, <3>1 DEF SameRequest
  <2>3. CASE Search(p)
    BY Zenon, <1>0, <2>3, SearchMoves DEF BootPcs
  <2>4. CASE ConnectBlocked(p) \/ TgtStart(p)
    BY Zenon, <2>4 DEF ConnectBlocked, TgtStart, At, BootPcs
  <2>5. CASE Connect(p)
    BY Zenon, <2>2, <2>5 DEF Connect, At, BootPcs
  <2> QED BY ZenonT(30), <2>1, <2>3, <2>4, <2>5
          DEF TgtStop, NbdFree, ZfsUnmount, ZfsSnap, TgtStarted, At, BootPcs
<1> QED BY Zenon, <1>0, <1>2, <1>3, MovedStored

\* mkChild and the child of the last boot.
LEMMA MkChildStored ==
    ASSUME Types, Stored, NEW p \in Workers, HandlerStored(p), MkChild(p)
    PROVE  Stored' /\ HandlerStored(p)'
<1>0. /\ SystemOK /\ HandlersOK /\ h[p].pc = "mk" /\ Disk(p) \in Disks /\ UNCHANGED cfg
    BY Zenon, WsType DEF Types, MkChild, At
<1>1. CASE MkNothing(p) \/ MkKeep(p)
  <2>1. UNCHANGED <<child, delta, com, qst>> /\ NextImage(p, "mk", "search")
    BY Zenon, <1>1 DEF MkNothing, MkKeep, diskVars
  <2>2. SameRequest(p) /\ h'[p].pc \in {"mk", "search"}
    BY ZenonT(30), <1>0, <2>1, NextImageMoves
  <2>3. HandlerStored(p)'
    BY Zenon, <1>0, <2>2, MovedStored DEF SameRequest, BootPcs
  <2> QED BY Zenon, <2>1, <2>3, SameStored
<1>2. ASSUME NEW pc, pc = "create" \/ (pc = "replace" /\ Super(p)),
             Child(p), Goto(p, pc), child'[Disk(p)] = "none"
      PROVE  HandlerStored(p)'
  <2>1. SameRequest(p) /\ h'[p].pc = pc /\ h'[p].img = h[p].img
    BY Zenon, <1>0, <1>2, GotoMoves
  <2> QED BY Zenon, <1>0, <1>2, <2>1
          DEF HandlerStored, Loaded, Creating, Child, Super, Disk, SameRequest, BootPcs
<1>3. CASE /\ Child(p) /\ Goto(p, "create") /\ child[Disk(p)] = "none"
           /\ UNCHANGED <<child, delta, com, qst>>
    BY Zenon, <1>2, <1>3, SameStored
<1>4. CASE /\ Child(p) /\ (Goto(p, "create") \/ (Super(p) /\ Goto(p, "replace")))
           /\ lsofkill(Disk(p)) /\ delChild(Disk(p))
  <2>1. /\ child'[Disk(p)] = "none" /\ delta'[Disk(p)] = {} /\ com'[Disk(p)] # "running"
        /\ qst'[Disk(p)] = "none"
    BY Zenon, <1>0, <1>4 DEF lsofkill, delChild, SystemOK
  <2>2. \A d \in Disks : d # Disk(p) =>
            /\ child'[d] = child[d] /\ delta'[d] = delta[d]
            /\ com'[d] = com[d] /\ qst'[d] = qst[d]
    BY Zenon, <1>0, <1>4 DEF lsofkill, delChild, SystemOK
  <2>3. Stored'
    BY Zenon, <2>1, <2>2 DEF Stored, Backed, Empty, HasChild, OverLive, Exported
  <2> QED BY Zenon, <1>2, <1>4, <2>1, <2>3
<1> QED BY Zenon, <1>1, <1>3, <1>4 DEF MkChild, MkReplace, MkFirst, MkFresh, diskVars

\* What img.child does: an empty child where there was none, over the live image
\* in super mode only.
LEMMA CreateMakes ==
    ASSUME Types, Stored, NEW p \in Workers, HandlerStored(p), Create(p)
    PROVE  /\ Child(p) /\ child[Disk(p)] = "none" /\ delta[Disk(p)] = {}
           /\ child'[Disk(p)] = "none" \/ child'[Disk(p)] = "snap"
              \/ (Super(p) /\ child'[Disk(p)] = "live")
           /\ delta'[Disk(p)] = {}
           /\ \A e \in Disks : e # Disk(p) => child'[e] = child[e] /\ delta'[e] = delta[e]
<1>0. SystemOK /\ HandlersOK /\ h[p].pc \in {"create", "replace"} /\ Disk(p) \in Disks
    BY Zenon, WsType DEF Types, Create, At
<1>1. Child(p) /\ child[Disk(p)] = "none" /\ delta[Disk(p)] = {}
    BY Zenon, <1>0 DEF HandlerStored, Creating, Stored, Empty
<1>2. \/ UNCHANGED <<child, delta>>
      \/ \E v \in {"snap", "live"} :
            /\ v = "live" => Super(p)
            /\ child' = [child EXCEPT ![Disk(p)] = v] /\ delta' = [delta EXCEPT ![Disk(p)] = {}]
    BY Zenon DEF Create
<1> QED BY Zenon, <1>0, <1>1, <1>2 DEF SystemOK

\* No process has it open yet, and no commit runs on it.
LEMMA CreateStored ==
    ASSUME Types, Stored, NEW p \in Workers, HandlerStored(p), Create(p)
    PROVE  Stored' /\ HandlerStored(p)'
<1> DEFINE d == Disk(p)
<1>0. /\ SystemOK /\ HandlersOK /\ h[p].pc \in {"create", "replace"} /\ d \in Disks
      /\ d[1] = h[p].ws /\ d[2] = h[p].img /\ UNCHANGED <<cfg, com, qst>>
    BY Zenon, WsType DEF Types, Create, At, Disk, nbdVars
<1>1. /\ d[1] \in Enabled /\ Exported(d[2])
      /\ child[d] = "none" /\ delta'[d] = {}
      /\ \A e \in Disks : e # d => child'[e] = child[e] /\ delta'[e] = delta[e]
    BY Zenon, <1>0, CreateMakes DEF Child, Exported
<1> HIDE DEF d
<1>2. qst[d] = "none" /\ com[d] # "running"
    BY Zenon, <1>0, <1>1 DEF Stored, Backed, OverLive
<1>3. Stored'
    BY Zenon, <1>0, <1>1, <1>2 DEF Stored, Backed, Empty, HasChild, OverLive, Exported
<1>4. CASE NextImage(p, "mk", "search")
  <2>1. SameRequest(p) /\ h'[p].pc \in {"mk", "search"}
    BY ZenonT(30), <1>0, <1>4, NextImageMoves
  <2> QED BY Zenon, <1>0, <1>3, <2>1, MovedStored DEF SameRequest, BootPcs
<1>5. CASE h[p].pc = "replace" /\ Goto(p, "lock")
  <2>1. SameRequest(p) /\ h'[p].pc = "lock" /\ h'[p].img = h[p].img
    BY Zenon, <1>0, <1>5, GotoMoves
  <2>2. Super(p)
    BY Zenon, <1>5 DEF HandlerStored, Creating
  <2> QED BY Zenon, <1>0, <1>3, <2>1, <2>2
          DEF HandlerStored, Loaded, Creating, Super, SameRequest, BootPcs
<1> QED BY Zenon, <1>4, <1>5 DEF Create, d

\* The lock file, and the end of a request: all images have their LUN, the handler
\* dies, or it is killed.
LEMMA EndStored ==
    ASSUME Types, Stored, NEW p \in Workers, HandlerStored(p),
           CreateLock(p) \/ LunAdd(p) \/ ConnectError(p) \/ Crash(p)
    PROVE  Stored' /\ HandlerStored(p)'
<1>0. HandlersOK /\ UNCHANGED <<cfg, child, delta, com, qst>>
    BY Zenon DEF Types, CreateLock, LunAdd, ConnectError, Crash, diskVars, nbdVars
<1>1. Stored'
    BY Zenon, <1>0, SameStored
<1>2. ASSUME NEW pc, pc \in {"mk", "lun"}, NextImage(p, pc, "search") \/ NextImage(p, pc, "lun"),
             h[p].pc \in BootPcs
      PROVE  HandlerStored(p)'
  <2>1. SameRequest(p) /\ (h'[p].pc = pc \/ h'[p].pc \in {"search", "lun"})
    BY ZenonT(60), <1>0, <1>2, NextImageMoves
  <2>2. h'[p].pc \in {"mk", "search", "lun"}
    BY <1>2, <2>1
  <2> QED BY Zenon, <1>0, <1>2, <2>1, <2>2, MovedStored DEF SameRequest
<1>3. ASSUME h' = [h EXCEPT ![p] = Idle] PROVE HandlerStored(p)'
  <2>1. h'[p].pc = "idle"
    BY Zenon, <1>0, <1>3, IdleType DEF HandlersOK
  <2> QED BY Zenon, <2>1, OtherStored
<1> QED BY ZenonT(30), <1>1, <1>2, <1>3
        DEF CreateLock, LunAdd, LunDone, ConnectError, Crash, HangUp, At, BootPcs

\* The requests.  "No" to "update disks?" marks what was written in super mode.
LEMMA RequestStored ==
    ASSUME Types, Stored, NEW p \in Workers, HandlerStored(p), NEW w \in Stations, Request(p, w)
    PROVE  Stored' /\ HandlerStored(p)'
<1>0. HandlersOK /\ h[p].pc = "idle" /\ UNCHANGED <<child, com, qst>>
    BY Zenon DEF Types, Request, GetBootArgs, SuperTrue, DisableUncommit, DisableCommitPoint,
                 DisableCommit, At, diskVars, nbdVars
<1>1. \A d \in Disks : delta[d] = {} => delta'[d] = {}
  <2>1. CASE DisableUncommit(p, w)
    BY Zenon, <2>1 DEF DisableUncommit
  <2>2. CASE UNCHANGED delta
    BY Zenon, <2>2
  <2> QED BY Zenon, <2>1, <2>2
          DEF Request, GetBootArgs, SuperTrue, DisableCommitPoint, DisableCommit, diskVars
<1>2. Stored'
    BY Zenon, <1>0, <1>1 DEF Stored, Backed, Empty, HasChild, OverLive, Exported
<1>3. CASE GetBootArgs(p, w)
  <2> DEFINE super == IF cfg[w].supper THEN cfg[w].commit ELSE {}
             new == [Idle EXCEPT !.pc = "stop", !.ws = w, !.live = TRUE, !.super = super]
  <2>1. h' = [h EXCEPT ![p] = new] /\ UNCHANGED cfg
    BY <1>3 DEF GetBootArgs
  <2>2. new.pc = "stop" /\ new.ws = w /\ new.super = super
    BY IdleType DEF Handler, Idle
  <2> HIDE DEF new
  <2>3. h'[p] = new
    BY Zenon, <1>0, <2>1 DEF HandlersOK
  <2> QED BY Zenon, <1>2, <2>1, <2>2, <2>3 DEF HandlerStored, Loaded, Creating
<1>4. CASE DisableCommit(p, w)
  <2>1. h'[p].pc = "cstop"
    BY <1>0, <1>4, IdleType DEF DisableCommit, HandlersOK, Handler
  <2> QED BY Zenon, <1>2, <2>1, OtherStored
<1>5. CASE UNCHANGED h
    BY Zenon, <1>0, <1>2, <1>5, OtherStored
<1> QED BY Zenon, <1>3, <1>4, <1>5 DEF Request, SuperTrue, DisableUncommit, DisableCommitPoint

\* Where disableCommit is.
LEMMA CommitMoves ==
    ASSUME HandlersOK, NEW p \in Workers, CommitStep(p)
    PROVE  h'[p].pc \in {"idle", "cstop", "ccommit", "csave", "cwait"}
<1>1. ASSUME NEW pc, Goto(p, pc) PROVE h'[p].pc = pc
    BY Zenon, <1>1, GotoMoves
<1>2. ASSUME NextImage(p, "cstop", "csave") PROVE h'[p].pc \in {"cstop", "csave"}
    BY ZenonT(30), <1>2, NextImageMoves
<1>3. ASSUME h' = [h EXCEPT ![p] = Idle] PROVE h'[p].pc = "idle"
    BY Zenon, <1>3, IdleType DEF HandlersOK
<1>4. ASSUME CommitStart(p) PROVE h'[p].pc \in {"cstop", "csave"}
    BY Zenon, <1>4, CommitStartMoves
<1> QED BY Zenon, <1>1, <1>2, <1>3, <1>4 DEF CommitStep, CommitStop, CommitSave, CommitWait

\* disableCommit only starts the commits.
LEMMA CommitStored ==
    ASSUME Types, Stored, NEW p \in Workers, CommitStep(p)
    PROVE  Stored' /\ HandlerStored(p)'
<1>0. SystemOK /\ HandlersOK /\ UNCHANGED <<child, delta>>
    BY Zenon DEF Types, CommitStep, CommitStop, CommitStart, CommitSave, CommitWait, diskVars
<1>1. \A d \in Disks : com'[d] = "running" => com[d] = "running"
    BY ZenonT(30), <1>0 DEF CommitStep, CommitStop, CommitStart, CommitSave, CommitWait, SystemOK
<1>2. \A d \in Disks : qst'[d] # "none" => qst[d] # "none"
  <2>1. CASE UNCHANGED qst
    BY Zenon, <2>1
  <2>2. CASE nbdDisconnect(Connected(h[p].ws))
    BY Zenon, <2>2, DisconnectStarts DEF Connected
  <2> QED BY Zenon, <2>1, <2>2 DEF CommitStep, CommitStop, CommitStart, CommitSave, CommitWait, nbdVars
<1>3. Stored'
    BY Zenon, <1>0, <1>1, <1>2 DEF Stored, Backed, Empty, HasChild, OverLive, Exported
<1> QED BY Zenon, <1>0, <1>3, CommitMoves, OtherStored

\* A qemu-nbd starts on a child that is there, and a commit on one over the live
\* image; a commit that ends leaves an empty child.
LEMMA ProgramStored ==
    ASSUME Types, Stored, NEW p \in Workers, HandlerStored(p), NEW d \in Disks,
           \/ Attach(d) \/ Exit(d) \/ CommitBegin(d) \/ CommitEnd(d)
           \/ \E n \in Devs : Execute(d, n) \/ Lose(d, n)
    PROVE  Stored' /\ HandlerStored(p)'
<1>0. SystemOK /\ UNCHANGED <<cfg, child, h>>
    BY Zenon DEF Types, Attach, Exit, CommitBegin, CommitEnd, Execute, Lose, diskVars
<1>1. HandlerStored(p)'
    BY Zenon, <1>0 DEF HandlerStored, Loaded, Creating, Child, Super, Disk
<1>2. Backed'
  <2>1. ASSUME NEW e \in Disks, qst'[e] # "none" PROVE qst[e] # "none" \/ child[e] # "none"
    <3>1. CASE UNCHANGED qst
      BY Zenon, <2>1, <3>1
    <3>2. CASE Attach(d) \/ Exit(d)
      BY ZenonT(30), <1>0, <2>1, <3>2 DEF Attach, Exit, SystemOK
    <3>3. ASSUME NEW n \in Devs, Execute(d, n) PROVE qst[e] # "none" \/ child[e] # "none"
      BY ZenonT(30), <1>0, <2>1, <3>3 DEF Execute, SystemOK
    <3> QED BY Zenon, <3>1, <3>2, <3>3 DEF CommitBegin, CommitEnd, Lose, nbdVars
  <2> QED BY Zenon, <1>0, <2>1 DEF Stored, Backed
<1>3. Empty'
  <2>1. \A e \in Disks : delta[e] = {} => delta'[e] = {}
    <3>1. CASE UNCHANGED delta
      BY Zenon, <3>1
    <3>2. CASE CommitEnd(d)
      BY Zenon, <1>0, <3>2 DEF CommitEnd, SystemOK
    <3> QED BY Zenon, <3>1, <3>2 DEF Attach, Exit, Execute, Lose, CommitBegin, diskVars
  <2> QED BY Zenon, <1>0, <2>1 DEF Stored, Empty
<1>4. OverLive'
  <2>1. \A e \in Disks : com'[e] = "running" => com[e] = "running" \/ child[e] = "live"
    <3>1. CASE UNCHANGED com
      BY Zenon, <3>1
    <3>2. CASE CommitBegin(d)
      BY ZenonT(30), <1>0, <3>2 DEF CommitBegin, SystemOK
    <3>3. CASE CommitEnd(d)
      BY ZenonT(30), <1>0, <3>3 DEF CommitEnd, SystemOK
    <3> QED BY Zenon, <3>1, <3>2, <3>3 DEF Attach, Exit, Execute, Lose
  <2> QED BY Zenon, <1>0, <2>1 DEF Stored, OverLive
<1> QED BY Zenon, <1>0, <1>1, <1>2, <1>3, <1>4 DEF Stored, HasChild, Exported

\* The stations: a write goes to a disk that a qemu-nbd serves, so to a child.
LEMMA StationStored ==
    ASSUME Types, Stored, NEW p \in Workers, HandlerStored(p), NEW w \in Stations, Station(w)
    PROVE  Stored' /\ HandlerStored(p)'
<1>0. HandlersOK /\ UNCHANGED <<cfg, child, com, qst>>
    BY Zenon DEF Types, Station, SanBoot, PowerOff, Write, diskVars, nbdVars
<1>1. Empty'
  <2>1. CASE UNCHANGED delta
    BY Zenon, <1>0, <2>1 DEF Stored, Empty
  <2>2. ASSUME NEW i \in Images, Write(w, i) PROVE Empty'
    <3>1. \A d \in Disks : d \in Seen(w, i) => child[d] # "none"
      BY Zenon DEF Seen, Stored, Backed
    <3> QED BY Zenon, <1>0, <2>2, <3>1 DEF Write, Stored, Empty
  <2> QED BY Zenon, <2>1, <2>2 DEF Station, SanBoot, PowerOff, diskVars
<1>2. Stored'
    BY Zenon, <1>0, <1>1 DEF Stored, Backed, HasChild, OverLive, Exported
<1>3. h'[p].pc = h[p].pc /\ h'[p].ws = h[p].ws /\ h'[p].img = h[p].img /\ h'[p].super = h[p].super
  <2>1. CASE UNCHANGED h
    BY Zenon, <2>1
  <2> QED BY Zenon, <1>0, <2>1, PowerOffMoves DEF Station, SanBoot, Write
<1>4. Loaded(p)'
    BY Zenon, <1>0, <1>3 DEF HandlerStored, Loaded
<1>5. Creating(p)'
    BY Zenon, <1>0, <1>3 DEF HandlerStored, Creating, Child, Super, Disk
<1> QED BY <1>2, <1>4, <1>5 DEF HandlerStored

-----------------------------------------------------------------------------
StoredInv == Types /\ Stored /\ \A p \in Workers : HandlerStored(p)

\* At the start there are no children ...
LEMMA StoredInit == Init => StoredInv
<1> SUFFICES ASSUME Init PROVE StoredInv
    OBVIOUS
<1>1. Stored
    BY DEF Init, Stored, Backed, Empty, HasChild, OverLive
<1>2. ASSUME NEW p \in Workers PROVE HandlerStored(p)
  <2>1. h[p].pc = "idle"
    BY IdleType DEF Init
  <2> QED BY <2>1 DEF HandlerStored, Loaded, Creating, BootPcs
<1> QED BY <1>1, <1>2, TypingInit DEF StoredInv

\* ... and every step keeps them in order.
LEMMA StoredStep == OneWorker /\ StoredInv /\ [Next]_vars => StoredInv'
<1> SUFFICES ASSUME OneWorker, StoredInv, [Next]_vars PROVE StoredInv'
    OBVIOUS
<1>0. PICK p : Workers = {p}
    BY DEF OneWorker
<1>1. p \in Workers /\ Types /\ Stored /\ HandlerStored(p) /\ Types'
    BY <1>0, TypingStep DEF StoredInv
<1> SUFFICES Stored' /\ HandlerStored(p)'
    BY Zenon, <1>0, <1>1 DEF StoredInv
<1>2. CASE UNCHANGED vars
  <2>1. UNCHANGED <<cfg, child, delta, qst, com, h>>
    BY Zenon, <1>2 DEF vars, diskVars, nbdVars
  <2>2. Loaded(p)' /\ Creating(p)'
    BY Zenon, <1>1, <2>1 DEF HandlerStored, Loaded, Creating, Child, Super, Disk
  <2> QED BY Zenon, <1>1, <2>1, <2>2, SameStored DEF HandlerStored
<1>3. CASE BootStep(p)
    BY Zenon, <1>1, <1>3, QuietStored, MkChildStored, CreateStored, EndStored DEF BootStep
<1>4. CASE CommitStep(p) \/ Crash(p)
    BY Zenon, <1>1, <1>4, CommitStored, EndStored
<1>5. ASSUME NEW w \in Stations, Request(p, w) \/ Station(w)
      PROVE  Stored' /\ HandlerStored(p)'
    BY Zenon, <1>1, <1>5, RequestStored, StationStored
<1>6. CASE Attaching \/ Committing \/ \E d \in Disks, n \in Devs : Lose(d, n)
    BY Zenon, <1>1, <1>6, ProgramStored DEF Attaching, Committing
<1> QED BY Zenon, <1>0, <1>2, <1>3, <1>4, <1>5, <1>6 DEF Next, Step

\* The invariant holds throughout.
LEMMA StoredHolds == ASSUME OneWorker PROVE Spec => []StoredInv
<1>1. Init => StoredInv
    BY StoredInit
<1>2. StoredInv /\ [Next]_vars => StoredInv'
    BY StoredStep
<1> QED BY <1>1, <1>2, PTL DEF Spec

\* What was written in super mode is emptied by the end of its commit only:
\* mkChild keeps a locked child while the mode it has loaded is on, and the mode
\* does not change under a handler.
LEMMA SuperStep ==
    ASSUME OneWorker, StoredInv, [Next]_vars, NEW w \in Stations, NEW i \in Images,
           cfg[w].supper, i \in cfg[w].commit, cfg'[w] = cfg[w], <<w, i>> \in lock,
           "super" \in delta[<<w, i>>], "super" \notin delta'[<<w, i>>]
    PROVE  com[<<w, i>>] = "running"
<1> DEFINE d == <<w, i>>
<1>0. PICK p : Workers = {p}
    BY DEF OneWorker
<1>1. /\ p \in Workers /\ Types /\ SystemOK /\ HandlersOK /\ Stored /\ HandlerStored(p)
      /\ d \in Disks /\ d[1] = w /\ d[2] = i /\ d \in lock
    BY <1>0 DEF StoredInv, Types, Disks
<1>a. "super" \in delta[d] /\ "super" \notin delta'[d]
    OBVIOUS
<1> HIDE DEF d
<1>2. ~MkChild(p)
  <2> SUFFICES ASSUME MkChild(p) PROVE FALSE
    OBVIOUS
  <2>1. h[p].pc = "mk" /\ Disk(p) \in Disks
    BY Zenon, <1>1, WsType DEF MkChild, At
  <2>2. delChild(Disk(p)) /\ (MkReplace(p) \/ ~Super(p))
    BY Zenon, <1>1, <1>a DEF MkChild, MkNothing, MkReplace, MkFirst, MkKeep, MkFresh, diskVars
  <2>3. Disk(p) = d
    BY Zenon, <1>1, <1>a, <2>1, <2>2 DEF delChild, SystemOK
  <2>4. h[p].ws = w /\ h[p].img = i
    BY <2>3 DEF Disk, d
  <2>5. Super(p)
    <3>1. h[p].super = IF cfg[w].supper THEN cfg[w].commit ELSE {}
      BY Zenon, <1>1, <2>1, <2>4 DEF HandlerStored, Loaded, BootPcs
    <3> QED BY Zenon, <2>4, <3>1 DEF Super
  <2> QED BY Zenon, <1>1, <2>2, <2>3, <2>5 DEF MkReplace
<1>3. ~Create(p)
  <2> SUFFICES ASSUME Create(p) PROVE FALSE
    OBVIOUS
  <2>1. delta[Disk(p)] = {} /\ \A e \in Disks : e # Disk(p) => delta'[e] = delta[e]
    BY Zenon, <1>1, CreateMakes
  <2> QED BY Zenon, <1>1, <1>a, <2>1
<1>4. ASSUME NEW v \in Stations, DisableUncommit(p, v) PROVE FALSE
  <2>1. v = w
    BY Zenon, <1>1, <1>4, <1>a DEF DisableUncommit
  <2>2. cfg'[w] = NormalMode
    BY Zenon, <1>1, <1>4, <2>1 DEF DisableUncommit, SystemOK
  <2> QED BY <2>2 DEF NormalMode
<1>5. ASSUME NEW v \in Stations, NEW j \in Images, Write(v, j) PROVE FALSE
    BY ZenonT(30), <1>1, <1>5, <1>a DEF Write
<1>6. ASSUME NEW e \in Disks, CommitEnd(e) PROVE com[d] = "running"
    BY Zenon, <1>1, <1>6, <1>a DEF CommitEnd, SystemOK
<1>7. CASE UNCHANGED delta
    BY Zenon, <1>1, <1>7, <1>a
<1>8. CASE BootStep(p)
    BY Zenon, <1>2, <1>3, <1>7, <1>8
       DEF BootStep, TgtStop, NbdFree, ZfsUnmount, ZfsSnap, CreateLock, Search, ConnectBlocked,
           Connect, ConnectError, TgtStart, TgtStarted, LunAdd, diskVars
<1>9. CASE CommitStep(p) \/ Crash(p)
    BY Zenon, <1>7, <1>9 DEF CommitStep, CommitStop, CommitStart, CommitSave, CommitWait, Crash, diskVars
<1>10. ASSUME NEW v \in Stations, Request(p, v) \/ Station(v) PROVE com[d] = "running"
    BY Zenon, <1>4, <1>5, <1>7, <1>10
       DEF Request, GetBootArgs, SuperTrue, DisableCommitPoint, DisableCommit,
           Station, SanBoot, PowerOff, diskVars
<1>11. CASE Attaching \/ Committing \/ \E e \in Disks, n \in Devs : Lose(e, n)
    BY Zenon, <1>6, <1>7, <1>11
       DEF Attaching, Committing, Attach, Exit, Execute, CommitBegin, Lose, diskVars, d
<1>12. CASE UNCHANGED vars
    BY Zenon, <1>7, <1>12 DEF vars, diskVars
<1> QED BY Zenon, <1>0, <1>8, <1>9, <1>10, <1>11, <1>12 DEF Next, Step, d

\* What was written to an image in super mode survives every reboot of the
\* station, with commands late or lost and whatever the other stations do: as
\* long as the mode is on, only the end of its commit empties the locked child.
THEOREM WorkKept == ASSUME OneWorker PROVE Spec => SuperKept
<1>1. StoredInv /\ [Next]_vars =>
        [\A w \in Stations, i \in Images :
           (/\ cfg[w].supper /\ i \in cfg[w].commit
            /\ cfg'[w] = cfg[w]
            /\ <<w, i>> \in lock
            /\ "super" \in delta[<<w, i>>]
            /\ "super" \notin delta'[<<w, i>>])
           => com[<<w, i>>] = "running"]_vars
    BY SuperStep
<1> QED BY <1>1, StoredHolds, PTL DEF Spec, SuperKept

-----------------------------------------------------------------------------
(***************************************************************************)
(* The second invariant, as long as every station sees its own disks: what *)
(* was written in which mode.                                              *)
(***************************************************************************)

\* A child over the live image holds nothing that was written in normal mode, ...
LiveClean == \A d \in Disks : child[d] = "live" => "normal" \notin delta[d]

\* ... because a station that has booted has one for the images of its super mode
\* only; the child of any other image is empty at first.
Booted ==
    \A w \in Stations : \A i \in Images \ smode[w] :
        /\ st[w] \in {"ready", "on"} => child[<<w, i>>] # "live"
        /\ st[w] = "ready" => delta[<<w, i>>] = {}

Clean == LiveClean /\ Booted /\ NoUnauthorizedChanges

\* The station that the handler p boots is not running.
Asleep(p) ==
    h[p].pc \in BootPcs =>
        /\ st[h[p].ws] \in {"off", "wait"}
        /\ h[p].pc \in {"stop", "free", "zfree", "unmount", "snap"} => h[p].img = 1

\* Behind mkChild an image has got an empty child, unless it is in super mode.
Passed(p, i) == \/ h[p].pc \in {"search", "connect", "tgt", "lun"}
                \/ h[p].pc \in {"mk", "create", "replace", "lock"} /\ i < h[p].img
Made(p) ==
    \A i \in Images \ h[p].super : Passed(p, i) =>
        child[<<h[p].ws, i>>] # "live" /\ delta[<<h[p].ws, i>>] = {}

HandlerClean(p) == Asleep(p) /\ Made(p)

\* A step that leaves children, base images and stations alone.
LEMMA SameClean ==
    ASSUME Clean, UNCHANGED <<child, delta, base, stVars>>
    PROVE  Clean'
BY Zenon DEF Clean, LiveClean, Booted, NoUnauthorizedChanges, stVars

\* Outside the boot pipeline the handler says nothing of children.
LEMMA OtherClean ==
    ASSUME NEW p \in Workers, h'[p].pc \in {"idle", "cstop", "ccommit", "csave", "cwait"}
    PROVE  HandlerClean(p)'
BY DEF HandlerClean, Asleep, Made, Passed, BootPcs

\* The steps of a boot request before and behind mkChild.
LEMMA QuietClean ==
    ASSUME Types, Clean, NEW p \in Workers, HandlerClean(p),
           \/ TgtStop(p) \/ NbdFree(p) \/ ZfsUnmount(p) \/ ZfsSnap(p)
           \/ Search(p) \/ ConnectBlocked(p) \/ Connect(p) \/ TgtStart(p) \/ TgtStarted(p)
    PROVE  Clean' /\ HandlerClean(p)'
<1>0. HandlersOK /\ UNCHANGED <<child, delta, base, stVars>>
    BY Zenon DEF Types, TgtStop, NbdFree, ZfsUnmount, ZfsSnap, Search, ConnectBlocked, Connect,
                 TgtStart, TgtStarted, diskVars, storeVars
<1>1. Clean'
    BY Zenon, <1>0, SameClean
<1>2. ASSUME NEW pc, pc \in {"stop", "free", "zfree", "unmount", "snap"}, h[p].pc = pc,
             NEW next, next \in {"free", "zfree", "unmount", "snap", "mk"}, Goto(p, next)
      PROVE  HandlerClean(p)'
  <2>1. SameRequest(p) /\ h'[p].pc = next /\ h'[p].img = 1
    BY Zenon, <1>0, <1>2, GotoMoves DEF HandlerClean, Asleep, BootPcs
  <2>2. \A i \in Images : ~Passed(p, i)'
    BY Zenon, <1>2, <2>1, ImageOrder DEF Passed
  <2> QED BY Zenon, <1>0, <1>2, <2>1, <2>2 DEF HandlerClean, Asleep, Made, BootPcs, stVars, SameRequest
<1>3. ASSUME h[p].pc \in {"search", "connect", "tgt"},
             h'[p].pc \in {"search", "connect", "tgt", "lun"},
             h'[p].ws = h[p].ws, h'[p].super = h[p].super
      PROVE  HandlerClean(p)'
    BY Zenon, <1>0, <1>3 DEF HandlerClean, Asleep, Made, Passed, BootPcs, stVars
<1>4. CASE Search(p)
    BY Zenon, <1>0, <1>1, <1>3, <1>4, SearchMoves
<1>5. CASE ConnectBlocked(p) \/ TgtStart(p)
    BY Zenon, <1>1, <1>3, <1>5 DEF ConnectBlocked, TgtStart, At
<1>6. CASE Connect(p)
  <2>1. h[p].pc = "connect" /\ NextImage(p, "search", "tgt")
    BY Zenon, <1>6 DEF Connect, At
  <2>2. SameRequest(p) /\ h'[p].pc \in {"search", "tgt"}
    BY ZenonT(30), <1>0, <2>1, NextImageMoves
  <2> QED BY Zenon, <1>1, <1>3, <2>1, <2>2 DEF SameRequest
<1>7. CASE TgtStarted(p)
  <2>1. h[p].pc = "tgt" /\ Goto(p, "lun")
    BY Zenon, <1>7 DEF TgtStarted, At
  <2>2. SameRequest(p) /\ h'[p].pc = "lun"
    BY Zenon, <1>0, <2>1, GotoMoves
  <2> QED BY Zenon, <1>1, <1>3, <2>1, <2>2 DEF SameRequest
<1> QED BY Zenon, <1>1, <1>2, <1>4, <1>5, <1>6, <1>7
        DEF TgtStop, NbdFree, ZfsUnmount, ZfsSnap, At

\* A step that touches the children of no station that has booted.
LEMMA BootedKept ==
    ASSUME Booted, UNCHANGED stVars,
           \A w \in Stations, i \in Images : st[w] \in {"ready", "on"} =>
               child'[<<w, i>>] = child[<<w, i>>] /\ delta'[<<w, i>>] = delta[<<w, i>>]
    PROVE  Booted'
<1>1. st' = st /\ smode' = smode
    BY DEF stVars
<1> QED BY Zenon, <1>1 DEF Booted

\* A step of the handler that touches its own disk only.
LEMMA OwnBooted ==
    ASSUME HandlersOK, Booted, NEW p \in Workers, HandlerClean(p), h[p].pc \in BootPcs,
           UNCHANGED stVars,
           \A d \in Disks : d # Disk(p) => child'[d] = child[d] /\ delta'[d] = delta[d]
    PROVE  Booted'
<1>1. st[h[p].ws] \in {"off", "wait"}
    BY Zenon DEF HandlerClean, Asleep
<1>2. ASSUME NEW w \in Stations, NEW i \in Images, w # h[p].ws
      PROVE  child'[<<w, i>>] = child[<<w, i>>] /\ delta'[<<w, i>>] = delta[<<w, i>>]
  <2>1. <<w, i>> \in Disks /\ <<w, i>> # Disk(p)
    BY Zenon, <1>2 DEF Disks, Disk
  <2> QED BY Zenon, <2>1
<1> QED BY Zenon, <1>1, <1>2, BootedKept

\* mkChild behind one image.
LEMMA NextMade ==
    ASSUME HandlersOK, NEW p \in Workers, HandlerClean(p),
           h[p].pc \in {"mk", "create", "replace", "lock"}, NextImage(p, "mk", "search"),
           UNCHANGED st,
           \A i \in Images \ h[p].super : i # h[p].img =>
               /\ child'[<<h[p].ws, i>>] = child[<<h[p].ws, i>>]
               /\ delta'[<<h[p].ws, i>>] = delta[<<h[p].ws, i>>],
           ~Super(p) => child'[Disk(p)] # "live" /\ delta'[Disk(p)] = {}
    PROVE  HandlerClean(p)'
<1>1. /\ SameRequest(p) /\ h[p].img \in Images
      /\ \/ h'[p].pc = "mk" /\ h'[p].img = h[p].img + 1
         \/ h'[p].pc = "search" /\ h[p].img = NImages
  <2>1. h[p].img \in Images
    BY Zenon DEF HandlersOK, Handler
  <2> QED BY Zenon, <2>1, NextImageMoves
<1>2. ASSUME NEW i \in Images, Passed(p, i)' PROVE Passed(p, i) \/ i = h[p].img
  <2>1. CASE h[p].img = NImages
    <3>1. i < h[p].img \/ i = h[p].img
      BY Zenon, <2>1, LastImage
    <3> QED BY Zenon, <3>1 DEF Passed
  <2>2. CASE h'[p].pc = "mk" /\ h'[p].img = h[p].img + 1
    <3>1. i < h[p].img + 1
      BY Zenon, <1>2, <2>2 DEF Passed
    <3>2. i < h[p].img \/ i = h[p].img
      BY Zenon, <1>1, <3>1, ImageOrder
    <3> QED BY Zenon, <3>2 DEF Passed
  <2> QED BY Zenon, <1>1, <2>1, <2>2
<1>3. ASSUME NEW i \in Images \ h[p].super, Passed(p, i)'
      PROVE  child'[<<h[p].ws, i>>] # "live" /\ delta'[<<h[p].ws, i>>] = {}
  <2>1. CASE i = h[p].img
    BY Zenon, <2>1 DEF Super, Disk
  <2>2. CASE i # h[p].img
    BY Zenon, <1>2, <1>3, <2>2 DEF HandlerClean, Made
  <2> QED BY Zenon, <2>1, <2>2
<1>4. Made(p)'
    BY Zenon, <1>1, <1>3 DEF Made, SameRequest
<1> QED BY Zenon, <1>1, <1>4 DEF HandlerClean, Asleep, BootPcs, SameRequest

\* mkChild and the child of the last boot.
LEMMA MkChildClean ==
    ASSUME Types, Stored, Clean, NEW p \in Workers, HandlerClean(p), MkChild(p)
    PROVE  Clean' /\ HandlerClean(p)'
<1>0. /\ SystemOK /\ HandlersOK /\ h[p].pc = "mk" /\ h[p].ws \in Stations
      /\ h[p].img \in Images /\ Disk(p) \in Disks /\ Disk(p) = <<h[p].ws, h[p].img>>
      /\ UNCHANGED stVars
    BY Zenon, WsType DEF Types, MkChild, At, Disk
<1>1. CASE MkNothing(p) \/ MkKeep(p)
  <2>1. UNCHANGED <<child, delta, base>> /\ NextImage(p, "mk", "search")
    BY Zenon, <1>1 DEF MkNothing, MkKeep, diskVars
  <2>2. ASSUME ~Super(p) PROVE child[Disk(p)] = "none" /\ delta[Disk(p)] = {}
    <3>1. ~Child(p)
      BY Zenon, <1>1, <2>2 DEF MkNothing, MkKeep
    <3>2. child[Disk(p)] = "none"
      <4>1. Disk(p)[1] = h[p].ws /\ Disk(p)[2] = h[p].img
        BY <1>0
      <4> QED BY Zenon, <1>0, <3>1, <4>1 DEF Child, Stored, HasChild, Exported
    <3> QED BY Zenon, <1>0, <3>2 DEF Stored, Empty
  <2>3. HandlerClean(p)'
    BY Zenon, <1>0, <2>1, <2>2, NextMade DEF stVars
  <2> QED BY Zenon, <1>0, <2>1, <2>3, SameClean
<1>2. ASSUME NEW pc, pc \in {"create", "replace"}, Goto(p, pc),
             \A d \in Disks : d # Disk(p) => child'[d] = child[d] /\ delta'[d] = delta[d]
      PROVE  HandlerClean(p)'
  <2>1. SameRequest(p) /\ h'[p].pc = pc /\ h'[p].img = h[p].img
    BY Zenon, <1>0, <1>2, GotoMoves
  <2>2. ASSUME NEW i \in Images, Passed(p, i)'
        PROVE  Passed(p, i) /\ <<h[p].ws, i>> \in Disks /\ <<h[p].ws, i>> # Disk(p)
    <3>1. i < h[p].img
      BY Zenon, <1>2, <2>1, <2>2 DEF Passed
    <3> QED BY Zenon, <1>0, <3>1, ImageOrder, ImageDisk DEF Passed
  <2>3. Made(p)'
    BY Zenon, <1>2, <2>1, <2>2 DEF HandlerClean, Made, SameRequest
  <2> QED BY Zenon, <1>0, <1>2, <2>1, <2>3 DEF HandlerClean, Asleep, BootPcs, SameRequest, stVars
<1>3. CASE Goto(p, "create") /\ UNCHANGED <<child, delta, base>>
    BY Zenon, <1>0, <1>2, <1>3, SameClean
<1>4. CASE /\ Goto(p, "create") \/ Goto(p, "replace")
           /\ lsofkill(Disk(p)) /\ delChild(Disk(p))
  <2>1. /\ child'[Disk(p)] = "none"
        /\ \A d \in Disks : d # Disk(p) => child'[d] = child[d] /\ delta'[d] = delta[d]
    BY Zenon, <1>0, <1>4 DEF delChild, SystemOK
  <2>2. LiveClean'
    BY Zenon, <2>1 DEF Clean, LiveClean
  <2>3. Booted'
    BY Zenon, <1>0, <2>1, OwnBooted DEF Clean, BootPcs
  <2>4. NoUnauthorizedChanges'
    <3>1. Disk(p)[2] \in Images
      BY <1>0
    <3> QED BY Zenon, <1>0, <1>4, <3>1 DEF Clean, NoUnauthorizedChanges, lsofkill, SystemOK
  <2> QED BY Zenon, <1>2, <1>4, <2>1, <2>2, <2>3, <2>4 DEF Clean
<1> QED BY Zenon, <1>1, <1>3, <1>4 DEF MkChild, MkReplace, MkFirst, MkFresh, diskVars

\* img.child: an empty child, over the live image in super mode only.
LEMMA CreateClean ==
    ASSUME Types, Stored, Clean, NEW p \in Workers, HandlerStored(p), HandlerClean(p), Create(p)
    PROVE  Clean' /\ HandlerClean(p)'
<1> DEFINE d == Disk(p)
<1>0. /\ SystemOK /\ HandlersOK /\ h[p].pc \in {"create", "replace"} /\ h[p].ws \in Stations
      /\ h[p].img \in Images /\ d \in Disks /\ d = <<h[p].ws, h[p].img>>
      /\ UNCHANGED <<base, stVars>>
    BY Zenon, WsType DEF Types, Create, At, Disk, storeVars
<1>1. /\ ~Super(p) => child'[d] # "live"
      /\ delta'[d] = {}
      /\ \A e \in Disks : e # d => child'[e] = child[e] /\ delta'[e] = delta[e]
    BY Zenon, CreateMakes
<1>2. Booted'
    BY Zenon, <1>0, <1>1, OwnBooted DEF Clean, BootPcs
<1>3. Clean'
  <2> HIDE DEF d
  <2> QED BY Zenon, <1>0, <1>1, <1>2 DEF Clean, LiveClean, NoUnauthorizedChanges
<1>4. \A i \in Images : i # h[p].img =>
          /\ child'[<<h[p].ws, i>>] = child[<<h[p].ws, i>>]
          /\ delta'[<<h[p].ws, i>>] = delta[<<h[p].ws, i>>]
  <2>1. \A i \in Images : i # h[p].img => <<h[p].ws, i>> \in Disks /\ <<h[p].ws, i>> # d
    BY Zenon, <1>0, ImageDisk
  <2> HIDE DEF d
  <2> QED BY Zenon, <1>1, <2>1
<1>5. CASE NextImage(p, "mk", "search")
    BY Zenon, <1>0, <1>1, <1>3, <1>4, <1>5, NextMade DEF stVars
<1>6. CASE Goto(p, "lock")
  <2>1. SameRequest(p) /\ h'[p].pc = "lock" /\ h'[p].img = h[p].img
    BY Zenon, <1>0, <1>6, GotoMoves
  <2>2. \A i \in Images : Passed(p, i)' => Passed(p, i) /\ i # h[p].img
    BY Zenon, <1>0, <2>1, ImageOrder DEF Passed
  <2>3. Made(p)'
    BY Zenon, <1>4, <2>1, <2>2 DEF HandlerClean, Made, SameRequest
  <2> QED BY Zenon, <1>0, <1>3, <2>1, <2>3 DEF HandlerClean, Asleep, BootPcs, SameRequest, stVars
<1> QED BY Zenon, <1>5, <1>6 DEF Create

\* The lock file behind a child in super mode.
LEMMA CreateLockClean ==
    ASSUME Types, Clean, NEW p \in Workers, HandlerStored(p), HandlerClean(p), CreateLock(p)
    PROVE  Clean' /\ HandlerClean(p)'
<1>1. /\ HandlersOK /\ h[p].pc = "lock" /\ NextImage(p, "mk", "search")
      /\ UNCHANGED <<child, delta, base, stVars>>
    BY Zenon DEF Types, CreateLock, At, storeVars
<1>2. Super(p)
    BY Zenon, <1>1 DEF HandlerStored, Creating
<1> QED BY Zenon, <1>1, <1>2, SameClean, NextMade DEF stVars

\* The answer to the station: what mkChild has made is what it boots from.
LEMMA LunClean ==
    ASSUME Types, Clean, NEW p \in Workers, HandlerClean(p), LunAdd(p)
    PROVE  Clean' /\ HandlerClean(p)'
<1> DEFINE w == h[p].ws
<1>0. /\ SystemOK /\ HandlersOK /\ h[p].pc = "lun" /\ w \in Stations
      /\ UNCHANGED <<child, delta, base>>
    BY Zenon, WsType DEF Types, LunAdd, At, diskVars, storeVars
<1>1. CASE NextImage(p, "lun", "lun") /\ UNCHANGED stVars
  <2>1. SameRequest(p) /\ h'[p].pc = "lun"
    BY Zenon, <1>0, <1>1, NextImageMoves
  <2>2. HandlerClean(p)'
    BY Zenon, <1>0, <1>1, <2>1 DEF HandlerClean, Asleep, Made, Passed, BootPcs, SameRequest, stVars
  <2> QED BY Zenon, <1>0, <1>1, <2>2, SameClean
<1>2. ASSUME h' = [h EXCEPT ![p] = Idle] PROVE HandlerClean(p)'
  <2>1. h'[p].pc = "idle"
    BY Zenon, <1>0, <1>2, IdleType DEF HandlersOK
  <2> QED BY Zenon, <2>1, OtherClean
<1>3. CASE h' = [h EXCEPT ![p] = Idle] /\ UNCHANGED stVars
    BY Zenon, <1>0, <1>2, <1>3, SameClean
<1>4. CASE /\ h' = [h EXCEPT ![p] = Idle]
           /\ st' = [st EXCEPT ![w] = "ready"] /\ smode' = [smode EXCEPT ![w] = h[p].super]
  <2>1. \A i \in Images \ h[p].super : child[<<w, i>>] # "live" /\ delta[<<w, i>>] = {}
    BY Zenon, <1>0 DEF HandlerClean, Made, Passed
  <2>2. /\ smode'[w] = h[p].super
        /\ \A v \in Stations : v # w => st'[v] = st[v] /\ smode'[v] = smode[v]
    BY Zenon, <1>0, <1>4 DEF SystemOK
  <2> HIDE DEF w
  <2>3. Booted'
    BY Zenon, <1>0, <2>1, <2>2 DEF Clean, Booted
  <2>4. Clean'
    BY Zenon, <1>0, <2>3 DEF Clean, LiveClean, NoUnauthorizedChanges
  <2> QED BY Zenon, <1>2, <1>4, <2>4
<1> QED BY Zenon, <1>1, <1>3, <1>4 DEF LunAdd, LunDone

\* A handler that dies: the station gives up.
LEMMA EndClean ==
    ASSUME Types, Clean, NEW p \in Workers, ConnectError(p) \/ Crash(p)
    PROVE  Clean' /\ HandlerClean(p)'
<1>1. /\ UNCHANGED <<child, delta, base, smode>> /\ h' = [h EXCEPT ![p] = Idle]
      /\ \A w \in Stations : st'[w] = st[w] \/ st'[w] = "off"
    BY Zenon DEF ConnectError, Crash, HangUp, diskVars, storeVars
<1>2. h'[p].pc = "idle"
    BY Zenon, <1>1, IdleType DEF Types, HandlersOK
<1>3. Booted'
    BY Zenon, <1>1 DEF Clean, Booted
<1>4. Clean'
    BY Zenon, <1>1, <1>3 DEF Clean, LiveClean, NoUnauthorizedChanges
<1> QED BY Zenon, <1>2, <1>4, OtherClean

\* The requests: only "update disks?" answered "no" touches what a child holds,
\* and it adds nothing in normal mode.
LEMMA RequestClean ==
    ASSUME Types, Clean, NEW p \in Workers, NEW w \in Stations, Request(p, w)
    PROVE  Clean' /\ HandlerClean(p)'
<1>0. /\ SystemOK /\ HandlersOK /\ h[p].pc = "idle" /\ UNCHANGED <<child, base, smode>>
    BY Zenon DEF Types, Request, GetBootArgs, SuperTrue, DisableUncommit, DisableCommitPoint,
                 DisableCommit, At, diskVars, storeVars, stVars
<1>1. CASE GetBootArgs(p, w)
  <2> DEFINE super == IF cfg[w].supper THEN cfg[w].commit ELSE {}
             new == [Idle EXCEPT !.pc = "stop", !.ws = w, !.live = TRUE, !.super = super]
  <2>1. h' = [h EXCEPT ![p] = new] /\ st' = [st EXCEPT ![w] = "wait"] /\ UNCHANGED delta
    BY <1>1 DEF GetBootArgs, diskVars
  <2>2. new.pc = "stop" /\ new.ws = w /\ new.img = 1
    BY IdleType DEF Handler, Idle
  <2> HIDE DEF new
  <2>3. h'[p] = new
    BY Zenon, <1>0, <2>1 DEF HandlersOK
  <2>4. HandlerClean(p)'
    BY Zenon, <1>0, <2>1, <2>2, <2>3 DEF HandlerClean, Asleep, Made, Passed, SystemOK
  <2>5. Booted'
    BY ZenonT(30), <1>0, <2>1 DEF Clean, Booted, SystemOK
  <2> QED BY Zenon, <1>0, <2>1, <2>4, <2>5 DEF Clean, LiveClean, NoUnauthorizedChanges
<1>2. CASE DisableCommit(p, w)
  <2>1. h'[p].pc = "cstop"
    BY <1>0, <1>2, IdleType DEF DisableCommit, HandlersOK, Handler
  <2> QED BY Zenon, <1>0, <1>2, <2>1, OtherClean, SameClean DEF DisableCommit, diskVars
<1>3. CASE DisableUncommit(p, w)
  <2>1. UNCHANGED <<h, stVars>>
    BY Zenon, <1>3 DEF DisableUncommit
  <2>2. \A d \in Disks : delta[d] = {} => delta'[d] = {}
    BY Zenon, <1>3 DEF DisableUncommit
  <2>3. \A d \in Disks : "normal" \in delta'[d] => "normal" \in delta[d]
    BY Zenon, <1>3 DEF DisableUncommit
  <2>4. \A v \in Stations, i \in Images : <<v, i>> \in Disks
    BY DEF Disks
  <2>5. Booted'
    BY Zenon, <1>0, <2>1, <2>2, <2>4 DEF Clean, Booted, stVars
  <2>6. Clean'
    BY Zenon, <1>0, <2>3, <2>5 DEF Clean, LiveClean, NoUnauthorizedChanges
  <2> QED BY Zenon, <1>0, <2>1, <2>6, OtherClean
<1>4. CASE UNCHANGED <<h, delta, stVars>>
    BY Zenon, <1>0, <1>4, OtherClean, SameClean
<1> QED BY Zenon, <1>1, <1>2, <1>3, <1>4 DEF Request, SuperTrue, DisableCommitPoint, diskVars

\* disableCommit only starts the commits.
LEMMA CommitClean ==
    ASSUME Types, Clean, NEW p \in Workers, CommitStep(p)
    PROVE  Clean' /\ HandlerClean(p)'
<1>1. HandlersOK /\ UNCHANGED <<child, delta, base, stVars>>
    BY Zenon DEF Types, CommitStep, CommitStop, CommitStart, CommitSave, CommitWait, diskVars, storeVars
<1> QED BY Zenon, <1>1, CommitMoves, OtherClean, SameClean

\* A commit that ends: what goes into the base was written in super mode.
LEMMA ProgramClean ==
    ASSUME Types, Stored, Clean, NEW p \in Workers, HandlerClean(p), NEW d \in Disks,
           \/ Attach(d) \/ Exit(d) \/ CommitBegin(d) \/ CommitEnd(d)
           \/ \E n \in Devs : Execute(d, n) \/ Lose(d, n)
    PROVE  Clean' /\ HandlerClean(p)'
<1>0. SystemOK /\ HandlersOK /\ UNCHANGED <<child, stVars, h>>
    BY Zenon DEF Types, Attach, Exit, CommitBegin, CommitEnd, Execute, Lose, diskVars
<1>1. CASE UNCHANGED <<delta, base>>
  <2>1. HandlerClean(p)'
    BY Zenon, <1>0, <1>1 DEF HandlerClean, Asleep, Made, Passed, stVars
  <2> QED BY Zenon, <1>0, <1>1, <2>1, SameClean
<1>2. CASE CommitEnd(d)
  <2>1. \A e \in Disks : delta'[e] = delta[e] \/ delta'[e] = {}
    BY Zenon, <1>0, <1>2 DEF CommitEnd, SystemOK
  <2>2. "normal" \notin delta[d]
    BY Zenon, <1>2 DEF CommitEnd, Stored, OverLive, Clean, LiveClean
  <2>3. d[2] \in Images
    BY DEF Disks
  <2>4. NoUnauthorizedChanges'
    BY Zenon, <1>0, <1>2, <2>2, <2>3 DEF CommitEnd, Clean, NoUnauthorizedChanges, SystemOK
  <2>5. \A w \in Stations, i \in Images : <<w, i>> \in Disks
    BY DEF Disks
  <2>6. Booted'
    BY Zenon, <1>0, <2>1, <2>5 DEF Clean, Booted, stVars
  <2>7. LiveClean'
    BY Zenon, <1>0, <2>1 DEF Clean, LiveClean
  <2>8. Made(p)'
    <3>1. ASSUME NEW i \in Images, Passed(p, i) PROVE <<h[p].ws, i>> \in Disks
      BY Zenon, <1>0, <2>5, <3>1 DEF Passed, HandlersOK
    <3> QED BY Zenon, <1>0, <2>1, <3>1 DEF HandlerClean, Made, Passed
  <2> QED BY Zenon, <1>0, <2>4, <2>6, <2>7, <2>8 DEF Clean, HandlerClean, Asleep, stVars
<1> QED BY Zenon, <1>1, <1>2 DEF Attach, Exit, CommitBegin, Execute, Lose, diskVars, storeVars

\* The stations: a write in normal mode goes to a child over a snapshot.
LEMMA StationClean ==
    ASSUME Types, OwnDisk, Clean, NEW p \in Workers, HandlerClean(p),
           NEW w \in Stations, Station(w)
    PROVE  Clean' /\ HandlerClean(p)'
<1>0. SystemOK /\ HandlersOK /\ UNCHANGED <<child, base>>
    BY Zenon DEF Types, Station, SanBoot, PowerOff, Write, diskVars, storeVars
<1>1. h[p].pc \in BootPcs => h[p].ws \in Stations
    BY <1>0 DEF HandlersOK, BootPcs
<1>2. ASSUME UNCHANGED delta,
             \A v \in Stations : v # w => st'[v] = st[v] /\ smode'[v] = smode[v],
             \/ st'[w] = "off"
             \/ st[w] = "ready" /\ st'[w] = "on" /\ smode'[w] = smode[w],
             h'[p].pc = h[p].pc, h'[p].ws = h[p].ws, h'[p].img = h[p].img,
             h'[p].super = h[p].super
      PROVE  Clean' /\ HandlerClean(p)'
  <2>1. Booted'
    BY ZenonT(30), <1>0, <1>2 DEF Clean, Booted
  <2>2. Clean'
    BY Zenon, <1>0, <1>2, <2>1 DEF Clean, LiveClean, NoUnauthorizedChanges
  <2>3. Asleep(p)'
    BY Zenon, <1>1, <1>2 DEF HandlerClean, Asleep
  <2>4. Made(p)'
    BY Zenon, <1>0, <1>2 DEF HandlerClean, Made, Passed
  <2> QED BY <2>2, <2>3, <2>4 DEF HandlerClean
<1>3. CASE SanBoot(w)
    BY Zenon, <1>0, <1>2, <1>3 DEF SanBoot, diskVars, SystemOK
<1>4. CASE PowerOff(w)
  <2>1. /\ \A v \in Stations : v # w => st'[v] = st[v] /\ smode'[v] = smode[v]
        /\ st'[w] = "off" /\ UNCHANGED delta
    BY Zenon, <1>0, <1>4 DEF PowerOff, diskVars, SystemOK
  <2> QED BY Zenon, <1>0, <1>2, <1>4, <2>1, PowerOffMoves
<1>5. ASSUME NEW i \in Images, Write(w, i)
      PROVE  Clean' /\ HandlerClean(p)'
  <2> DEFINE d == <<w, i>>
  <2>1. st[w] = "on" /\ UNCHANGED <<h, stVars>> /\ d \in Disks
    BY Zenon, <1>5 DEF Write, Disks
  <2>2. Seen(w, i) \subseteq {d}
    BY Zenon DEF OwnDisk
  <2>3. /\ \A e \in Disks : e # d => delta'[e] = delta[e]
        /\ delta'[d] = delta[d] \/ delta'[d] = delta[d] \cup {IF i \in smode[w] THEN "super" ELSE "normal"}
    BY Zenon, <1>5, <2>1, <2>2 DEF Write
  <2>4. child[d] = "live" => i \in smode[w]
    BY Zenon, <2>1 DEF Clean, Booted
  <2>5. \A v \in Stations, j \in Images : v # w => <<v, j>> \in Disks /\ <<v, j>> # d
    BY DEF Disks
  <2> HIDE DEF d
  <2>6. LiveClean'
    BY ZenonT(30), <1>0, <2>1, <2>3, <2>4 DEF Clean, LiveClean
  <2>7. \A v \in Stations, j \in Images : v # w => delta'[<<v, j>>] = delta[<<v, j>>]
    BY Zenon, <2>3, <2>5
  <2>8. Booted'
    BY ZenonT(30), <1>0, <2>1, <2>7 DEF Clean, Booted, stVars
  <2>9. Clean'
    BY Zenon, <1>0, <2>6, <2>8 DEF Clean, NoUnauthorizedChanges
  <2>10. Made(p)'
    <3>1. h[p].pc \in BootPcs => h[p].ws # w
      BY Zenon, <2>1 DEF HandlerClean, Asleep
    <3>2. \A j \in Images : Passed(p, j) => h[p].pc \in BootPcs
      BY Zenon DEF Passed, BootPcs
    <3> QED BY Zenon, <1>0, <1>1, <2>1, <2>7, <3>1, <3>2 DEF HandlerClean, Made, Passed
  <2> QED BY Zenon, <2>1, <2>9, <2>10 DEF HandlerClean, Asleep, stVars
<1> QED BY Zenon, <1>3, <1>4, <1>5 DEF Station

-----------------------------------------------------------------------------
CleanInv == Clean /\ \A p \in Workers : HandlerClean(p)

\* At the start nothing has been written ...
LEMMA CleanInit == Init => CleanInv
<1> SUFFICES ASSUME Init PROVE CleanInv
    OBVIOUS
<1>1. Clean
    BY DEF Init, Clean, LiveClean, Booted, NoUnauthorizedChanges
<1>2. ASSUME NEW p \in Workers PROVE HandlerClean(p)
  <2>1. h[p].pc = "idle"
    BY IdleType DEF Init
  <2> QED BY Zenon, <2>1 DEF HandlerClean, Asleep, Made, Passed, BootPcs
<1> QED BY <1>1, <1>2 DEF CleanInv

\* ... and every step from a state in which the stations see their own disks
\* keeps the modes apart.
LEMMA CleanStep == OneWorker /\ StoredInv /\ OwnDisk /\ CleanInv /\ [Next]_vars => CleanInv'
<1> SUFFICES ASSUME OneWorker, StoredInv, OwnDisk, CleanInv, [Next]_vars PROVE CleanInv'
    OBVIOUS
<1>0. PICK p : Workers = {p}
    BY DEF OneWorker
<1>1. p \in Workers /\ Types /\ Stored /\ HandlerStored(p) /\ Clean /\ HandlerClean(p)
    BY <1>0 DEF StoredInv, CleanInv
<1> SUFFICES Clean' /\ HandlerClean(p)'
    BY Zenon, <1>0 DEF CleanInv
<1>2. CASE UNCHANGED vars
  <2>1. UNCHANGED <<child, delta, base, h, stVars>>
    BY Zenon, <1>2 DEF vars, diskVars, storeVars
  <2>2. HandlerClean(p)'
    BY Zenon, <1>1, <2>1 DEF HandlerClean, Asleep, Made, Passed, stVars
  <2> QED BY Zenon, <1>1, <2>1, <2>2, SameClean
<1>3. CASE BootStep(p)
    BY Zenon, <1>1, <1>3, QuietClean, MkChildClean, CreateClean, CreateLockClean, LunClean,
       EndClean DEF BootStep
<1>4. CASE CommitStep(p) \/ Crash(p)
    BY Zenon, <1>1, <1>4, CommitClean, EndClean
<1>5. ASSUME NEW w \in Stations, Request(p, w) \/ Station(w)
      PROVE  Clean' /\ HandlerClean(p)'
    BY Zenon, <1>1, <1>5, RequestClean, StationClean
<1>6. CASE Attaching \/ Committing \/ \E d \in Disks, n \in Devs : Lose(d, n)
    BY Zenon, <1>1, <1>6, ProgramClean DEF Attaching, Committing
<1> QED BY Zenon, <1>0, <1>2, <1>3, <1>4, <1>5, <1>6 DEF Next, Step

\* "No unauthorized changes" and "just restart your computer and the system state
\* will return", however late the commands, whatever the losses and the crashes:
\* while every station sees its own disks, no sequence of boots, commits and
\* switches of mode brings what was written outside super mode into a base image,
\* a station that boots outside super mode finds an empty child over a snapshot,
\* and it keeps one over a snapshot as long as it runs.
THEOREM OwnDiskIsEnough ==
    ASSUME OneWorker
    PROVE  Spec /\ []OwnDisk =>
               [](NoUnauthorizedChanges /\ RestartRestores /\ NormalOffBase)
<1>1. Init => CleanInv
    BY CleanInit
<1>2. StoredInv /\ OwnDisk /\ CleanInv /\ [Next]_vars => CleanInv'
    BY CleanStep
<1>3. ASSUME StoredInv, OwnDisk, CleanInv, NEW w \in Stations, st[w] \in {"ready", "on"},
             NEW i \in Images \ smode[w], NEW d \in Seen(w, i)
      PROVE  child[d] = "snap" /\ (st[w] = "ready" => delta[d] = {})
  <2>1. d = <<w, i>>
    BY Zenon, <1>3 DEF OwnDisk
  <2>2. d \in Disks /\ qst[d] # "none"
    BY DEF Seen
  <2>3. child[d] # "none" /\ child[d] # "live" /\ (st[w] = "ready" => delta[d] = {})
    BY Zenon, <1>3, <2>1, <2>2 DEF StoredInv, Stored, Backed, CleanInv, Clean, Booted
  <2>4. child[d] \in {"none", "live", "snap"}
    BY Zenon, <1>3, <2>2 DEF StoredInv, Types, SystemOK
  <2> QED BY <2>3, <2>4
<1>4. StoredInv /\ OwnDisk /\ CleanInv =>
          NoUnauthorizedChanges /\ RestartRestores /\ NormalOffBase
    BY Zenon, <1>3 DEF CleanInv, Clean, RestartRestores, NormalOffBase
<1> QED BY <1>1, <1>2, <1>4, StoredHolds, PTL DEF Spec

-----------------------------------------------------------------------------
(***************************************************************************)
(* One disk to boot from: a single enabled station with a single exported  *)
(* image, beside any number of disabled stations and ISO images.  There    *)
(* OwnDisk holds however late the commands are.                            *)
(***************************************************************************)
Bootable(d) == d[1] \in Enabled /\ Exported(d[2])
OneDisk == \A d, e \in Disks : Bootable(d) /\ Bootable(e) => d = e

\* A target belongs to an enabled station, a LUN to an exported image.
Shown ==
    /\ \A t \in Tids : tgt[t] # None => tgt[t] \in Enabled
    /\ \A l \in Tids \X Images : lun[l] # 0 => Exported(l[2])

\* A step that only takes targets and LUNs away.
LEMMA StopShown ==
    ASSUME SystemOK, Shown, NEW w \in Stations, tgtstop(w)
    PROVE  Shown'
<1>1. \A t \in Tids : tgt'[t] = tgt[t] \/ tgt'[t] = None
    BY Zenon DEF tgtstop, SystemOK
<1>2. \A l \in Tids \X Images : lun'[l] = lun[l] \/ lun'[l] = 0
    BY Zenon DEF tgtstop, SystemOK
<1> QED BY Zenon, <1>1, <1>2 DEF Shown, Exported

\* tgtstart skips a disabled station, LunAdd an ISO image.
LEMMA ShownStep == Types /\ Shown /\ [Next]_vars => Shown'
<1> SUFFICES ASSUME Types, SystemOK, HandlersOK, Shown, [Next]_vars PROVE Shown'
    BY DEF Types
<1>1. CASE UNCHANGED tgtVars
    BY Zenon, <1>1 DEF Shown, Exported, tgtVars
<1>2. ASSUME NEW p \in Workers, h[p].pc # "idle", tgtstop(h[p].ws) PROVE Shown'
    BY Zenon, <1>2, WsType, StopShown
<1>3. ASSUME NEW p \in Workers, TgtStart(p) PROVE Shown'
  <2>1. tgt' = tgt \/ (h[p].ws \in Enabled /\ tgt' = [tgt EXCEPT ![Tid[h[p].ws]] = h[p].ws])
    BY Zenon, <1>3 DEF TgtStart
  <2>2. UNCHANGED lun
    BY Zenon, <1>3 DEF TgtStart
  <2> QED BY Zenon, <2>1, <2>2 DEF Shown, Exported, SystemOK
<1>4. ASSUME NEW p \in Workers, LunAdd(p) PROVE Shown'
  <2>1. UNCHANGED tgt
    BY Zenon, <1>4 DEF LunAdd
  <2>2. CASE UNCHANGED lun
    BY Zenon, <2>1, <2>2 DEF Shown, Exported
  <2>3. CASE ~UNCHANGED lun
    <3> DEFINE l == <<Tid[h[p].ws], h[p].img>>
    <3>1. Exported(h[p].img) /\ lun' = [lun EXCEPT ![l] = Nbd(p)]
      BY Zenon, <1>4, <2>3 DEF LunAdd, Exported
    <3>2. l[2] = h[p].img
      OBVIOUS
    <3> HIDE DEF l
    <3> QED BY Zenon, <2>1, <3>1, <3>2 DEF Shown, Exported, SystemOK
  <2> QED BY Zenon, <2>2, <2>3
<1>5. ASSUME NEW p \in Workers, BootStep(p) PROVE Shown'
    BY Zenon, <1>1, <1>2, <1>3, <1>4, <1>5
       DEF BootStep, TgtStop, NbdFree, nbdFree, ZfsUnmount, ZfsSnap, MkChild, Create, CreateLock,
           Search, ConnectBlocked, Connect, ConnectError, TgtStarted, At
<1>6. ASSUME NEW p \in Workers, CommitStep(p) \/ Crash(p) PROVE Shown'
    BY Zenon, <1>1, <1>2, <1>6
       DEF CommitStep, CommitStop, CommitStart, CommitSave, CommitWait, Crash, At
<1>7. ASSUME NEW p \in Workers, NEW w \in Stations, Request(p, w) PROVE Shown'
    BY Zenon, <1>1, <1>7
       DEF Request, GetBootArgs, SuperTrue, DisableUncommit, DisableCommitPoint, DisableCommit
<1>8. ASSUME NEW w \in Stations, Station(w) PROVE Shown'
    BY Zenon, <1>1, <1>8 DEF Station, SanBoot, PowerOff, Write
<1>9. CASE Attaching \/ Committing \/ \E d \in Disks, n \in Devs : Lose(d, n)
    BY Zenon, <1>1, <1>9
       DEF Attaching, Committing, Attach, Exit, Execute, CommitBegin, CommitEnd, Lose
<1>10. CASE UNCHANGED vars
    BY Zenon, <1>1, <1>10 DEF vars
<1> QED BY Zenon, <1>5, <1>6, <1>7, <1>8, <1>9, <1>10 DEF Next, Step

\* A qemu-nbd serves the child of an exported image of an enabled station, and a
\* LUN that is shown belongs to one: to the only one there is.
LEMMA OneDiskOwn == OneDisk /\ StoredInv /\ Shown => OwnDisk
<1> SUFFICES ASSUME OneDisk, StoredInv, Shown, NEW w \in Stations, NEW i \in Images,
                    NEW d \in Seen(w, i)
             PROVE  d = <<w, i>>
    BY Zenon DEF OwnDisk
<1>1. /\ d \in Disks /\ qst[d] # "none"
      /\ tgt[Tid[w]] = w /\ lun[<<Tid[w], i>>] # 0
    BY Zenon DEF Seen
<1>2. Bootable(d)
    BY Zenon, <1>1 DEF StoredInv, Stored, Backed, HasChild, Bootable
<1>3. Tid[w] \in Tids /\ <<Tid[w], i>> \in Tids \X Images /\ <<Tid[w], i>>[2] = i /\ w # None
    BY BootAssumption DEF Tids
<1>4. w \in Enabled /\ Exported(i)
    BY Zenon, <1>1, <1>3 DEF Shown
<1>5. Bootable(<<w, i>>) /\ <<w, i>> \in Disks
    BY <1>4 DEF Bootable, Disks
<1> QED BY Zenon, <1>1, <1>2, <1>5 DEF OneDisk

\* A server with one disk to boot from keeps its promises with slow commands,
\* lost commands and crashes of the worker: the LUN shows the child of its image
\* or nothing, a restart restores the image, a station in normal mode stays off the
\* base image, and nothing that was written outside super mode gets into it.
THEOREM SlowCommands ==
    ASSUME OneWorker, OneDisk
    PROVE  Spec => [](OwnDisk /\ RestartRestores /\ NormalOffBase /\ NoUnauthorizedChanges)
<1>1. Init => Shown
    BY DEF Init, Shown
<1>2. StoredInv => Types
    BY DEF StoredInv
<1>3. Spec => []Shown
    BY <1>1, <1>2, ShownStep, StoredHolds, PTL DEF Spec
<1>4. StoredInv /\ Shown => OwnDisk
    BY OneDiskOwn
<1>5. Spec => []OwnDisk
    BY <1>3, <1>4, StoredHolds, PTL
<1> QED BY <1>5, OwnDiskIsEnough, PTL
=============================================================================
