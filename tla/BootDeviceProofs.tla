-------------------------- MODULE BootDeviceProofs --------------------------
(***************************************************************************)
(* What holds of BootServer when requests do not overlap: one nginx worker,*)
(* commands carried out before the handler goes on, one image of a station *)
(* exported by qemu-nbd (the others are ISO images).  The number of        *)
(* stations and devices, the target ids and the place of the exported      *)
(* image are arbitrary, and the worker may be killed between any two steps.*)
(*                                                                         *)
(* Then every station sees its own disks, so restarts restore them; and    *)
(* every boot works on a new snapshot.                                     *)
(*                                                                         *)
(* Each hypothesis is needed: the run restart_race shows what two workers  *)
(* do; when commands come late, a qemu-nbd of an earlier boot opens its    *)
(* device after search_nbd has given it to the next station; and with two  *)
(* exported images, a qemu-nbd that a running commit keeps from starting   *)
(* leaves its device to the second image.                                  *)
(***************************************************************************)
EXTENDS BootServerProofs

Serial ==
    /\ Prompt
    /\ OneWorker
    /\ \A i, j \in Images : Exported(i) /\ Exported(j) => i = j

-----------------------------------------------------------------------------
(***************************************************************************)
(* The inductive invariant: which process and which LUN may be on which    *)
(* device.                                                                 *)
(***************************************************************************)
LunIds == Tids \X Images

\* The disk a LUN is meant to show.
Owner(l) == <<tgt[l[1]], l[2]>>

\* A target has the tid of its station.
Targets == \A t \in Tids : tgt[t] # None => Tid[tgt[t]] = t

\* A qemu-nbd has a child of an exported image open, and a device to use.
Processes ==
    \A d \in Disks : qst[d] # "none" =>
        child[d] # "none" /\ qdev[d] # 0 /\ Exported(d[2])

\* No two qemu-nbd are told to use one device.
OneEach ==
    \A d, e \in Disks : qst[d] # "none" /\ qst[e] # "none" /\ qdev[d] = qdev[e] => d = e

\* A LUN belongs to a listed target.  Its device and the qemu-nbd of its owner go
\* together: nobody else uses the device, the owner uses no other.
Luns ==
    \A l \in LunIds : lun[l] # 0 =>
        /\ tgt[l[1]] # None /\ l[1] <= 9 /\ Exported(l[2])
        /\ \A d \in Disks : qst[d] # "none" => (qdev[d] = lun[l] <=> d = Owner(l))

\* At most one command is on its way; its device is free, and its child has
\* neither a qemu-nbd nor a LUN.
Commands ==
    \A c \in queue :
        /\ queue = {c} /\ Exported(c[1][2])
        /\ \A d \in Disks : qst[d] # "none" => qdev[d] # c[2]
        /\ \A l \in LunIds : lun[l] # 0 => lun[l] # c[2] /\ Owner(l) # c[1]

Devices == Targets /\ Processes /\ OneEach /\ Luns /\ Commands

\* The same for the handler p.  A command is on its way only behind nbdConnect,
\* or when the handler that gave it was killed.
WhenQueued(p) == queue # {} => h[p].pc \in {"idle", "search", "tgt"}

\* From tgtstop to nbdConnect the station has no LUN.
NoLuns(p) ==
    h[p].pc \in BootPcs \ {"stop", "tgt", "lun"} =>
        \A l \in LunIds : lun[l] # 0 => tgt[l[1]] # h[p].ws

\* Behind nbdFree its qemu-nbd are gone, until nbdConnect comes to the image.
Before(p, i) == \/ h[p].pc \in {"snap", "mk", "create", "replace", "lock"}
                \/ h[p].pc \in {"search", "connect"} /\ h[p].img <= i
Freed(p) ==
    \A i \in Images : Exported(i) =>
        /\ h[p].pc = "unmount" => qst[<<h[p].ws, i>>] \in {"none", "exit"}
        /\ Before(p, i) => queue = {} /\ qst[<<h[p].ws, i>>] = "none"

\* What search_nbd has returned is free.
Chosen(p) ==
    h[p].pc = "connect" =>
        /\ queue = {}
        /\ Nbd(p) # 0 => /\ \A d \in Disks : qst[d] # "none" => qdev[d] # Nbd(p)
                         /\ \A l \in LunIds : lun[l] # Nbd(p)

\* Between nbdConnect and LunAdd of an image the device is the image's.
After(p, i) == \/ h[p].pc \in {"search", "connect"} /\ h[p].img > i
               \/ h[p].pc = "tgt"
               \/ h[p].pc = "lun" /\ h[p].img <= i
Reserved(d, n) ==
    /\ n # 0
    /\ queue \subseteq {<<d, n>>}
    /\ \A l \in LunIds : lun[l] # n
    /\ \A e \in Disks : qst[e] # "none" => (qdev[e] = n <=> e = d)
Asked(p) ==
    \A i \in Images : Exported(i) /\ After(p, i) => Reserved(<<h[p].ws, i>>, h[p].dev[i])

\* LunAdd works on a listed target.
Listed(p) == h[p].pc = "lun" => TgtUsed(h[p].ws)

HandlerDevices(p) ==
    WhenQueued(p) /\ NoLuns(p) /\ Freed(p) /\ Chosen(p) /\ Asked(p) /\ Listed(p)

-----------------------------------------------------------------------------
(***************************************************************************)
(* Most steps only take processes, LUNs and targets away.                  *)
(***************************************************************************)
Shrink ==
    /\ queue' = queue
    /\ \A d \in Disks : qst'[d] # "none" =>
           /\ qst[d] # "none" /\ qdev'[d] = qdev[d] /\ child'[d] # "none"
           /\ qst[d] = "exit" => qst'[d] = "exit"
    /\ \A l \in LunIds : lun'[l] # 0 => lun'[l] = lun[l] /\ tgt'[l[1]] = tgt[l[1]]
    /\ \A t \in Tids : tgt'[t] = tgt[t] \/ tgt'[t] = None

\* Such a step leaves the rest in order.
LEMMA ShrinkDevices ==
    ASSUME Devices, Shrink
    PROVE  Devices'
<1> USE DEF Devices, Shrink
<1>1. Targets'
    BY DEF Targets
<1>2. Processes'
    BY DEF Processes, Exported
<1>3. OneEach'
    BY DEF OneEach
<1>4. Luns'
    BY DEF Luns, Owner, Exported
<1>5. Commands'
    BY DEF Commands, Owner, Exported
<1> QED BY <1>1, <1>2, <1>3, <1>4, <1>5

\* The handler notices nothing, unless it works on the target.
LEMMA ShrinkHandler ==
    ASSUME NEW p \in Workers, HandlersOK, HandlerDevices(p), Shrink, lun \in [LunIds -> 0..NbdNbds],
           h'[p].pc = h[p].pc, h'[p].img = h[p].img, h'[p].ws = h[p].ws,
           h'[p].dev = h[p].dev,
           h[p].pc = "lun" => UNCHANGED tgt
    PROVE  HandlerDevices(p)'
<1> USE DEF HandlerDevices, Shrink
<1>1. WhenQueued(p)' /\ NoLuns(p)'
    BY DEF WhenQueued, NoLuns
<1>2. Freed(p)'
  <2>1. ASSUME NEW i \in Images, h[p].pc # "idle"
        PROVE  <<h[p].ws, i>> \in Disks
    BY <2>1 DEF HandlersOK, Disks
  <2> QED BY <2>1 DEF Freed, Before, Exported
<1>3. Chosen(p)'
    BY DEF Chosen, Nbd
<1>4. Asked(p)'
    BY DEF Asked, After, Reserved, Exported
<1>5. Listed(p)'
    BY DEF Listed, TgtUsed
<1> QED BY <1>1, <1>2, <1>3, <1>4, <1>5

\* A step that leaves the devices alone is one of them.
LEMMA SameShrinks ==
    ASSUME Devices, UNCHANGED <<nbdVars, tgtVars>>,
           \A d \in Disks : child[d] # "none" => child'[d] # "none"
    PROVE  Shrink
BY DEF Devices, Processes, Shrink, nbdVars, tgtVars

\* tgtstop is one, and afterwards the station has no LUN.
LEMMA TgtStopShrinks ==
    ASSUME SystemOK, Devices, NEW w \in Stations, tgtstop(w)
    PROVE  /\ \A l \in LunIds : lun'[l] # 0 => lun'[l] = lun[l] /\ tgt'[l[1]] = tgt[l[1]]
           /\ \A t \in Tids : tgt'[t] = tgt[t] \/ tgt'[t] = None
           /\ \A l \in LunIds : lun'[l] # 0 => tgt'[l[1]] # w
<1>1. \A t \in Tids : tgt'[t] = IF TgtUsed(w) /\ t = Tid[w] THEN None ELSE tgt[t]
    BY DEF tgtstop, SystemOK
<1>2. \A l \in LunIds : lun'[l] = IF TgtUsed(w) /\ l[1] = Tid[w] THEN 0 ELSE lun[l]
    BY DEF tgtstop, SystemOK, LunIds
<1>3. \A l \in LunIds : l[1] \in Tids
    BY DEF LunIds
<1>4. \A l \in LunIds : lun'[l] # 0 => lun'[l] = lun[l] /\ tgt'[l[1]] = tgt[l[1]]
    BY <1>1, <1>2, <1>3
<1>5. \A l \in LunIds : lun'[l] # 0 => tgt'[l[1]] # w
  <2> SUFFICES ASSUME NEW l \in LunIds, lun'[l] # 0, tgt'[l[1]] = w PROVE FALSE
    OBVIOUS
  <2>1. lun[l] # 0 /\ tgt[l[1]] = w
    BY <1>4
  <2>2. Tid[w] = l[1] /\ l[1] <= 9
    BY <1>3, <2>1, BootAssumption DEF Devices, Targets, Luns
  <2>3. TgtUsed(w)
    BY <2>1, <2>2 DEF TgtUsed
  <2> QED BY <1>2, <2>2, <2>3
<1> QED BY <1>1, <1>4, <1>5

\* `qemu-nbd -d` is one.
LEMMA DisconnectShrinks ==
    ASSUME SystemOK, Devices, NEW ds, nbdDisconnect(ds), UNCHANGED <<qdev, child>>,
           \A d \in ds : d \in Disks => qst[d] \in {"serve", "exit"}
    PROVE  \A d \in Disks : qst'[d] # "none" =>
               /\ qst[d] # "none" /\ qdev'[d] = qdev[d] /\ child'[d] # "none"
               /\ qst[d] = "exit" => qst'[d] = "exit"
BY DEF nbdDisconnect, Devices, Processes, SystemOK

-----------------------------------------------------------------------------
(***************************************************************************)
(* The devices, step by step.                                              *)
(***************************************************************************)

\* tgtstop and nbdFree, at the start of a boot request.
LEMMA StopDevices ==
    ASSUME Serial, Types, Devices, NEW p \in Workers, HandlerDevices(p),
           TgtStop(p) \/ NbdFree(p)
    PROVE  Devices' /\ HandlerDevices(p)'
<1>0. /\ SystemOK /\ HandlersOK /\ h[p].pc # "idle" /\ h[p].ws \in Stations
      /\ queue = {} /\ (\A d \in Disks : qst[d] \in {"none", "serve"}) /\ UNCHANGED child
    BY WsType DEF Types, TgtStop, NbdFree, At, Settled, Serial, diskVars
<1>a. \A i \in Images : <<h[p].ws, i>> \in Disks
    BY <1>0 DEF Disks
<1>1. CASE TgtStop(p)
  <2>1. Shrink
    BY <1>0, <1>1, TgtStopShrinks DEF TgtStop, Shrink, Devices, Processes, nbdVars
  <2>2. SameRequest(p) /\ h'[p].pc = "free" /\ queue' = {}
    BY <1>0, <1>1, GotoMoves DEF TgtStop, nbdVars
  <2>3. NoLuns(p)'
    BY <1>0, <1>1, <2>2, TgtStopShrinks DEF NoLuns, SameRequest, TgtStop
  <2>4. HandlerDevices(p)'
    BY Zenon, <2>2, <2>3 DEF HandlerDevices, WhenQueued, Freed, Before, Chosen, Asked, After, Listed
  <2> QED BY <2>1, <2>4, ShrinkDevices
<1>2. CASE NbdFree(p)
  <2>1. /\ SameRequest(p) /\ h[p].pc \in {"free", "zfree"}
        /\ h'[p].pc = "zfree" \/ (h[p].pc = "zfree" /\ h'[p].pc = "unmount")
    <3>1. CASE At(p, "free") /\ Goto(p, "zfree")
      BY <1>0, <3>1, GotoMoves DEF At
    <3>2. CASE At(p, "zfree") /\ Goto(p, "unmount")
      BY <1>0, <3>2, GotoMoves DEF At
    <3> QED BY Zenon, <1>2, <3>1, <3>2 DEF NbdFree
  <2>2. /\ nbdDisconnect(Connected(h[p].ws)) /\ queue' = {} /\ UNCHANGED <<qdev, queue>>
        /\ tgtstop(h[p].ws) \/ UNCHANGED tgtVars
    BY <1>0, <1>2 DEF NbdFree, nbdFree
  <2>3. \A d \in Disks : qst'[d] # "none" =>
            /\ qst[d] # "none" /\ qdev'[d] = qdev[d] /\ child'[d] # "none"
            /\ qst[d] = "exit" => qst'[d] = "exit"
    BY <1>0, <2>2, DisconnectShrinks DEF Connected
  <2>4. Shrink
    <3>1. CASE tgtstop(h[p].ws)
      BY <1>0, <2>2, <2>3, <3>1, TgtStopShrinks DEF Shrink
    <3>2. CASE UNCHANGED tgtVars
      BY <2>2, <2>3, <3>2 DEF Shrink, tgtVars
    <3> QED BY <2>2, <3>1, <3>2
  <2>5. NoLuns(p)'
    BY <2>1, <2>4 DEF HandlerDevices, NoLuns, BootPcs, Shrink, SameRequest
  <2>6. \A i \in Images : qst'[<<h[p].ws, i>>] \in {"none", "exit"}
    BY <1>0, <1>a, <2>2 DEF nbdDisconnect, Connected, Devices, Processes
  <2>7. HandlerDevices(p)'
    BY Zenon, <2>1, <2>2, <2>5, <2>6
       DEF HandlerDevices, WhenQueued, Freed, Before, Chosen, Asked, After, Listed, SameRequest
  <2> QED BY <2>4, <2>7, ShrinkDevices
<1> QED BY <1>1, <1>2

\* zfsmount and mkChild: no process of the station is left.
LEMMA ChildDevices ==
    ASSUME Serial, Types, Devices, NEW p \in Workers, HandlerDevices(p),
           ZfsUnmount(p) \/ ZfsSnap(p) \/ MkChild(p) \/ Create(p) \/ CreateLock(p)
    PROVE  Devices' /\ HandlerDevices(p)'
<1>0. /\ SystemOK /\ HandlersOK /\ h[p].pc # "idle" /\ h[p].ws \in Stations
      /\ h[p].img \in Images /\ Disk(p) \in Disks
      /\ queue = {} /\ queue' = queue /\ UNCHANGED tgtVars
      /\ (\A d \in Disks : qst[d] \in {"none", "serve"})
    BY Zenon, WsType DEF Types, ZfsUnmount, ZfsSnap, MkChild, Create, CreateLock, At, Settled, Serial, nbdVars
<1>a. \A i \in Images : <<h[p].ws, i>> \in Disks
    BY Zenon, <1>0 DEF Disks
<1>1. /\ SameRequest(p) /\ h[p].pc \in {"unmount", "snap", "mk", "create", "replace", "lock"}
      /\ \/ h'[p].pc \in {"snap", "mk", "create", "replace", "lock"}
         \/ h'[p].pc = "search" /\ h'[p].img = 1
  <2>1. ASSUME NEW pc \in {"snap", "mk", "create", "replace", "lock"}, Goto(p, pc)
        PROVE  SameRequest(p) /\ h'[p].pc \in {"snap", "mk", "create", "replace", "lock"}
    BY <1>0, <2>1, GotoMoves
  <2>2. ASSUME NextImage(p, "mk", "search")
        PROVE  /\ SameRequest(p)
               /\ h'[p].pc = "mk" \/ (h'[p].pc = "search" /\ h'[p].img = 1)
    BY ZenonT(60), <1>0, <2>2, NextImageMoves
  <2> QED
    BY Zenon, <2>1, <2>2
       DEF At, ZfsUnmount, ZfsSnap, MkChild, MkNothing, MkReplace, MkFirst, MkKeep, MkFresh,
           Create, CreateLock
<1>2. Shrink
  <2>1. CASE UNCHANGED nbdVars /\ \A d \in Disks : child[d] # "none" => child'[d] # "none"
    BY Zenon, <1>0, <2>1, SameShrinks
  <2>2. CASE lsofkill(Disk(p)) /\ delChild(Disk(p))
    <3>1. \A d \in Disks : d # Disk(p) =>
              qst'[d] = qst[d] /\ qdev'[d] = qdev[d] /\ child'[d] = child[d]
      BY Zenon, <1>0, <2>2 DEF lsofkill, delChild, SystemOK
    <3>2. qst'[Disk(p)] = "none"
      BY Zenon, <1>0, <2>2 DEF lsofkill, SystemOK
    <3> QED BY Zenon, <1>0, <3>1, <3>2 DEF Shrink, tgtVars, Devices, Processes
  <2>3. CASE ZfsUnmount(p) \/ ZfsSnap(p) \/ CreateLock(p)
    BY Zenon, <2>1, <2>3 DEF ZfsUnmount, ZfsSnap, CreateLock, diskVars
  <2>4. CASE MkChild(p)
    BY Zenon, <2>1, <2>2, <2>4
       DEF MkChild, MkNothing, MkReplace, MkFirst, MkKeep, MkFresh, diskVars, nbdVars
  <2>5. CASE Create(p)
    <3>1. \A d \in Disks : child[d] # "none" => child'[d] # "none"
      <4>1. \/ child' = child
            \/ \E v \in {"live", "snap"} : child' = [child EXCEPT ![Disk(p)] = v]
        BY Zenon, <2>5 DEF Create
      <4> QED BY Zenon, <1>0, <4>1 DEF SystemOK
    <3> QED BY ZenonT(60), <2>1, <2>5, <3>1 DEF Create
  <2> QED BY <2>3, <2>4, <2>5
<1>3. NoLuns(p)'
    BY ZenonT(60), <1>1, <1>2 DEF HandlerDevices, NoLuns, BootPcs, Shrink, SameRequest
<1>4. \A i \in Images : Exported(i) => qst[<<h[p].ws, i>>] = "none"
    BY Zenon, <1>0, <1>a, <1>1 DEF HandlerDevices, Freed, Before
<1>5. \A i \in Images : Exported(i) => qst'[<<h[p].ws, i>>] = "none"
    BY Zenon, <1>a, <1>2, <1>4 DEF Shrink
<1>6. Freed(p)'
    BY Zenon, <1>0, <1>1, <1>5 DEF Freed, Before, SameRequest, Exported
<1>7. HandlerDevices(p)'
  <2>1. ASSUME NEW i \in Images PROVE ~After(p, i)'
    BY <1>1, BootAssumption DEF After, Images
  <2> QED BY Zenon, <1>0, <1>1, <1>3, <1>6, <2>1 
             DEF HandlerDevices, WhenQueued, Chosen, Asked, Listed
<1> QED BY <1>2, <1>7, ShrinkDevices

\* search_nbd returns a device that neither a qemu-nbd nor a LUN uses.
LEMMA SearchDevices ==
    ASSUME Serial, Types, Devices, NEW p \in Workers, HandlerDevices(p), Search(p)
    PROVE  Devices' /\ HandlerDevices(p)'
<1>0. /\ SystemOK /\ HandlersOK /\ h[p].pc = "search" /\ h[p].ws \in Stations
      /\ h[p].img \in Images
      /\ queue = {} /\ UNCHANGED <<child, nbdVars, tgtVars>>
      /\ (\A d \in Disks : qst[d] \in {"none", "serve"})
    BY WsType DEF Types, Search, At, Settled, Serial, diskVars
<1>1. PICK n \in 0..NbdNbds :
        search_nbd(n) /\ h' = [h EXCEPT ![p].pc = "connect", ![p].dev[h[p].img] = n]
    BY Zenon DEF Search
<1>2. /\ h'[p].pc = "connect" /\ h'[p].ws = h[p].ws /\ h'[p].img = h[p].img
      /\ h'[p].dev = [h[p].dev EXCEPT ![h[p].img] = n]
    BY <1>0, <1>1 DEF HandlersOK, Handler
<1>3. h[p].dev \in [Images -> 0..NbdNbds]
    BY <1>0 DEF HandlersOK, Handler
<1>4. Nbd(p)' = n /\ \A i \in Images : i # h[p].img => h'[p].dev[i] = h[p].dev[i]
    BY <1>0, <1>2, <1>3 DEF Nbd
<1>5. n # 0 => /\ \A d \in Disks : qst[d] # "none" => qdev[d] # n
               /\ \A l \in LunIds : lun[l] # n
  <2> SUFFICES ASSUME n # 0
               PROVE  /\ \A d \in Disks : qst[d] # "none" => qdev[d] # n
                      /\ \A l \in LunIds : lun[l] # n
    OBVIOUS
  <2>1. NbdHolders(n) = {} /\ ~TgtHolds(n)
    BY <1>1 DEF search_nbd, FreeDevs, NbdUsed
  <2> QED BY Zenon, <1>0, <2>1 DEF NbdHolders, TgtHolds, SystemOK, LunIds
<1>6. Devices'
    BY <1>0, SameShrinks, ShrinkDevices
<1>7. WhenQueued(p)' /\ Chosen(p)' /\ NoLuns(p)' /\ Listed(p)'
    BY Zenon, <1>0, <1>2, <1>4, <1>5
       DEF HandlerDevices, WhenQueued, Chosen, NoLuns, Listed, BootPcs, nbdVars, tgtVars
<1>8. Freed(p)'
    BY Zenon, <1>0, <1>2 DEF HandlerDevices, Freed, Before, nbdVars, Exported
<1>9. Asked(p)'
  <2> SUFFICES ASSUME NEW i \in Images, Exported(i), After(p, i)'
               PROVE  Reserved(<<h[p].ws, i>>, h[p].dev[i])'
    BY Zenon DEF Asked, Exported
  <2>1. After(p, i) /\ i # h[p].img
    BY <1>0, <1>2 DEF After, Images
  <2>2. Reserved(<<h[p].ws, i>>, h[p].dev[i])
    BY Zenon, <2>1 DEF HandlerDevices, Asked
  <2> QED BY Zenon, <1>0, <1>2, <1>4, <2>1, <2>2 DEF Reserved, nbdVars, tgtVars
<1> QED BY <1>6, <1>7, <1>8, <1>9 DEF HandlerDevices

\* nbdConnect finds the device as search_nbd has left it, and hands the command
\* to client.lua.
LEMMA ConnectDevices ==
    ASSUME Serial, Types, Devices, NEW p \in Workers, HandlerDevices(p),
           ConnectBlocked(p) \/ Connect(p)
    PROVE  Devices' /\ HandlerDevices(p)'
<1>0. /\ SystemOK /\ HandlersOK /\ h[p].pc = "connect" /\ h[p].ws \in Stations
      /\ h[p].img \in Images /\ Disk(p) \in Disks /\ queue = {} /\ UNCHANGED child
    BY Zenon, WsType DEF Types, ConnectBlocked, Connect, At, Settled, Serial, diskVars
<1>1. ~ConnectBlocked(p)
    BY Zenon, <1>0 DEF ConnectBlocked, NbdUsed, NbdHolders, TgtHolds, HandlerDevices, Chosen, SystemOK, LunIds
<1>2. /\ ImgType[h[p].img] = "iso" \/ Nbd(p) # 0
      /\ queue' = IF ImgType[h[p].img] = "iso" THEN queue ELSE queue \cup {<<Disk(p), Nbd(p)>>}
      /\ NextImage(p, "search", "tgt")
      /\ UNCHANGED <<qst, qdev, tgtVars>>
    BY Zenon, <1>1 DEF Connect
<1>3. /\ SameRequest(p)
      /\ \/ h'[p].pc = "search" /\ h[p].img < NImages /\ h'[p].img = h[p].img + 1
         \/ h'[p].pc = "tgt" /\ h[p].img = NImages /\ h'[p].img = 1
    BY Zenon, <1>0, <1>2, NextImageMoves
<1>4. \A i \in Images : Exported(i) /\ After(p, i)' => After(p, i) \/ i = h[p].img
  <2> SUFFICES ASSUME NEW i \in Images, After(p, i)', i # h[p].img PROVE After(p, i)
    BY Zenon
  <2>1. CASE h'[p].pc = "search" /\ h'[p].img = h[p].img + 1
    <3>1. h'[p].img > i
      BY <2>1 DEF After
    <3>2. h[p].img > i
      BY <1>0, <2>1, <3>1 DEF Images
    <3> QED BY Zenon, <1>0, <3>2 DEF After
  <2>2. CASE h[p].img = NImages
    <3>1. h[p].img > i
      BY <1>0, <2>2 DEF Images
    <3> QED BY Zenon, <1>0, <3>1 DEF After
  <2> QED BY Zenon, <1>3, <2>1, <2>2
<1>5. \A i \in Images : Before(p, i)' => Before(p, i) /\ i # h[p].img
  <2> SUFFICES ASSUME NEW i \in Images, Before(p, i)' PROVE Before(p, i) /\ i # h[p].img
    BY Zenon
  <2>1. h'[p].pc = "search" /\ h'[p].img = h[p].img + 1 /\ h'[p].img <= i
    BY Zenon, <1>3 DEF Before
  <2>2. h[p].img + 1 <= i /\ h[p].img \in Images
    BY Zenon, <1>0, <2>1
  <2>3. h[p].img <= i /\ i # h[p].img
    BY Zenon, <2>2, ImageOrder
  <2> QED BY Zenon, <1>0, <2>3 DEF Before
<1>6. WhenQueued(p)' /\ Chosen(p)' /\ NoLuns(p)' /\ Listed(p)'
    BY Zenon, <1>0, <1>2, <1>3
       DEF HandlerDevices, WhenQueued, Chosen, NoLuns, Listed, BootPcs, tgtVars, SameRequest
<1>7. CASE ~Exported(h[p].img)
  <2>1. UNCHANGED nbdVars
    BY <1>2, <1>7 DEF Exported, nbdVars
  <2>2. Devices'
    BY <1>0, <1>2, <2>1, SameShrinks, ShrinkDevices
  <2>3. Freed(p)'
    BY Zenon, <1>0, <1>3, <1>5, <2>1 DEF HandlerDevices, Freed, SameRequest, nbdVars, Exported
  <2>4. Asked(p)'
    <3> SUFFICES ASSUME NEW j \in Images, Exported(j), After(p, j)'
                 PROVE  Reserved(<<h[p].ws, j>>, h[p].dev[j])'
      BY Zenon DEF Asked, Exported
    <3>1. Reserved(<<h[p].ws, j>>, h[p].dev[j])
      BY Zenon, <1>4, <1>7 DEF HandlerDevices, Asked
    <3> QED BY Zenon, <1>2, <1>3, <2>1, <3>1 DEF Reserved, SameRequest, nbdVars, tgtVars
  <2> QED BY <1>6, <2>2, <2>3, <2>4 DEF HandlerDevices
<1>8. CASE Exported(h[p].img)
  <2> DEFINE d == Disk(p)
             n == Nbd(p)
  <2>1. /\ d \in Disks /\ d[1] = h[p].ws /\ d[2] = h[p].img /\ n = h[p].dev[h[p].img]
        /\ d = <<h[p].ws, h[p].img>>
    BY <1>0 DEF Disk, Nbd
  <2>2. n # 0 /\ queue' = {<<d, n>>}
    BY <1>0, <1>2, <1>8 DEF Exported
  <2>3. /\ \A e \in Disks : qst[e] # "none" => qdev[e] # n
        /\ \A l \in LunIds : lun[l] # n
        /\ \A l \in LunIds : lun[l] # 0 => tgt[l[1]] # h[p].ws
    BY Zenon, <1>0, <2>2 DEF HandlerDevices, Chosen, NoLuns, BootPcs
  <2>4. qst[d] = "none"
    <3>1. Before(p, h[p].img)
      BY <1>0 DEF Before, Images
    <3> QED BY Zenon, <1>0, <1>8, <2>1, <3>1 DEF HandlerDevices, Freed
  <2>5. \A i \in Images : Exported(i) => i = h[p].img
    BY Zenon, <1>0, <1>8 DEF Serial
  <2> HIDE DEF d, n
  <2>6. Commands'
    <3>1. \A l \in LunIds : lun[l] # 0 => Owner(l) # d
      BY Zenon, <2>1, <2>3 DEF Owner
    <3>2. ASSUME NEW c \in queue' PROVE c = <<d, n>> /\ c[1] = d /\ c[2] = n /\ queue' = {c}
      BY <2>2, <3>2
    <3>3. \A l \in LunIds : lun'[l] = lun[l] /\ Owner(l)' = Owner(l)
      BY Zenon, <1>2 DEF Owner, tgtVars
    <3>4. /\ \A e \in Disks : qst'[e] # "none" => qdev'[e] # n
          /\ \A l \in LunIds : lun'[l] # 0 => lun'[l] # n /\ Owner(l)' # d
      BY Zenon, <1>2, <2>3, <3>1, <3>3
    <3> QED BY Zenon, <1>8, <2>1, <3>2, <3>4 DEF Commands, Exported
  <2>7. Devices'
    BY Zenon, <1>0, <1>2, <2>6
       DEF Devices, Targets, Processes, OneEach, Luns, Owner, tgtVars, Exported
  <2>8. Freed(p)'
    BY Zenon, <1>3, <1>5, <2>5 DEF Freed, Exported
  <2>9. Asked(p)'
    <3> SUFFICES ASSUME NEW i \in Images, i = h[p].img
                 PROVE  Reserved(<<h[p].ws, i>>, h[p].dev[i])'
      BY <2>5 DEF Asked, Exported
    <3>1. <<h'[p].ws, i>> = d /\ h'[p].dev[i] = n
      BY <1>3, <2>1 DEF SameRequest
    <3> QED BY Zenon, <1>2, <2>2, <2>3, <2>4, <3>1 DEF Reserved, tgtVars
  <2> QED BY <1>6, <2>7, <2>8, <2>9 DEF HandlerDevices
<1> QED BY <1>7, <1>8

\* LunAdd puts the image's own device behind its LUN.
LEMMA LunDevices ==
    ASSUME Serial, Types, Devices, NEW p \in Workers, HandlerDevices(p),
           TgtStart(p) \/ TgtStarted(p) \/ LunAdd(p)
    PROVE  Devices' /\ HandlerDevices(p)'
<1> DEFINE w == h[p].ws
           i == h[p].img
           l == <<Tid[w], i>>
<1>0. /\ SystemOK /\ HandlersOK /\ h[p].pc \in {"tgt", "lun"} /\ w \in Stations
      /\ i \in Images /\ Tid[w] \in Tids /\ l \in LunIds
      /\ queue = {} /\ UNCHANGED <<child, nbdVars>>
    BY Zenon, WsType DEF Types, TgtStart, TgtStarted, LunAdd, At, Settled, Serial, diskVars, LunIds
<1> HIDE DEF w, i, l
<1>1. CASE TgtStart(p)
  <2>1. /\ tgt' = tgt \/ (tgt[Tid[w]] = None /\ tgt' = [tgt EXCEPT ![Tid[w]] = w])
        /\ UNCHANGED <<lun, h>> /\ h[p].pc = "tgt"
    BY ZenonT(60), <1>1 DEF TgtStart, At, w
  <2>2. \A k \in LunIds : lun[k] # 0 => tgt'[k[1]] = tgt[k[1]]
    <3>1. \A k \in LunIds : k[1] \in Tids
      BY DEF LunIds
    <3> QED BY Zenon, <1>0, <2>1, <3>1 DEF Devices, Luns, SystemOK
  <2>3. Targets'
    <3>1. ASSUME NEW t \in Tids, tgt'[t] # None PROVE Tid[tgt'[t]] = t
      <4>1. CASE tgt'[t] = tgt[t]
        BY Zenon, <3>1, <4>1 DEF Devices, Targets
      <4>2. CASE t = Tid[w] /\ tgt'[t] = w
        BY Zenon, <4>2
      <4> QED BY Zenon, <1>0, <2>1, <4>1, <4>2 DEF SystemOK
    <3> QED BY Zenon, <3>1 DEF Targets
  <2>4. Devices'
    <3>1. Luns'
      <4> SUFFICES ASSUME NEW k \in LunIds, lun[k] # 0
                   PROVE  /\ tgt'[k[1]] # None /\ k[1] <= 9 /\ Exported(k[2])
                          /\ \A d \in Disks :
                                qst[d] # "none" => (qdev[d] = lun[k] <=> d = Owner(k)')
        BY Zenon, <1>0, <2>1 DEF Luns, nbdVars, Exported
      <4>1. tgt'[k[1]] = tgt[k[1]] /\ Owner(k)' = Owner(k)
        BY Zenon, <2>2 DEF Owner
      <4> QED BY Zenon, <4>1 DEF Devices, Luns
    <3>2. Commands'
      BY Zenon, <1>0 DEF Commands, nbdVars
    <3> QED BY Zenon, <1>0, <2>3, <3>1, <3>2 DEF Devices, Processes, OneEach, nbdVars, Exported
  <2>5. HandlerDevices(p)'
    BY Zenon, <1>0, <2>1 DEF HandlerDevices, WhenQueued, NoLuns, Freed, Before, Chosen, Asked, After,
                      Reserved, Listed, nbdVars, Exported
  <2> QED BY <2>4, <2>5
<1>2. CASE TgtStarted(p)
  <2>1. SameRequest(p) /\ h'[p].pc = "lun" /\ h[p].pc = "tgt" /\ UNCHANGED tgtVars /\ TgtUsed(w)
    BY Zenon, <1>0, <1>2, GotoMoves DEF TgtStarted, At, w
  <2>2. Devices'
    BY Zenon, <1>0, <2>1, SameShrinks, ShrinkDevices
  <2>3. Asked(p)'
    <3> SUFFICES ASSUME NEW j \in Images, Exported(j)
                 PROVE  Reserved(<<h[p].ws, j>>, h[p].dev[j])'
      BY Zenon DEF Asked, Exported
    <3>1. Reserved(<<h[p].ws, j>>, h[p].dev[j])
      BY Zenon, <2>1 DEF HandlerDevices, Asked, After
    <3> QED BY Zenon, <1>0, <2>1, <3>1 DEF Reserved, SameRequest, nbdVars, tgtVars
  <2>4. Listed(p)'
    BY Zenon, <2>1 DEF Listed, TgtUsed, tgtVars, SameRequest, w
  <2>5. HandlerDevices(p)'
    BY Zenon, <1>0, <2>1, <2>3, <2>4
       DEF HandlerDevices, WhenQueued, NoLuns, Freed, Before, Chosen, nbdVars
  <2> QED BY <2>2, <2>5
<1>3. CASE LunAdd(p)
  <2>0. h[p].pc = "lun" /\ UNCHANGED tgt /\ tgt[Tid[w]] = w /\ Tid[w] <= 9
    BY Zenon, <1>3 DEF LunAdd, At, HandlerDevices, Listed, TgtUsed, w
  <2>1. \/ h'[p].pc = "idle"
        \/ SameRequest(p) /\ h'[p].pc = "lun" /\ h'[p].img = i + 1
    <3>1. CASE i < NImages
      <4>1. NextImage(p, "lun", "lun")
        BY Zenon, <1>3, <3>1 DEF LunAdd, LunDone, i
      <4>2. i # NImages
        BY <1>0, <3>1, BootAssumption DEF Images
      <4> QED BY Zenon, <1>0, <4>1, <4>2, NextImageMoves DEF i
    <3>2. CASE ~(i < NImages)
      <4>1. h' = [h EXCEPT ![p] = Idle]
        BY ZenonT(60), <1>3, <3>2 DEF LunAdd, LunDone, i
      <4> QED BY Zenon, <1>0, <4>1, IdleType DEF HandlersOK
    <3> QED BY Zenon, <3>1, <3>2
  <2>2. CASE UNCHANGED lun
    <3>1. Devices'
      BY Zenon, <1>0, <2>0, <2>2 DEF Devices, Targets, Processes, OneEach, Luns, Commands, Owner, nbdVars, Exported
    <3>2. Asked(p)'
      <4> SUFFICES ASSUME NEW j \in Images, Exported(j), After(p, j)'
                   PROVE  Reserved(<<h[p].ws, j>>, h[p].dev[j])'
        BY Zenon DEF Asked, Exported
      <4>0. SameRequest(p) /\ h'[p].pc = "lun" /\ h'[p].img = i + 1
        BY Zenon, <2>1 DEF After
      <4>a. i + 1 <= j => i <= j
        BY <1>0 DEF Images
      <4>1. After(p, j) /\ SameRequest(p)
        BY Zenon, <2>0, <4>0, <4>a DEF After, i
      <4>2. Reserved(<<h[p].ws, j>>, h[p].dev[j])
        BY Zenon, <4>1 DEF HandlerDevices, Asked
      <4> QED BY Zenon, <1>0, <2>2, <4>1, <4>2 DEF Reserved, nbdVars, SameRequest
    <3>3. Listed(p)'
      BY Zenon, <2>0, <2>1 DEF Listed, TgtUsed, SameRequest, w
    <3> QED BY Zenon, <1>0, <2>1, <3>1, <3>2, <3>3
            DEF HandlerDevices, WhenQueued, NoLuns, Freed, Before, Chosen, BootPcs, nbdVars
  <2>3. CASE Exported(i) /\ lun' = [lun EXCEPT ![l] = Nbd(p)]
    <3>1. Reserved(<<w, i>>, Nbd(p))
      <4>1. After(p, i)
        <5>1. i <= i
          BY Zenon, <1>0, ImageOrder
        <5> QED BY Zenon, <2>0, <5>1 DEF After, i
      <4> QED BY Zenon, <1>0, <2>3, <4>1 DEF HandlerDevices, Asked, Nbd, w, i
    <3>2. Owner(l) = <<w, i>> /\ l[1] = Tid[w] /\ l[2] = i
      BY Zenon, <2>0 DEF Owner, l
    <3>3. /\ lun'[l] = Nbd(p)
          /\ \A k \in LunIds : k # l => lun'[k] = lun[k]
      BY Zenon, <1>0, <2>3 DEF SystemOK, LunIds
    <3>4. Luns'
      <4> SUFFICES ASSUME NEW k \in LunIds, lun'[k] # 0
                   PROVE  /\ tgt[k[1]] # None /\ k[1] <= 9 /\ Exported(k[2])
                          /\ \A d \in Disks : qst[d] # "none" => (qdev[d] = lun'[k] <=> d = Owner(k))
        BY ZenonT(60), <1>0, <2>0 DEF Luns, Owner, Exported, nbdVars
      <4>1. CASE k = l
        <5>1. /\ tgt[k[1]] # None /\ k[1] <= 9 /\ Exported(k[2])
          BY Zenon, <1>0, <2>0, <2>3, <3>2, <4>1, BootAssumption
        <5>2. \A d \in Disks : qst[d] # "none" => (qdev[d] = lun'[k] <=> d = Owner(k))
          BY ZenonT(60), <3>1, <3>2, <3>3, <4>1 DEF Reserved
        <5> QED BY ZenonT(60), <5>1, <5>2
      <4>2. CASE k # l
        BY Zenon, <3>3, <4>2 DEF Devices, Luns
      <4> QED BY ZenonT(60), <4>1, <4>2
    <3>5. Devices'
      BY ZenonT(60), <1>0, <2>0, <3>4 DEF Devices, Targets, Processes, OneEach, Commands, nbdVars, Exported
    <3>6. Asked(p)'
      <4>1. \A j \in Images : Exported(j) => j = i
        BY ZenonT(60), <1>0, <2>3 DEF Serial
      <4>2. ASSUME NEW j \in Images, j = i PROVE ~After(p, j)'
        BY <1>0, <2>1, <4>2 DEF After, Images
      <4> QED BY Zenon, <4>1, <4>2 DEF Asked, Exported
    <3>7. Listed(p)'
      BY Zenon, <2>0, <2>1 DEF Listed, TgtUsed, SameRequest, w
    <3> QED BY Zenon, <1>0, <2>1, <3>5, <3>6, <3>7
            DEF HandlerDevices, WhenQueued, NoLuns, Freed, Before, Chosen, BootPcs, nbdVars
  <2> QED BY Zenon, <1>3, <2>2, <2>3 DEF LunAdd, Exported, l, i, w
<1> QED BY <1>1, <1>2, <1>3

\* Outside the boot pipeline the handler says nothing of devices.
LEMMA OtherHandler ==
    ASSUME NEW p \in Workers,
           \/ h'[p].pc = "idle"
           \/ h'[p].pc \in {"stop", "cstop", "ccommit", "csave", "cwait"} /\ queue' = {}
    PROVE  HandlerDevices(p)'
BY Zenon DEF HandlerDevices, WhenQueued, NoLuns, Freed, Before, Chosen, Asked, After, Listed, BootPcs

\* A handler that dies leaves everything as it is.
LEMMA EndDevices ==
    ASSUME Types, Devices, NEW p \in Workers, ConnectError(p) \/ Crash(p)
    PROVE  Devices' /\ HandlerDevices(p)'
<1>1. /\ UNCHANGED <<child, nbdVars, tgtVars>> /\ h' = [h EXCEPT ![p] = Idle]
    BY Zenon DEF ConnectError, Crash, HangUp, diskVars
<1>2. h'[p].pc = "idle"
    BY <1>1, IdleType DEF Types, HandlersOK
<1> QED BY <1>1, <1>2, OtherHandler, SameShrinks, ShrinkDevices

\* The requests start with everything settled.
LEMMA RequestDevices ==
    ASSUME Serial, Types, Devices, NEW p \in Workers, HandlerDevices(p),
           NEW w \in Stations, Request(p, w)
    PROVE  Devices' /\ HandlerDevices(p)'
<1>0. /\ SystemOK /\ HandlersOK /\ h[p].pc = "idle"
      /\ queue = {} /\ UNCHANGED <<child, nbdVars, tgtVars>>
    BY DEF Types, Request, GetBootArgs, SuperTrue, DisableUncommit, DisableCommitPoint,
           DisableCommit, At, Settled, Serial, diskVars
<1>1. Devices'
    BY <1>0, SameShrinks, ShrinkDevices
<1>2. h'[p].pc \in {"idle", "stop", "cstop"}
  <2>1. CASE GetBootArgs(p, w)
    BY <1>0, <2>1, IdleType DEF GetBootArgs, HandlersOK, Handler
  <2>2. CASE DisableCommit(p, w)
    BY <1>0, <2>2, IdleType DEF DisableCommit, HandlersOK, Handler
  <2>3. CASE UNCHANGED h
    BY <1>0, <2>3
  <2> QED BY Zenon, <2>1, <2>2, <2>3
          DEF Request, SuperTrue, DisableUncommit, DisableCommitPoint
<1> QED BY Zenon, <1>0, <1>1, <1>2, OtherHandler DEF nbdVars

\* disableCommit stops the target and the qemu-nbd of the station.
LEMMA CommitDevices ==
    ASSUME Serial, Types, Devices, NEW p \in Workers, HandlerDevices(p), CommitStep(p)
    PROVE  Devices' /\ HandlerDevices(p)'
<1>0. /\ SystemOK /\ HandlersOK /\ h[p].pc # "idle" /\ h[p].ws \in Stations
      /\ queue = {} /\ UNCHANGED <<child, qdev, queue>>
    BY Zenon, WsType DEF Types, CommitStep, CommitStop, CommitStart, CommitSave, CommitWait, At, Settled, Serial,
                  diskVars, nbdVars
<1>1. h'[p].pc \in {"idle", "cstop", "ccommit", "csave", "cwait"}
    BY Zenon, <1>0, CommitMoves
<1>2. HandlerDevices(p)'
    BY <1>0, <1>1, OtherHandler
<1>3. CASE UNCHANGED <<qst, tgtVars>>
    BY Zenon, <1>0, <1>2, <1>3, SameShrinks, ShrinkDevices DEF nbdVars
<1>4. CASE tgtstop(h[p].ws) /\ nbdDisconnect(Connected(h[p].ws))
  <2>1. \A d \in Disks : qst'[d] # "none" =>
            /\ qst[d] # "none" /\ qdev'[d] = qdev[d] /\ child'[d] # "none"
            /\ qst[d] = "exit" => qst'[d] = "exit"
    BY Zenon, <1>0, <1>4, DisconnectShrinks DEF Connected
  <2>2. Shrink
    BY Zenon, <1>0, <1>4, <2>1, TgtStopShrinks DEF Shrink
  <2> QED BY <1>2, <2>2, ShrinkDevices
<1> QED BY ZenonT(60), <1>3, <1>4 DEF CommitStep, CommitStop, CommitStart, CommitSave, CommitWait, nbdVars

\* A qemu-nbd that starts takes the device it was told to use, and finds it free.
LEMMA ExecuteDevices ==
    ASSUME Serial, Types, Devices, NEW p \in Workers, HandlerDevices(p),
           NEW d \in Disks, NEW n \in Devs, Execute(d, n)
    PROVE  Devices' /\ HandlerDevices(p)'
<1> DEFINE c == <<d, n>>
<1>0. /\ SystemOK /\ HandlersOK /\ c \in queue /\ c[1] = d /\ c[2] = n
      /\ UNCHANGED <<child, tgtVars, h>> /\ queue' = queue \ {c}
    BY Zenon DEF Types, Execute, diskVars
<1> HIDE DEF c
<1>1. /\ queue = {c} /\ queue' = {} /\ Exported(d[2])
      /\ \A e \in Disks : qst[e] # "none" => qdev[e] # n
      /\ \A l \in LunIds : lun[l] # 0 => lun[l] # n /\ Owner(l) # d
    BY <1>0 DEF Devices, Commands
<1>2. h[p].pc \in {"idle", "search", "tgt"}
    BY <1>0 DEF HandlerDevices, WhenQueued
<1>3. \A i \in Images : Exported(i) => ~Before(p, i)
    BY Zenon, <1>0 DEF HandlerDevices, Freed
<1>4. Commands' /\ WhenQueued(p)' /\ NoLuns(p)' /\ Freed(p)' /\ Chosen(p)' /\ Listed(p)'
    BY Zenon, <1>0, <1>1, <1>2, <1>3
       DEF HandlerDevices, Commands, WhenQueued, NoLuns, Freed, Before, Chosen, Listed,
           tgtVars, Exported
<1>5. CASE UNCHANGED <<qst, qdev>>
  <2>1. Asked(p)'
    BY Zenon, <1>0, <1>1, <1>5 DEF HandlerDevices, Asked, After, Reserved, tgtVars, Exported
  <2>2. Devices'
    BY Zenon, <1>0, <1>4, <1>5 DEF Devices, Targets, Processes, OneEach, Luns, Owner, tgtVars, Exported
  <2> QED BY <1>4, <2>1, <2>2 DEF HandlerDevices
<1>6. CASE /\ child[d] # "none" /\ qst[d] = "none"
           /\ qst' = [qst EXCEPT ![d] = "open"] /\ qdev' = [qdev EXCEPT ![d] = n]
  <2>1. /\ qst'[d] # "none" /\ qdev'[d] = n /\ n # 0
        /\ \A e \in Disks : e # d => qst'[e] = qst[e] /\ qdev'[e] = qdev[e]
    BY <1>6 DEF Types, SystemOK, Devs
  <2>2. Processes' /\ OneEach'
    <3>1. ASSUME NEW e \in Disks, qst'[e] # "none"
          PROVE  child'[e] # "none" /\ qdev'[e] # 0 /\ Exported(e[2])
      <4>1. CASE e = d
        BY Zenon, <1>0, <1>1, <1>6, <2>1, <4>1
      <4>2. CASE e # d
        BY Zenon, <1>0, <2>1, <3>1, <4>2 DEF Devices, Processes
      <4> QED BY Zenon, <4>1, <4>2
    <3>2. ASSUME NEW e \in Disks, NEW f \in Disks, qst'[e] # "none", qst'[f] # "none",
                 qdev'[e] = qdev'[f]
          PROVE  e = f
      <4>1. CASE e # d /\ f # d
        BY Zenon, <2>1, <3>2, <4>1 DEF Devices, OneEach
      <4>2. CASE e = d /\ f # d
        BY Zenon, <1>1, <2>1, <3>2, <4>2
      <4>3. CASE e # d /\ f = d
        BY Zenon, <1>1, <2>1, <3>2, <4>3
      <4> QED BY Zenon, <4>1, <4>2, <4>3
    <3> QED BY Zenon, <3>1, <3>2 DEF Processes, OneEach, Exported
  <2>3. Luns'
    <3> SUFFICES ASSUME NEW l \in LunIds, lun[l] # 0, NEW e \in Disks, qst'[e] # "none"
                 PROVE  qdev'[e] = lun[l] <=> e = Owner(l)
      BY Zenon, <1>0 DEF Devices, Luns, Owner, tgtVars, Exported
    <3>1. CASE e = d
      BY Zenon, <1>0, <1>1, <2>1, <3>1
    <3>2. CASE e # d
      BY Zenon, <2>1, <3>2 DEF Devices, Luns
    <3> QED BY <3>1, <3>2
  <2>4. Devices'
    BY Zenon, <1>0, <1>4, <2>2, <2>3 DEF Devices, Targets, tgtVars
  <2>5. Asked(p)'
    <3> SUFFICES ASSUME NEW i \in Images, Exported(i), After(p, i)
                 PROVE  Reserved(<<h[p].ws, i>>, h[p].dev[i])'
      BY Zenon, <1>0 DEF Asked, After, Exported
    <3>1. Reserved(<<h[p].ws, i>>, h[p].dev[i])
      BY DEF HandlerDevices, Asked
    <3>2. d = <<h[p].ws, i>> /\ n = h[p].dev[i]
      BY Zenon, <1>0, <3>1 DEF Reserved, c
    <3> QED BY Zenon, <1>0, <1>1, <2>1, <3>1, <3>2 DEF Reserved, tgtVars
  <2> QED BY <1>4, <2>4, <2>5 DEF HandlerDevices
<1> QED BY ZenonT(60), <1>5, <1>6 DEF Execute, ImgUsed

\* What the programs and the stations do besides leaves the devices in order.
LEMMA ProgramDevices ==
    ASSUME Types, Devices, NEW p \in Workers, HandlerDevices(p),
           \/ \E d \in Disks : Attach(d) \/ Exit(d) \/ CommitBegin(d) \/ CommitEnd(d)
           \/ \E w \in Stations : Station(w)
    PROVE  Devices' /\ HandlerDevices(p)'
<1>0. SystemOK /\ HandlersOK /\ h[p] \in Handler
    BY DEF Types, HandlersOK
<1>1. UNCHANGED <<child, tgtVars, queue>>
    BY Zenon DEF Attach, Exit, CommitBegin, CommitEnd, Station, SanBoot, PowerOff, Write,
                 diskVars, nbdVars
<1>2. Shrink
  <2>1. CASE UNCHANGED nbdVars
    BY <1>1, <2>1, SameShrinks
  <2>2. ASSUME NEW d \in Disks, Attach(d) \/ Exit(d) PROVE Shrink
    <3>1. \A e \in Disks : e # d => qst'[e] = qst[e] /\ qdev'[e] = qdev[e]
      BY Zenon, <1>0, <2>2 DEF Attach, Exit, SystemOK
    <3>2. qst'[d] # "none" => qst[d] = "open" /\ qdev'[d] = qdev[d]
      <4>1. CASE Attach(d)
        BY ZenonT(30), <1>0, <4>1 DEF Attach, SystemOK
      <4>2. CASE Exit(d)
        BY ZenonT(30), <1>0, <4>2 DEF Exit, SystemOK
      <4> QED BY Zenon, <2>2, <4>1, <4>2
    <3> QED BY ZenonT(60), <1>1, <3>1, <3>2 DEF Shrink, Devices, Processes, tgtVars
  <2> QED BY Zenon, <2>1, <2>2 DEF CommitBegin, CommitEnd, Station, SanBoot, PowerOff, Write
<1>3. /\ h'[p].pc = h[p].pc /\ h'[p].img = h[p].img /\ h'[p].ws = h[p].ws
      /\ h'[p].dev = h[p].dev
  <2>1. CASE UNCHANGED h
    BY Zenon, <2>1
  <2> QED BY Zenon, <1>0, <2>1, PowerOffMoves
          DEF Attach, Exit, CommitBegin, CommitEnd, Station, SanBoot, Write
<1>4. lun \in [LunIds -> 0..NbdNbds] /\ UNCHANGED tgt
    BY <1>0, <1>1 DEF SystemOK, LunIds, tgtVars
<1>5. HandlerDevices(p)'
    BY Zenon, <1>0, <1>2, <1>3, <1>4, ShrinkHandler
<1> QED BY <1>2, <1>5, ShrinkDevices

-----------------------------------------------------------------------------
(***************************************************************************)
(* The results.                                                            *)
(***************************************************************************)
DeviceInv == Types /\ Devices /\ \A p \in Workers : HandlerDevices(p)

\* At the start there are no processes and no LUNs, ...
LEMMA DeviceInit == Init => DeviceInv
<1> SUFFICES ASSUME Init PROVE DeviceInv
    OBVIOUS
<1>1. Types
    BY TypingInit
<1>2. Devices
    BY Zenon DEF Init, Devices, Targets, Processes, OneEach, Luns, Commands, LunIds
<1>3. ASSUME NEW p \in Workers PROVE HandlerDevices(p)
  <2>1. h[p].pc = "idle"
    BY IdleType DEF Init
  <2> QED BY Zenon, <2>1 DEF HandlerDevices, WhenQueued, NoLuns, Freed, Before, Chosen, Asked, After,
                      Listed, BootPcs
<1> QED BY <1>1, <1>2, <1>3 DEF DeviceInv

\* ... and every step keeps them in order.
LEMMA DeviceStep == Serial /\ DeviceInv /\ [Next]_vars => DeviceInv'
<1> SUFFICES ASSUME Serial, DeviceInv, [Next]_vars PROVE DeviceInv'
    OBVIOUS
<1>0. PICK p : Workers = {p}
    BY DEF Serial, OneWorker
<1>1. p \in Workers /\ Types /\ Devices /\ HandlerDevices(p) /\ Types'
    BY <1>0, TypingStep DEF DeviceInv
<1> SUFFICES Devices' /\ HandlerDevices(p)'
    BY <1>0, <1>1 DEF DeviceInv
<1>2. CASE UNCHANGED vars
  <2>1. UNCHANGED <<child, nbdVars, tgtVars, h>>
    BY Zenon, <1>2 DEF vars, diskVars
  <2>2. Devices'
    BY <1>1, <2>1, SameShrinks, ShrinkDevices
  <2>3. HandlerDevices(p)'
    BY ZenonT(60), <1>1, <2>1
       DEF HandlerDevices, WhenQueued, NoLuns, Freed, Before, Chosen, Asked, After, Nbd,
           Reserved, Listed, TgtUsed, nbdVars, tgtVars, Exported
  <2> QED BY <2>2, <2>3
<1>3. CASE BootStep(p)
    BY Zenon, <1>1, <1>3, StopDevices, ChildDevices, SearchDevices, ConnectDevices, LunDevices,
       EndDevices DEF BootStep
<1>4. CASE CommitStep(p) \/ Crash(p)
    BY <1>1, <1>4, CommitDevices, EndDevices
<1>5. ASSUME NEW w \in Stations, Request(p, w) \/ Station(w)
      PROVE  Devices' /\ HandlerDevices(p)'
    BY <1>1, <1>5, RequestDevices, ProgramDevices
<1>6. ASSUME NEW d \in Disks, Attach(d) \/ Exit(d) \/ CommitBegin(d) \/ CommitEnd(d)
      PROVE  Devices' /\ HandlerDevices(p)'
    BY <1>1, <1>6, ProgramDevices
<1>7. ASSUME NEW d \in Disks, NEW n \in Devs, Execute(d, n) \/ Lose(d, n)
      PROVE  Devices' /\ HandlerDevices(p)'
    BY <1>1, <1>7, ExecuteDevices DEF Lose, Serial
<1> QED BY Zenon, <1>0, <1>2, <1>3, <1>4, <1>5, <1>6, <1>7 DEF Next, Step, Attaching, Committing

\* The device invariant holds throughout.
LEMMA DevicesHold == ASSUME Serial PROVE Spec => []DeviceInv
<1>1. Init => DeviceInv
    BY DeviceInit
<1>2. DeviceInv /\ [Next]_vars => DeviceInv'
    BY DeviceStep
<1> QED BY <1>1, <1>2, PTL DEF Spec

\* What a LUN shows is the child it was made for.
LEMMA DevicesOwn == Devices => OwnDisk
<1> SUFFICES ASSUME Devices, NEW w \in Stations, NEW i \in Images, NEW d \in Seen(w, i)
             PROVE  d = <<w, i>>
    BY DEF OwnDisk
<1> DEFINE l == <<Tid[w], i>>
<1>1. /\ tgt[Tid[w]] = w /\ lun[l] # 0
      /\ d \in Disks /\ qst[d] = "serve" /\ qdev[d] = lun[l]
    BY DEF Seen
<1>2. l \in LunIds
    BY DEF LunIds, Tids
<1>3. d = Owner(l)
    BY Zenon, <1>1, <1>2 DEF Devices, Luns
<1> QED BY <1>1, <1>3 DEF Owner

\* A LUN that nbdConnect and LunAdd made for an image shows the child of that
\* station and image, or nothing.
THEOREM OwnDisks == ASSUME Serial PROVE Spec => []OwnDisk
<1>1. DeviceInv => OwnDisk
    BY DevicesOwn DEF DeviceInv
<1> QED BY <1>1, DevicesHold, PTL

\* "Just restart your computer and the system state will return": mkChild leaves
\* to an image that is not in super mode an empty child over a snapshot, and
\* nobody writes to it before the station boots.
THEOREM Restored == ASSUME Serial PROVE Spec => []RestartRestores
<1>1. OneWorker
    BY DEF Serial
<1> QED BY <1>1, OwnDisks, OwnDiskIsEnough, PTL

\* Whatever the page does to the mode of a running station, the images it booted in
\* normal mode stay over a snapshot, where no commit finds them.
THEOREM OffBase == ASSUME Serial PROVE Spec => []NormalOffBase
<1>1. OneWorker
    BY DEF Serial
<1> QED BY <1>1, OwnDisks, OwnDiskIsEnough, PTL

\* "No unauthorized changes": no sequence of boots, commits, switches of mode
\* and crashes brings what was written outside super mode into a base image.
THEOREM Unchanged == ASSUME Serial PROVE Spec => []NoUnauthorizedChanges
<1>1. OneWorker
    BY DEF Serial
<1> QED BY <1>1, OwnDisks, OwnDiskIsEnough, PTL

-----------------------------------------------------------------------------
(***************************************************************************)
(* The snapshots.                                                          *)
(***************************************************************************)

\* zfsmount has destroyed the snapshot of the file images.
Unmounted(p) ==
    h[p].pc = "snap" =>
        \A i \in Images : ImgType[i] = "dyndisk" => snap[<<h[p].ws, i>>] = "none"

\* zfsmount: no qemu-nbd is left on a child over the snapshot, and no commit runs
\* on one, so umount and zfs destroy succeed.
LEMMA NotBusy ==
    ASSUME Serial, DeviceInv, StoredInv, NEW p \in Workers,
           h[p].pc \in {"unmount", "snap"}, Settled, NEW i \in Images
    PROVE  <<h[p].ws, i>> \in Disks /\ ~SnapBusy(<<h[p].ws, i>>)
<1>0. Types /\ HandlersOK /\ Stored /\ HandlerDevices(p)
    BY DEF DeviceInv, StoredInv, Types
<1>1. \A j \in Images : <<h[p].ws, j>> \in Disks
    BY Zenon, <1>0, WsType DEF Disks
<1>2. ASSUME NEW j \in Images, child[<<h[p].ws, j>>] = "snap"
      PROVE  ~ImgUsed(<<h[p].ws, j>>)
  <2>1. com[<<h[p].ws, j>>] # "running"
    BY <1>0, <1>1, <1>2 DEF Stored, OverLive
  <2>2. Exported(j)
    BY <1>0, <1>1, <1>2 DEF Stored, HasChild
  <2>3. qst[<<h[p].ws, j>>] = "none"
    BY Zenon, <1>0, <1>1, <2>2 DEF HandlerDevices, Freed, Before, Settled, Serial
  <2> QED BY Zenon, <2>1, <2>3 DEF ImgUsed
<1> QED BY Zenon, <1>1, <1>2 DEF SnapBusy

\* The places of a boot request around zfsmount.
LEMMA SnapMoves ==
    ASSUME HandlersOK, NEW p \in Workers, BootStep(p)
    PROVE  /\ h'[p].pc = "snap" => ZfsUnmount(p)
           /\ h[p].pc = "snap" => ZfsSnap(p)
<1>1. ASSUME NEW pc, pc # "snap", Goto(p, pc) PROVE h'[p].pc # "snap"
    BY Zenon, <1>1, GotoMoves
<1>2. ASSUME NEW again, NEW after, again # "snap", after # "snap", NextImage(p, again, after)
      PROVE  h'[p].pc # "snap"
    BY ZenonT(30), <1>2, NextImageMoves
<1>3. ASSUME h' = [h EXCEPT ![p] = Idle] PROVE h'[p].pc # "snap"
  <2>1. h'[p].pc = "idle"
    BY Zenon, <1>3, IdleType DEF HandlersOK
  <2> QED BY <2>1
<1>4. CASE TgtStop(p) \/ NbdFree(p) \/ TgtStarted(p) \/ CreateLock(p) \/ Connect(p)
    BY Zenon, <1>1, <1>2, <1>4 DEF TgtStop, NbdFree, TgtStarted, CreateLock, Connect, At
<1>5. CASE MkChild(p)
    BY Zenon, <1>1, <1>2, <1>5 DEF MkChild, MkNothing, MkReplace, MkFirst, MkKeep, MkFresh, At
<1>6. CASE Create(p)
    BY Zenon, <1>1, <1>2, <1>6 DEF Create, At
<1>7. CASE Search(p)
    BY Zenon, <1>7, SearchMoves
<1>8. CASE ConnectBlocked(p) \/ TgtStart(p)
    BY Zenon, <1>8 DEF ConnectBlocked, TgtStart, At
<1>9. CASE ConnectError(p) \/ LunAdd(p)
    BY Zenon, <1>2, <1>3, <1>9 DEF ConnectError, HangUp, LunAdd, LunDone, At
<1>10. CASE ZfsUnmount(p) \/ ZfsSnap(p)
    BY Zenon, <1>1, <1>10 DEF ZfsUnmount, ZfsSnap, At
<1> QED BY Zenon, <1>4, <1>5, <1>6, <1>7, <1>8, <1>9, <1>10 DEF BootStep

\* Every other step leaves a handler in zfsmount where it is.
LEMMA SnapWaits ==
    ASSUME HandlersOK, NEW p \in Workers, Workers = {p}, [Next]_vars, ~BootStep(p),
           h'[p].pc = "snap"
    PROVE  /\ h[p].pc = "snap" /\ h'[p].ws = h[p].ws
           /\ \A d \in Disks : snap[d] = "none" => snap'[d] = "none"
<1>1. ~CommitStep(p)
  <2>1. CommitStep(p) => h'[p].pc \in {"idle", "cstop", "ccommit", "csave", "cwait"}
    BY Zenon, CommitMoves
  <2> QED BY <2>1
<1>2. ~Crash(p)
  <2>1. Crash(p) => h'[p].pc = "idle"
    BY Zenon, IdleType DEF Crash, HangUp, HandlersOK
  <2> QED BY <2>1
<1>3. ASSUME NEW w \in Stations PROVE ~GetBootArgs(p, w) /\ ~DisableCommit(p, w)
  <2>1. GetBootArgs(p, w) => h'[p].pc = "stop"
    BY IdleType DEF GetBootArgs, HandlersOK, Handler
  <2>2. DisableCommit(p, w) => h'[p].pc = "cstop"
    BY IdleType DEF DisableCommit, HandlersOK, Handler
  <2> QED BY <2>1, <2>2
<1>4. CASE UNCHANGED <<h, snap>>
    BY Zenon, <1>4
<1>5. ASSUME NEW w \in Stations, Request(p, w) \/ Station(w)
      PROVE  UNCHANGED snap /\ (UNCHANGED h \/ PowerOff(w))
    BY Zenon, <1>3, <1>5
       DEF Request, SuperTrue, DisableUncommit, DisableCommitPoint, Station, SanBoot, PowerOff,
           Write, storeVars
<1>6. ASSUME NEW w \in Stations, Request(p, w) \/ Station(w)
      PROVE  /\ h[p].pc = "snap" /\ h'[p].ws = h[p].ws
             /\ \A d \in Disks : snap[d] = "none" => snap'[d] = "none"
    BY Zenon, <1>5, <1>6, PowerOffMoves
<1>7. ASSUME NEW d \in Disks, CommitBegin(d) \/ CommitEnd(d)
      PROVE  /\ h[p].pc = "snap" /\ h'[p].ws = h[p].ws
             /\ \A e \in Disks : snap[e] = "none" => snap'[e] = "none"
  <2>1. UNCHANGED h /\ (UNCHANGED snap \/ outdate(d[2]))
    BY Zenon, <1>7 DEF CommitBegin, CommitEnd
  <2> QED BY Zenon, <2>1 DEF outdate
<1>8. CASE Attaching \/ \E d \in Disks, n \in Devs : Lose(d, n)
    BY Zenon, <1>4, <1>8 DEF Attaching, Attach, Exit, Execute, Lose, storeVars
<1>9. CASE UNCHANGED vars
    BY Zenon, <1>4, <1>9 DEF vars, storeVars
<1> QED BY Zenon, <1>1, <1>2, <1>6, <1>7, <1>8, <1>9 DEF Next, Step, Committing

\* The snapshots that zfsmount destroys stay destroyed until it makes new ones.
SnapInv == DeviceInv /\ StoredInv /\ \A p \in Workers : Unmounted(p)

\* zfsmount finds nothing busy, and a commit makes no snapshot.
LEMMA SnapStep == Serial /\ SnapInv /\ [Next]_vars => SnapInv'
<1> SUFFICES ASSUME Serial, SnapInv, [Next]_vars PROVE SnapInv'
    OBVIOUS
<1>0. PICK p : Workers = {p}
    BY DEF Serial, OneWorker
<1>1. /\ p \in Workers /\ DeviceInv /\ StoredInv /\ HandlersOK /\ Unmounted(p)
      /\ DeviceInv' /\ StoredInv'
    BY <1>0, DeviceStep, StoredStep DEF SnapInv, Serial, DeviceInv, Types
<1>2. ASSUME h'[p].pc = "snap", NEW i \in Images, ImgType[i] = "dyndisk"
      PROVE  snap'[<<h'[p].ws, i>>] = "none"
  <2>1. CASE BootStep(p)
    <3>1. ZfsUnmount(p)
      BY Zenon, <1>1, <1>2, <2>1, SnapMoves
    <3>2. h[p].pc = "unmount" /\ Settled /\ Goto(p, "snap")
      BY Zenon, <3>1 DEF ZfsUnmount, At
    <3>3. <<h[p].ws, i>> \in Disks /\ ~SnapBusy(<<h[p].ws, i>>)
      BY Zenon, <1>1, <3>2, NotBusy
    <3>4. <<h[p].ws, i>> \in OfType(h[p].ws, "dyndisk")
      BY <1>2, <3>3 DEF OfType
    <3>5. h'[p].ws = h[p].ws
      BY Zenon, <1>1, <3>2, GotoMoves DEF SameRequest
    <3> QED BY Zenon, <3>1, <3>3, <3>4, <3>5 DEF ZfsUnmount
  <2>2. CASE ~BootStep(p)
    <3>1. /\ h[p].pc = "snap" /\ h'[p].ws = h[p].ws
          /\ \A d \in Disks : snap[d] = "none" => snap'[d] = "none"
      BY Zenon, <1>0, <1>1, <1>2, <2>2, SnapWaits
    <3>2. h[p].pc # "idle"
      BY <3>1
    <3>3. <<h[p].ws, i>> \in Disks
      BY <1>1, <3>2, WsType DEF Disks
    <3> QED BY Zenon, <1>1, <1>2, <3>1, <3>3 DEF Unmounted
  <2> QED BY <2>1, <2>2
<1> QED BY Zenon, <1>0, <1>1, <1>2 DEF SnapInv, Unmounted

\* umount and zfs destroy never find the snapshot of the last boot busy: behind
\* nbdFree no qemu-nbd of the station is left, and a commit runs over the live
\* image.  So every boot starts from a base as new as its request.
THEOREM NewSnapshot == ASSUME Serial PROVE Spec => SnapshotIsNew
<1>1. ASSUME SnapInv, [Next]_vars, NEW p \in Workers, h[p].pc = "snap", h'[p].pc = "mk",
             NEW i \in Images, ImgType[i] # "iso"
      PROVE  snap'[<<h[p].ws, i>>] = "fresh"
  <2>0. Workers = {p} /\ DeviceInv /\ StoredInv /\ Unmounted(p) /\ HandlersOK
    BY <1>1 DEF SnapInv, DeviceInv, Serial, OneWorker, Types
  <2>1. ZfsSnap(p)
    <3>1. ~UNCHANGED h
      BY <1>1
    <3>2. ASSUME NEW w \in Stations PROVE ~PowerOff(w)
      <4>1. PowerOff(w) => h'[p].pc = h[p].pc
        BY Zenon, <2>0, PowerOffMoves
      <4> QED BY <1>1, <4>1
    <3>3. ~HangUp(p)
      <4>1. HangUp(p) => h'[p].pc = "idle"
        BY Zenon, <2>0, IdleType DEF HangUp, HandlersOK
      <4> QED BY <1>1, <4>1
    <3>4. BootStep(p)
      BY ZenonT(30), <1>1, <2>0, <3>1, <3>2, <3>3
         DEF Next, Step, CommitStep, CommitStop, CommitStart, CommitSave, CommitWait, Crash, Request,
             GetBootArgs, SuperTrue, DisableUncommit, DisableCommitPoint, DisableCommit, At,
             Station, SanBoot, Write, Attaching, Committing, Attach, Exit, Execute, CommitBegin,
             CommitEnd, Lose, vars
    <3> QED BY Zenon, <1>1, <2>0, <3>4, SnapMoves
  <2>2. <<h[p].ws, i>> \in Disks /\ ~SnapBusy(<<h[p].ws, i>>)
    BY Zenon, <1>1, <2>0, <2>1, NotBusy DEF ZfsSnap, At
  <2>3. CASE ImgType[i] = "dyndisk"
    <3>1. snap[<<h[p].ws, i>>] = "none"
      BY Zenon, <1>1, <2>0, <2>3 DEF Unmounted
    <3>2. <<h[p].ws, i>> \in OfType(h[p].ws, "dyndisk")
      BY <2>2, <2>3 DEF OfType
    <3> QED BY Zenon, <2>1, <2>2, <3>1, <3>2 DEF ZfsSnap
  <2>4. CASE ImgType[i] = "dynblock"
    <3>1. <<h[p].ws, i>> \in OfType(h[p].ws, "dynblock")
      BY <2>2, <2>4 DEF OfType
    <3> QED BY Zenon, <2>1, <2>2, <3>1 DEF ZfsSnap
  <2> QED BY Zenon, <1>1, <2>3, <2>4, BootAssumption
<1>2. SnapInv /\ [Next]_vars =>
        [\A p \in Workers :
           (h[p].pc = "snap" /\ h'[p].pc = "mk") =>
              \A i \in Images : ImgType[i] # "iso" => snap'[<<h[p].ws, i>>] = "fresh"]_vars
    BY <1>1
<1>3. Init => SnapInv
    BY DeviceInit, StoredInit, IdleType DEF SnapInv, Unmounted, Init
<1> QED BY <1>2, <1>3, SnapStep, PTL DEF Spec, SnapshotIsNew

=============================================================================
