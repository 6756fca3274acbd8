-------------------------- MODULE BootSerialProofs --------------------------
(***************************************************************************)
(* The nbd devices as a resource: when requests do not overlap             *)
(* (BootDeviceProofs says what this means) none is lost.                   *)
(***************************************************************************)
EXTENDS BootDeviceProofs, FiniteSetTheorems

\* One device per image slot is enough for search_nbd.
EnoughDevs == IsFiniteSet(Stations) /\ Cardinality(Stations) * NImages <= NbdNbds

\* A device in use belongs to a disk: it is the device of its qemu-nbd or of
\* its LUN, and both are the same; the disk of the search has none.
LEMMA SearchFinds ==
    ASSUME Serial, EnoughDevs, DeviceInv
    PROVE  DeviceFound
<1> SUFFICES ASSUME NEW p \in Workers, h[p].pc = "search", FreeDevs = {}
             PROVE  FALSE
    BY DEF DeviceFound
<1>0. /\ Types /\ Devices /\ HandlerDevices(p) /\ HandlersOK /\ SystemOK
      /\ h[p].ws \in Stations /\ h[p].img \in Images /\ Disk(p) \in Disks
      /\ Disk(p) = <<h[p].ws, h[p].img>>
    BY Zenon, WsType DEF DeviceInv, Types, Disk
<1> DEFINE Uses(d, n) == \/ qst[d] # "none" /\ qdev[d] = n
                         \/ \E l \in LunIds : lun[l] = n /\ Owner(l) = d
<1>1. \A n \in Devs : n # 0
    BY DEF Devs
<1>2. ASSUME NEW n \in Devs PROVE \E d \in Disks \ {Disk(p)} : Uses(d, n)
  <2>1. NbdUsed(n)
    BY Zenon DEF FreeDevs
  <2>2. CASE NbdHolders(n) # {}
    <3>1. PICK d \in Disks : qst[d] # "none" /\ qdev[d] = n
      BY Zenon, <2>2 DEF NbdHolders
    <3>2. d # Disk(p)
      <4>1. Exported(d[2])
        BY Zenon, <1>0, <3>1 DEF Devices, Processes
      <4>2. d = Disk(p) => Before(p, h[p].img)
        BY <1>0 DEF Before, Images
      <4>3. d = Disk(p) => d[2] = h[p].img
        BY <1>0
      <4> QED BY Zenon, <1>0, <3>1, <4>1, <4>2, <4>3 DEF HandlerDevices, Freed
    <3> QED BY Zenon, <3>1, <3>2
  <2>3. CASE TgtHolds(n)
    <3>1. PICK l \in LunIds : lun[l] = n
      BY Zenon, <1>0, <2>3 DEF TgtHolds, SystemOK, LunIds
    <3>2. tgt[l[1]] # h[p].ws /\ tgt[l[1]] # None
      BY Zenon, <1>0, <1>1, <3>1 DEF HandlerDevices, NoLuns, BootPcs, Devices, Luns
    <3>3. l[1] \in Tids /\ l[2] \in Images
      BY Zenon DEF LunIds
    <3>4. Owner(l) \in Disks /\ Owner(l) # Disk(p)
      <4>1. tgt[l[1]] \in Stations
        BY Zenon, <1>0, <3>2, <3>3 DEF SystemOK
      <4> QED BY <1>0, <3>2, <3>3, <4>1 DEF Owner, Disks
    <3> QED BY <3>1, <3>4
  <2> QED BY Zenon, <2>1, <2>2, <2>3 DEF NbdUsed
<1>3. ASSUME NEW d \in Disks, NEW n \in Devs, NEW m \in Devs, Uses(d, n), Uses(d, m)
      PROVE  n = m
  <2>1. ASSUME NEW a \in Devs, NEW b \in Devs, qst[d] # "none", qdev[d] = a,
               NEW l \in LunIds, lun[l] = b, Owner(l) = d
        PROVE  a = b
    BY Zenon, <1>0, <1>1, <2>1 DEF Devices, Luns
  <2>2. ASSUME NEW k \in LunIds, NEW l \in LunIds, lun[k] = n, lun[l] = m,
               Owner(k) = d, Owner(l) = d
        PROVE  n = m
    <3>1. k[1] \in Tids /\ l[1] \in Tids /\ k = <<k[1], k[2]>> /\ l = <<l[1], l[2]>>
      BY DEF LunIds
    <3>2. tgt[k[1]] # None /\ tgt[l[1]] # None
      BY Zenon, <1>0, <1>1, <2>2 DEF Devices, Luns
    <3>3. tgt[k[1]] = tgt[l[1]] /\ k[2] = l[2]
      BY <2>2 DEF Owner
    <3>4. k[1] = l[1]
      BY Zenon, <1>0, <3>1, <3>2, <3>3 DEF Devices, Targets
    <3> QED BY Zenon, <2>2, <3>1, <3>3, <3>4
  <2> QED BY <1>3, <2>1, <2>2
<1> DEFINE f == [n \in Devs |-> CHOOSE d \in Disks \ {Disk(p)} : Uses(d, n)]
<1>4. \A n \in Devs : f[n] \in Disks \ {Disk(p)} /\ Uses(f[n], n)
    BY Zenon, <1>2
<1> HIDE DEF Uses
<1>5. f \in [Devs -> Disks \ {Disk(p)}] /\ \A n, m \in Devs : f[n] = f[m] => n = m
    BY Zenon, <1>3, <1>4
<1> HIDE DEF f
<1>6. IsFiniteSet(Disks) /\ Cardinality(Disks) = Cardinality(Stations) * NImages
  <2>1. IsFiniteSet(Images) /\ Cardinality(Images) = NImages
    BY FS_Interval, BootAssumption DEF Images
  <2> QED BY <2>1, FS_Product DEF EnoughDevs, Disks
<1>7. /\ IsFiniteSet(Disks \ {Disk(p)}) /\ Cardinality(Disks) \in Nat
      /\ Cardinality(Disks \ {Disk(p)}) = Cardinality(Disks) - 1
    BY Zenon, <1>0, <1>6, FS_RemoveElement, FS_CardinalityType
<1>8. IsFiniteSet(Devs) /\ Cardinality(Devs) = NbdNbds
    BY FS_Interval, BootAssumption DEF Devs
<1>9. Cardinality(Disks \ {Disk(p)}) < Cardinality(Devs)
    BY <1>6, <1>7, <1>8, BootAssumption DEF EnoughDevs
<1>10. \E n, m \in Devs : n # m /\ f[n] = f[m]
    BY <1>5, <1>7, <1>8, <1>9, FS_PigeonHole
<1> QED BY Zenon, <1>5, <1>10

\* search_nbd always finds a device when there is one per image slot: no sequence
\* of boots, commits and crashes of the worker leaks devices.
THEOREM DevicesLast == ASSUME Serial, EnoughDevs PROVE Spec => []DeviceFound
<1>1. DeviceInv => DeviceFound
    BY SearchFinds
<1> QED BY <1>1, DevicesHold, PTL
=============================================================================
