------------------------------- MODULE Builder -------------------------------
(***************************************************************************)
(* The KubeVirt VM that src/internal/builder/vm.go makes of a source VM,   *)
(* as far as disks and interfaces go.  A DataVolume is named by the        *)
(* position of its disk among the data disks, as phaseImportDisks does.    *)
(***************************************************************************)
EXTENDS Validation, FiniteSets

\* The positions of the data disks, in order.
filterDataDisks(vm) ==
  SelectSeq([i \in 1 .. Len(vm.disks) |-> i], LAMBDA i : i \in DataDisks(vm))

\* phaseImportDisks: the k-th DataVolume is filled from the k-th data disk.
DataVolumeNames(vm) == [k \in 1 .. Len(filterDataDisks(vm)) |-> k]
DiskIn(vm, dv) == filterDataDisks(vm)[dv]

mapDiskBus(bus) ==
  CASE bus \in {"SCSI", "PCI"} -> "scsi"
    [] bus \in {"IDE", "SATA"} -> "sata"
    [] OTHER -> "virtio"

\* Mutant: CD-ROMs are counted too.
countAllDisks(vm, pvcNames, i) ==
  IF i - 1 < Len(pvcNames) THEN pvcNames[i] ELSE 0

\* The data disks before this one tell its PVC; 0 is a volume without one.
volumeOf(vm, pvcNames, i) ==
  LET pvcIdx == Cardinality({j \in DataDisks(vm) : j < i})
  IN IF pvcIdx < Len(pvcNames) THEN pvcNames[pvcIdx + 1] ELSE 0

\* Only the first data disk has a boot order, if the source boots from disk.
buildDisksAndVolumes(vm, pvcNames) ==
  [i \in DataDisks(vm) |->
     [bus |-> mapDiskBus(vm.disks[i].bus),
      boot |-> vm.bootsFromDisk /\ \A j \in DataDisks(vm) : i <= j,
      volume |-> volumeOf(vm, pvcNames, i)]]

buildInterfacesAndNetworks(vm, nmap, ns) ==
  [i \in DOMAIN vm.nics |->
     LET nad == findNetworkMapping(vm.nics[i], nmap, ns)
     IN [nad |-> nad, binding |-> IF nad = {} THEN "masquerade" ELSE "bridge"]]

Build(vm, nmap, ns, pvcNames) ==
  [disks |-> buildDisksAndVolumes(vm, pvcNames),
   interfaces |-> buildInterfacesAndNetworks(vm, nmap, ns)]

\* Each disk of the built VM holds the data of that disk of the source, and one
\* of them boots if the source boots from disk.
SameMachine(vm, nmap, ns) ==
  LET kv == Build(vm, nmap, ns, DataVolumeNames(vm))
  IN /\ \A i \in DataDisks(vm) :
          /\ kv.disks[i].volume \in DOMAIN DataVolumeNames(vm)
          /\ DiskIn(vm, kv.disks[i].volume) = i
     /\ Cardinality({i \in DataDisks(vm) : kv.disks[i].boot})
          = IF vm.bootsFromDisk /\ DataDisks(vm) # {} THEN 1 ELSE 0
=============================================================================
