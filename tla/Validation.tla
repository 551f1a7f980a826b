----------------------------- MODULE Validation -----------------------------
(***************************************************************************)
(* The plan validator (src/internal/validation/validator.go) and the       *)
(* lookups the pipeline makes later in the same maps, as operators.        *)
(*                                                                         *)
(* A reference and the source of a pair have an id and a name; "" is one   *)
(* that is not given.  A disk that is not "stored" has no reference to a   *)
(* storage container, a NIC that is not "wired" none to a subnet.          *)
(*                                                                         *)
(*   vm      [disks : Seq([cdrom, bus, stored, ref]),                      *)
(*            nics : Seq([type, wired, ref]), gpus]                        *)
(*   smap    a StorageMap: Seq([id, name, class])                          *)
(*   nmap    a NetworkMap: Seq([id, name, multus, ns, nad])                *)
(*   cluster [namespaces, classes, nads, crds, unreadable]: what the       *)
(*           target has, and what a read fails on for another reason than  *)
(*           that it is missing                                            *)
(***************************************************************************)
EXTENDS Naturals, Sequences

Error(rule, about) == [category |-> "Error", rule |-> rule, about |-> about]
Warning(rule, about) == [category |-> "Warning", rule |-> rule, about |-> about]
Info(rule, about) == [category |-> "Info", rule |-> rule, about |-> about]

Matches(pair, ref) ==
  \/ pair.id # "" /\ pair.id = ref.id
  \/ pair.name # "" /\ pair.name = ref.name

\* Both isStorageMapped and isNetworkMapped.
isMapped(ref, map) == \E i \in DOMAIN map : Matches(map[i], ref)

\* The first pair that matches, of those that do.
FirstMatch(ref, map) ==
  CHOOSE i \in DOMAIN map : /\ Matches(map[i], ref)
                            /\ \A j \in DOMAIN map : Matches(map[j], ref) => i <= j

DataDisks(vm) == {i \in DOMAIN vm.disks : ~vm.disks[i].cdrom}
StoredDisks(vm) == {i \in DataDisks(vm) : vm.disks[i].stored}
WiredNICs(vm) == {i \in DOMAIN vm.nics : vm.nics[i].wired}

----------------------------------------------------------------------------
(* The rules on the source.                                                *)

checkUnmappedStorage(vm, smap) ==
  {Error("storage", vm.disks[i].ref) :
     i \in {i \in StoredDisks(vm) : ~isMapped(vm.disks[i].ref, smap)}}

checkUnmappedNetwork(vm, nmap) ==
  {Error("network", vm.nics[i].ref) :
     i \in {i \in WiredNICs(vm) : ~isMapped(vm.nics[i].ref, nmap)}}

checkGPU(vm) == IF vm.gpus > 0 THEN {Warning("gpu", vm.gpus)} ELSE {}

checkVolumeGroupDisks(vm) ==
  {Error("volume group", i) : i \in DataDisks(vm) \ StoredDisks(vm)}

checkNICTypes(vm) ==
  {Error("nic", i) : i \in {i \in DOMAIN vm.nics : vm.nics[i].type = "NetworkFunction"}}
    \cup {Warning("nic", i) : i \in {i \in DOMAIN vm.nics : vm.nics[i].type = "Direct"}}

checkIDEDisks(vm) == {Info("ide", i) : i \in {i \in DataDisks(vm) : vm.disks[i].bus = "IDE"}}

----------------------------------------------------------------------------
(* The rules on the target.  A namespace or a class that cannot be read    *)
(* counts as there; anything else that cannot be read counts as missing.   *)

NotFound(x, there, cluster) == x \notin there /\ x \notin cluster.unreadable
Unread(x, there, cluster) == x \notin there \/ x \in cluster.unreadable

checkNamespace(ns, cluster) ==
  IF NotFound(ns, cluster.namespaces, cluster) THEN {Error("namespace", ns)} ELSE {}

\* The classes of all pairs that match, not only of the first.
NeededClasses(vm, smap) ==
  {smap[p].class :
     p \in {p \in DOMAIN smap : \E i \in StoredDisks(vm) : Matches(smap[p], vm.disks[i].ref)}}

\* Mutant: only the class of the map's first pair is looked up.
firstClassOnly(vm, smap, cluster) ==
  {Error("class", smap[p].class) :
     p \in {p \in DOMAIN smap : p = 1 /\ NotFound(smap[p].class, cluster.classes, cluster)}}

checkStorageClasses(vm, smap, cluster) ==
  {Error("class", c) :
     c \in {c \in NeededClasses(vm, smap) : NotFound(c, cluster.classes, cluster)}}

findNetworkDestination(ref, nmap) == nmap[FirstMatch(ref, nmap)]

\* The namespace of a network attachment: the target's, if none is given.
NADOf(dest, ns) == <<IF dest.ns = "" THEN ns ELSE dest.ns, dest.nad>>

Attachments(vm, nmap, ns) ==
  {NADOf(findNetworkDestination(vm.nics[i].ref, nmap), ns) :
     i \in {i \in WiredNICs(vm) :
              /\ isMapped(vm.nics[i].ref, nmap)
              /\ findNetworkDestination(vm.nics[i].ref, nmap).multus}}

checkMultusNADs(vm, nmap, ns, cluster) ==
  {Error("nad", n) :
     n \in {n \in Attachments(vm, nmap, ns) : Unread(n, cluster.nads, cluster)}}

\* Both checkCDIInstalled and checkKubeVirtInstalled.
checkInstalled(crd, cluster) ==
  IF Unread(crd, cluster.crds, cluster) THEN {Error("crd", crd)} ELSE {}

\* Conflicting MAC addresses are looked for among those the caller knows of,
\* and the plan controller passes none.
Validate(vm, smap, nmap, ns, cluster) ==
  UNION {checkUnmappedStorage(vm, smap), checkUnmappedNetwork(vm, nmap),
         checkGPU(vm), checkVolumeGroupDisks(vm), checkNICTypes(vm),
         checkIDEDisks(vm),
         checkNamespace(ns, cluster), checkStorageClasses(vm, smap, cluster),
         checkMultusNADs(vm, nmap, ns, cluster),
         checkInstalled("cdi", cluster), checkInstalled("kubevirt", cluster)}

HasErrors(concerns) == \E c \in concerns : c.category = "Error"

----------------------------------------------------------------------------
(* What the pipeline looks up later, and what it then needs.               *)

\* The class of a disk's DataVolume; "default" when the map has none.
FindStorageMapping(disk, smap) ==
  IF disk.stored /\ isMapped(disk.ref, smap)
    THEN smap[FirstMatch(disk.ref, smap)].class ELSE "default"

\* The network attachments of the KubeVirt VM's interfaces; the builder takes
\* the pod network for a NIC it finds no destination for.
findNetworkMapping(nic, nmap, ns) ==
  IF nic.wired /\ isMapped(nic.ref, nmap)
    THEN LET dest == nmap[FirstMatch(nic.ref, nmap)]
         IN IF dest.multus THEN {NADOf(dest, ns)} ELSE {}
    ELSE {}

\* Every disk gets a storage class that the map names for it and the cluster
\* has, every NIC is attached to a network the map names for it and that
\* exists, and what the pipeline creates can be created.
Buildable(vm, smap, nmap, ns, cluster) ==
  /\ \A i \in DataDisks(vm) :
       /\ vm.disks[i].stored /\ isMapped(vm.disks[i].ref, smap)
       /\ FindStorageMapping(vm.disks[i], smap) \in cluster.classes
  /\ \A i \in WiredNICs(vm) : isMapped(vm.nics[i].ref, nmap)
  /\ \A i \in DOMAIN vm.nics : findNetworkMapping(vm.nics[i], nmap, ns) \subseteq cluster.nads
  /\ ns \in cluster.namespaces
  /\ {"cdi", "kubevirt"} \subseteq cluster.crds
=============================================================================
