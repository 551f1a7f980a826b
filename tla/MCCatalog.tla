----------------------------- MODULE MCCatalog -----------------------------
(* Settings for model checking Catalog: VMs, maps and a cluster that have  *)
(* what each rule of the validator is about.                               *)
EXTENDS Catalog

Ref(id, name) == [id |-> id, name |-> name]
Disk(ref) == [cdrom |-> FALSE, bus |-> "SCSI", stored |-> TRUE, ref |-> ref]
CDROM == [cdrom |-> TRUE, bus |-> "IDE", stored |-> FALSE, ref |-> Ref("", "")]
NIC(ref) == [type |-> "Normal", wired |-> TRUE, ref |-> ref]
VM(disks, nics) == [disks |-> disks, nics |-> nics, gpus |-> 0, bootsFromDisk |-> TRUE]

\* web: two containers, one of them referred to by its ID alone.
MCSource ==
  [v \in {"web", "group", "appliance"} |->
     CASE v = "web" -> [VM(<<CDROM, Disk(Ref("c1", "")), Disk(Ref("c2", "fast"))>>,
                           <<NIC(Ref("n1", "lan")), NIC(Ref("n2", ""))>>) EXCEPT !.gpus = 1]
       [] v = "group" -> VM(<<[Disk(Ref("", "")) EXCEPT !.stored = FALSE]>>, <<>>)
       [] v = "appliance" -> VM(<<[Disk(Ref("c1", "")) EXCEPT !.bus = "IDE"]>>,
                                <<[NIC(Ref("n1", "")) EXCEPT !.type = "NetworkFunction"],
                                  [NIC(Ref("", "")) EXCEPT !.type = "Direct", !.wired = FALSE]>>)]

MCSpecs == {{"web"}, {"group", "appliance"}}

Pair(id, name, class) == [id |-> id, name |-> name, class |-> class]
MCStorageMaps ==
  {<<Pair("", "fast", "gold"), Pair("c1", "", "silver"), Pair("c2", "", "silver")>>,
   <<Pair("c2", "", "gold"), Pair("", "slow", "silver")>>,
   <<Pair("c1", "", "gold"), Pair("c2", "", "bronze")>>}

Net(id, name, multus, ns, nad) ==
  [id |-> id, name |-> name, multus |-> multus, ns |-> ns, nad |-> nad]
MCNetworkMaps ==
  {<<Net("n1", "", TRUE, "", "lan"), Net("n2", "", FALSE, "", "")>>,
   <<Net("", "lan", TRUE, "other", "lan"), Net("n2", "", TRUE, "", "lan")>>}

MCCluster ==
  [namespaces |-> {"target"}, classes |-> {"gold", "silver"},
   nads |-> {<<"target", "lan">>}, crds |-> {"cdi", "kubevirt"}, unreadable |-> {}]
=============================================================================
