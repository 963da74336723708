---------------------------- MODULE MCListCommand ----------------------------
(***************************************************************************)
(* Two disks on show: a stick in sdb, locked or not, of a size just below  *)
(* 1 GB, just below 2 MB or of one sector, with a partition; and a fixed   *)
(* disk vda.                                                               *)
(***************************************************************************)
EXTENDS ListCommand

MCNames == {"sdb", "sdb1", "vda"}
MCPartsOf == [n \in MCNames |-> IF n = "sdb" THEN {"sdb1"} ELSE {}]

Disk(size, removable, ro, bus) ==
  [attr \in {"size", "removable", "ro", "device"} |->
     CASE attr = "size" -> size
       [] attr = "removable" -> removable
       [] attr = "ro" -> ro
       [] attr = "device" -> {bus}]
Part == [attr \in {"size", "partition"} |-> IF attr = "size" THEN 3 ELSE "1"]

MCHardwareOf ==
  [n \in MCNames |->
     CASE n = "sdb" -> {Disk(2097151, "1", "0", "usb1"), Disk(4014, "1", "1", "usb1"),
                        Disk(1, "1", "0", "usb1"), Disk(3, "1", "0", "mmc0")}
       [] n = "sdb1" -> {Part}
       [] n = "vda" -> {Disk(3072, "0", "0", "virtio0"), Disk(2048, "0", "0", "usb2")}]

MCOtherDevs == {"mapper/crypt"}
Row(dev, path) == [dev |-> dev, path |-> path, utf8 |-> TRUE]
Media == <<"/", "media">>
MCMountEntries == {Row("vda", Root), Row("sdb1", Media), Row("sdb", <<"/", "mnt">>)}
MCInitMounts == {MCMountEntries, {}}

MCPathRank == [n \in MCNames |-> CASE n = "sdb" -> 1 [] n = "sdb1" -> 2 [] n = "vda" -> 3]
MCCommands == {"list", "-V", "lsit"}
=============================================================================
