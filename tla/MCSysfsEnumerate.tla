--------------------------- MODULE MCSysfsEnumerate ---------------------------
(***************************************************************************)
(* A small machine: a card reader or USB port whose disk sdb comes, goes   *)
(* and changes, with a partition sdb1; a fixed disk sdbb, whose name       *)
(* begins like the other's; a loop device.                                 *)
(***************************************************************************)
EXTENDS SysfsEnumerate

MCNames == {"sdb", "sdb1", "sdbb", "loop0"}
MCPartsOf == [n \in MCNames |-> IF n = "sdb" THEN {"sdb1"} ELSE {}]

\* A removable stick, writable or locked, and a USB SSD that says it is fixed.
Stick(ro) ==
  [attr \in {"size", "removable", "ro", "device", "device/model", "queue/physical_block_size"} |->
     CASE attr = "size" -> 4
       [] attr = "removable" -> "1"
       [] attr = "ro" -> ro
       [] attr = "device" -> {"sys", "usb1"}
       [] attr = "device/model" -> "stick"
       [] attr = "queue/physical_block_size" -> 1024]
Ssd ==
  [attr \in {"size", "removable", "ro", "device", "queue/logical_block_size"} |->
     CASE attr = "size" -> 9
       [] attr = "removable" -> "0"
       [] attr = "ro" -> "0"
       [] attr = "device" -> {"sys", "usbcore"}
       [] attr = "queue/logical_block_size" -> 4096]
Part == [attr \in {"size", "partition", "ro"} |->
           CASE attr = "size" -> 3 [] attr = "partition" -> "1" [] attr = "ro" -> "0"]
Loop == [attr \in {"size", "ro"} |-> CASE attr = "size" -> 1 [] attr = "ro" -> "1"]

MCHardwareOf ==
  [n \in MCNames |->
     CASE n = "sdb" -> {Stick("0"), Stick("1"), Ssd}
       [] n = "sdb1" -> {Part}
       [] n = "sdbb" -> {Ssd}
       [] n = "loop0" -> {Loop}]

MCOtherDevs == {"mapper/home"}
Row(dev, path, utf8) == [dev |-> dev, path |-> path, utf8 |-> utf8]
Root == <<"/">>
Media == <<"/", "media">>
MCMountEntries == {Row("sdbb", Root, TRUE), Row("sdb1", Media, TRUE), Row("sdb", Media, TRUE)}
MCInitMounts ==
  {{Row("sdbb", Root, TRUE)}, {Row("sdbb", Root, TRUE), Row("sdb1", Media, TRUE)}}

MCPathRank == [n \in MCNames |->
  CASE n = "loop0" -> 1 [] n = "sdb" -> 2 [] n = "sdb1" -> 3 [] n = "sdbb" -> 4]
=============================================================================
