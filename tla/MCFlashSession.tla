---------------------------- MODULE MCFlashSession ----------------------------
(***************************************************************************)
(* A machine with two namespaces of a fixed NVMe disk, nvme0n1 with the    *)
(* root file system and nvme0n11 with /home, and a USB port sdb, with one  *)
(* partition, whose stick may be swapped.                                  *)
(***************************************************************************)
EXTENDS FlashSession

Nvme == {"nvme0n1", "nvme0n11"}
MCNames == {"sdb", "sdb1"} \cup Nvme
MCPartsOf == [n \in MCNames |-> IF n = "sdb" THEN {"sdb1"} ELSE {}]

Disk(size, removable, ro) ==
  [attr \in {"size", "removable", "ro", "device"} |->
     CASE attr = "size" -> size
       [] attr = "removable" -> removable
       [] attr = "ro" -> ro
       [] attr = "device" -> {"usb1"}]
Part == [attr \in {"size", "partition"} |-> IF attr = "size" THEN 3 ELSE "1"]

MCHardwareOf ==
  [n \in MCNames |->
     CASE n = "sdb" -> {Disk(4, "1", "0"), Disk(4, "1", "1"), Disk(2, "0", "0")}
       [] n = "sdb1" -> {Part}
       [] n \in Nvme -> {Disk(9, "0", "0")}]

\* Hardware that never changes, for the runs without kernel events.
StillHardwareOf ==
  [n \in MCNames |->
     CASE n = "sdb" -> {Disk(4, "1", "0")} [] n = "sdb1" -> {Part} [] n \in Nvme -> {Disk(9, "0", "0")}]

Row(dev, path, utf8) == [dev |-> dev, path |-> path, utf8 |-> utf8]
Media == <<"/", "media">>
Home == <<"/", "home">>
RootRow == Row("nvme0n1", Root, TRUE)
HomeRow == Row("nvme0n11", Home, TRUE)
MediaRow == Row("sdb1", Media, TRUE)

MCOtherDevs == {"mapper/crypt"}
MCBacking == [o \in MCOtherDevs |-> {"sdb"}]

MCMountEntries == {RootRow, HomeRow, MediaRow, Row("sdb", Media, TRUE)}
MCInitMounts == {{RootRow}, {RootRow, HomeRow, MediaRow}}

\* /home/link is a symbolic link to an image on the stick, /mediax a sibling of /media.
MCImages == {Media \o <<"img">>, Home \o <<"img">>, Home \o <<"link">>, <<"/", "mediax", "img">>, <<"gone">>}
MCFileSystem ==
  [p \in {Root, Media, Home} \cup (MCImages \ {<<"gone">>}) |->
     IF p = Home \o <<"link">> THEN Media \o <<"img">> ELSE p]
MCFileSystems == {MCFileSystem}
MCImageSizes == {1024, 1536, 2048, 2049}

MCPathRank == [n \in MCNames |->
  CASE n = "nvme0n1" -> 1 [] n = "nvme0n11" -> 2 [] n = "sdb" -> 3 [] n = "sdb1" -> 4]

-----------------------------------------------------------------------------
(* Machines for the runs that compare the code with its documentation.     *)

\* A live system booted from the stick itself.
LiveRow == Row("sdb1", Root, TRUE)
LiveMountEntries == {LiveRow}
LiveInitMounts == {{LiveRow}}

\* The stick holds an encrypted volume, mapped and mounted at /media.
CryptRow == Row("mapper/crypt", Media, TRUE)
CryptMountEntries == {RootRow, CryptRow}
CryptInitMounts == {{RootRow, CryptRow}}

\* A volume label outside UTF-8 gives a second disk's mount point its name.
LatinRow == Row("nvme0n1", <<"/", "media", "caf\\351">>, FALSE)
LatinMountEntries == {MediaRow, LatinRow}
LatinInitMounts == {{MediaRow, LatinRow}}
=============================================================================
