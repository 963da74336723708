--------------------------- MODULE MCImageInspector ---------------------------
(***************************************************************************)
(* Every combination of the signatures below, in files that end at, just   *)
(* before or just after the windows, read up to every boundary of one.     *)
(***************************************************************************)
EXTENDS ImageInspector

E(type, extent) == [part_type |-> type, extent |-> extent]
Tables ==
  {{}, {E("bios", TRUE)}, {E("bios", FALSE)}, {E("EE", FALSE)}, {E("EE", TRUE)},
   {E("EF", TRUE)}, {E("bios", TRUE), E("EF", FALSE)}}

\* The descriptors of an image, from those that are not empty.
Vds(known) == [k \in Descriptors |-> IF k \in DOMAIN known THEN known[k] ELSE "none"]

DescriptorRuns ==
  {Vds(<<>>),
   Vds([k \in {0, 1, 2} |-> IF k = 2 THEN "TEA01" ELSE "CD001"]),
   Vds([k \in {0, 1} |-> IF k = 0 THEN "BEA01" ELSE "NSR02"]),
   Vds([k \in 0 .. 4 |-> IF k = 3 THEN "BEA01" ELSE IF k = 4 THEN "NSR03" ELSE "CD001"]),
   Vds([k \in {15} |-> "NSR03"]),
   Vds([k \in 0 .. 2 |-> IF k = 0 THEN "BEA01" ELSE IF k = 1 THEN "TEA01" ELSE "NSR02"]),
   Vds([k \in {0, 3} |-> IF k = 0 THEN "CD001" ELSE "NSR02"])}

Plain(lead) ==
  [lead |-> lead, sig |-> FALSE, entries |-> {}, gpt512 |-> FALSE, gpt4k |-> FALSE,
   ext |-> FALSE, vd |-> Vds(<<>>), boot |-> FALSE, size |-> 100000]

Whole ==
  {i \in [lead : {"other", "jump", "jump NTFS", "MSWIM", "Gzip"}, sig : BOOLEAN, entries : Tables,
          gpt512 : BOOLEAN, gpt4k : BOOLEAN, ext : BOOLEAN, vd : DescriptorRuns, boot : BOOLEAN,
          size : {100000}] :
     /\ ~(i.gpt512 /\ i.gpt4k)
     /\ i.boot => i.vd[1] = "CD001"
     /\ i.ext => i.lead = "other"}

\* Files that are over before the windows are.
Short == [lead : {"jump", "other"}, sig : BOOLEAN, entries : {{E("bios", TRUE)}}, gpt512 : BOOLEAN,
          gpt4k : {FALSE}, ext : {TRUE}, vd : {Vds(<<>>)}, boot : {FALSE}, size : {0, 3, 511, 600, 1081}]

Inner == {i \in Whole : i.lead \in {"other", "Gzip"} /\ ~i.ext /\ ~i.boot}
Wrapped == {<<Plain(c), i>> : c \in {"Gzip", "SevenZip", "Bzip2"}, i \in Inner}

MCFiles == {<<i>> : i \in Whole \cup Short} \cup Wrapped
MCLabels == {{}, {"installNN", "netbsd"}}
MCLengths == {2, 3, 4, 6, 8, 11, 512, 520, 1082, 4104, 32774, 34824, 34891, HEAD_LEN, 40966, 63494,
              DETECTION_HEAD_LEN, 100000}
=============================================================================
