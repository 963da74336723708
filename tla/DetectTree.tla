------------------------------ MODULE DetectTree ------------------------------
(***************************************************************************)
(* The decision tree of core/src/detect/tree.rs: from the head of an image *)
(* to what it is, whether it may be written raw, and the warning a caller  *)
(* must show first.  A name_and_label is the set of the vendor words found *)
(* in it (in lower case), so that its wording does not matter.             *)
(***************************************************************************)
EXTENDS MagicProbes

\* A bug: an MBR that only marks the disk as UEFI is left to the GPT header.
classify_hybrid_NoMarker(head) ==
  LET parts == IF mbr_signature(head) THEN mbr_partitions(head) ELSE {}
      bios == \E e \in parts : is_used(e) /\ ~is_gpt_protective(e) /\ ~is_esp(e)
  IN  IF bios THEN IF has_gpt(head) THEN "BiosAndUefiHybrid" ELSE "BiosHybrid"
              ELSE IF has_gpt(head) THEN "UefiHybrid" ELSE "OpticalOnly"

\* A bug: an El Torito boot catalog is taken for a UEFI entry.
classify_hybrid_ElTorito(head) ==
  LET parts == IF mbr_signature(head) THEN mbr_partitions(head) ELSE {}
      bios == \E e \in parts : is_used(e) /\ ~is_gpt_protective(e) /\ ~is_esp(e)
      gpt == has_gpt(head) \/ el_torito(head)
                \/ \E e \in parts : is_gpt_protective(e) \/ is_esp(e)
  IN  IF bios THEN IF gpt THEN "BiosAndUefiHybrid" ELSE "BiosHybrid"
              ELSE IF gpt THEN "UefiHybrid" ELSE "OpticalOnly"

\* Whether an optical image carries a BIOS partition, a UEFI marker, both or neither.
classify_hybrid(head) ==
  LET parts == IF mbr_signature(head) THEN mbr_partitions(head) ELSE {}
      bios == \E e \in parts : is_used(e) /\ ~is_gpt_protective(e) /\ ~is_esp(e)
      mbr_efi_marker == \E e \in parts : is_gpt_protective(e) \/ is_esp(e)
      gpt == has_gpt(head) \/ mbr_efi_marker
  IN  IF bios THEN IF gpt THEN "BiosAndUefiHybrid" ELSE "BiosHybrid"
              ELSE IF gpt THEN "UefiHybrid" ELSE "OpticalOnly"

IsoHybrid == {"BiosHybrid", "UefiHybrid", "BiosAndUefiHybrid", "OpticalOnly"}

\* ImageKind: a tag, with the payload of its variant.
Compressed(c) == [tag |-> "Compressed", compression |-> c]
Iso(hybrid, udf, boot) == [tag |-> "Iso", hybrid |-> hybrid, udf |-> udf, el_torito |-> boot]
DiskImage(gpt) == [tag |-> "DiskImage", gpt |-> gpt]
BareFilesystem(hint) == [tag |-> "BareFilesystem", hint |-> hint]
Wim == [tag |-> "Wim"]
Unknown == [tag |-> "Unknown"]

ImageKind ==
  {Compressed(c) : c \in Compression}
  \cup {Iso(h, u, b) : h \in IsoHybrid, u \in BOOLEAN, b \in BOOLEAN}
  \cup {DiskImage(g) : g \in BOOLEAN}
  \cup {BareFilesystem(f) : f \in {"Fat", "Ntfs", "Ext"}}
  \cup {Wim, Unknown}

classify(head) ==
  IF detect_compression(head) # "None" THEN Compressed(detect_compression(head))
  ELSE IF has_iso9660(head) \/ has_udf(head)
    THEN Iso(classify_hybrid(head), has_udf(head), el_torito(head))
  ELSE IF is_wim(head) THEN Wim
  ELSE IF has_gpt(head) THEN DiskImage(TRUE)
  ELSE IF has_mbr_partition_table(head) THEN DiskImage(FALSE)
  ELSE IF is_ntfs_bootsector(head) THEN BareFilesystem("Ntfs")
  ELSE IF is_fat_or_ntfs_bootsector(head) THEN BareFilesystem("Fat")
  ELSE IF is_ext(head) THEN BareFilesystem("Ext")
  ELSE Unknown

\* The words guess_bsd_flavor looks for; "installNN" is an OpenBSD release file name.
VendorWord == {"freebsd", "openbsd", "installNN", "netbsd", "dragonfly", "dfly"}

guess_bsd_flavor(label) ==
  IF "freebsd" \in label THEN "FreeBsd"
  ELSE IF {"openbsd", "installNN"} \cap label # {} THEN "OpenBsd"
  ELSE IF "netbsd" \in label THEN "NetBsd"
  ELSE IF {"dragonfly", "dfly"} \cap label # {} THEN "DragonFly"
  ELSE "Unknown"

BsdFlavor == {"FreeBsd", "OpenBsd", "NetBsd", "DragonFly", "Unknown"}

\* A bug: no warning when there is no USB image to name.
bsd_warning_NamedOnly(kind, label) ==
  IF kind.tag = "Iso" /\ kind.hybrid = "OpticalOnly" /\ guess_bsd_flavor(label) # "Unknown"
    THEN guess_bsd_flavor(label) ELSE "None"

\* The flavor the warning names; "None" is no warning at all.
bsd_warning(kind, label) ==
  IF kind.tag = "Iso" /\ kind.hybrid = "OpticalOnly" THEN guess_bsd_flavor(label) ELSE "None"

Verdict == [kind : ImageKind, bsd_warning : BsdFlavor \cup {"None"}]

is_dd_writable(verdict) ==
  \/ verdict.kind.tag = "Iso" /\ verdict.kind.hybrid # "OpticalOnly"
  \/ verdict.kind.tag \in {"DiskImage", "BareFilesystem"}

inspect(head, label) ==
  [kind |-> classify(head), bsd_warning |-> bsd_warning(classify(head), label)]
=============================================================================
