----------------------------- MODULE MagicProbes -----------------------------
(***************************************************************************)
(* The signature probes of core/src/detect/magic.rs.                       *)
(*                                                                         *)
(* An image is what the probes can tell of it, one field per window:       *)
(*   lead    - the signature its first bytes spell, or "other"             *)
(*   sig     - whether bytes 510..511 are 0x55 0xAA                        *)
(*   entries - the kinds of entry in its MBR partition table               *)
(*   gpt512, gpt4k - "EFI PART" at byte 512, at byte 4096                  *)
(*   ext     - the ext superblock magic                                    *)
(*   vd      - the identifier of each 2048-byte volume descriptor          *)
(*   boot    - descriptor 1 has type 0 and the El Torito system identifier *)
(*   size    - its length in bytes                                         *)
(* A head is an image together with the number of its bytes that were      *)
(* read; a probe sees a window only if all of it was.                      *)
(***************************************************************************)
EXTENDS Naturals

\* Signatures at offset 0, with their lengths.  bzip2's includes the level digit.
CompressionMagic == [Xz |-> 6, Zstd |-> 4, SevenZip |-> 6, Lz4 |-> 4, Gzip |-> 2, Bzip2 |-> 4]
Compression == DOMAIN CompressionMagic
Lead == Compression \cup {"MSWIM", "WLPWM", "jump", "jump NTFS", "other"}

MBR_PARTITION_TABLE_OFFSET == 446
MBR_SIG_OFFSET == 510
GPT_HEADER_OFFSET_512 == 512
EXT_MAGIC_OFFSET == 1080
GPT_HEADER_OFFSET_4K == 4096
VRS_START == 32768
ISO9660_MAGIC_OFFSET == 32769
EL_TORITO_BRVD_OFFSET == 34816

ISO_SECTOR == 2048

Descriptors == 0 .. 15
DescriptorId == {"CD001", "NSR02", "NSR03", "BEA01", "TEA01", "none"}

\* 0xEE and 0xEF are the GPT protective and the ESP type; an entry has an extent
\* if its start or its length is not zero.
Entry == [part_type : {"none", "bios", "EE", "EF"}, extent : BOOLEAN]

Image == [lead : Lead, sig : BOOLEAN, entries : SUBSET Entry, gpt512 : BOOLEAN,
          gpt4k : BOOLEAN, ext : BOOLEAN, vd : [Descriptors -> DescriptorId],
          boot : BOOLEAN, size : Nat]

region(head, offset, len) == offset + len <= head.len

-----------------------------------------------------------------------------
has_lead(head, signatures, len) == region(head, 0, len) /\ head.img.lead \in signatures

\* The compression whose whole signature was read, or "None".
detect_compression(head) ==
  IF \E c \in Compression : has_lead(head, {c}, CompressionMagic[c])
    THEN head.img.lead ELSE "None"

is_wim(head) == has_lead(head, {"MSWIM", "WLPWM"}, 8)

\* Descriptor k was read as far as its identifier.
has_descriptor(head, k) == region(head, VRS_START + k * ISO_SECTOR + 1, 5)

has_iso9660(head) == region(head, ISO9660_MAGIC_OFFSET, 5) /\ head.img.vd[0] = "CD001"

has_udf(head) ==
  \E k \in Descriptors : has_descriptor(head, k) /\ head.img.vd[k] \in {"NSR02", "NSR03"}

el_torito(head) ==
  region(head, EL_TORITO_BRVD_OFFSET, 75) /\ head.img.vd[1] = "CD001" /\ head.img.boot

is_used(e) == e.part_type # "none" /\ e.extent
is_gpt_protective(e) == e.part_type = "EE"
is_esp(e) == e.part_type = "EF"

mbr_signature(head) == region(head, MBR_SIG_OFFSET, 2) /\ head.img.sig

\* A table that cannot be read has no entries for any caller.
mbr_partitions(head) ==
  IF region(head, MBR_PARTITION_TABLE_OFFSET, 64) THEN head.img.entries ELSE {}

has_mbr_partition_table(head) ==
  mbr_signature(head) /\ \E e \in mbr_partitions(head) : is_used(e)

\* A bug: one sector size is assumed, the larger one if the head allows it.
has_gpt_OneSectorSize(head) ==
  IF region(head, GPT_HEADER_OFFSET_4K, 8)
    THEN head.img.gpt4k
    ELSE region(head, GPT_HEADER_OFFSET_512, 8) /\ head.img.gpt512

has_gpt(head) ==
  \/ region(head, GPT_HEADER_OFFSET_512, 8) /\ head.img.gpt512
  \/ region(head, GPT_HEADER_OFFSET_4K, 8) /\ head.img.gpt4k

is_fat_or_ntfs_bootsector(head) ==
  has_lead(head, {"jump", "jump NTFS"}, 3) /\ mbr_signature(head)

is_ntfs_bootsector(head) ==
  is_fat_or_ntfs_bootsector(head) /\ has_lead(head, {"jump NTFS"}, 11)

is_ext(head) == region(head, EXT_MAGIC_OFFSET, 2) /\ head.img.ext
=============================================================================
