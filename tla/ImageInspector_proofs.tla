------------------------ MODULE ImageInspector_proofs ------------------------
(***************************************************************************)
(* For every image of any length, any nesting and any reads: what reading  *)
(* on can change of a verdict, and where it stops changing.                *)
(***************************************************************************)
EXTENDS ImageInspector, TLAPS

-----------------------------------------------------------------------------
(* The windows of the probes, in a head and in a longer one.               *)

Offsets == /\ MBR_PARTITION_TABLE_OFFSET = 446 /\ MBR_SIG_OFFSET = 510
           /\ GPT_HEADER_OFFSET_512 = 512 /\ EXT_MAGIC_OFFSET = 1080 /\ GPT_HEADER_OFFSET_4K = 4096
           /\ VRS_START = 32768 /\ ISO9660_MAGIC_OFFSET = 32769 /\ EL_TORITO_BRVD_OFFSET = 34816
           /\ ISO_SECTOR = 2048

LEMMA OffsetValues == Offsets
BY SMT DEF Offsets, MBR_PARTITION_TABLE_OFFSET, MBR_SIG_OFFSET, GPT_HEADER_OFFSET_512, EXT_MAGIC_OFFSET,
   GPT_HEADER_OFFSET_4K, VRS_START, ISO9660_MAGIC_OFFSET, EL_TORITO_BRVD_OFFSET, ISO_SECTOR

\* A window that was read is read in a longer head too.
LEMMA WindowsStay ==
  ASSUME NEW img, NEW m \in Nat, NEW n \in Nat, m <= n, NEW offset \in Nat, NEW width \in Nat,
         region(HeadOf(img, m), offset, width)
  PROVE  region(HeadOf(img, n), offset, width)
BY DEF region, HeadOf

\* One that ends before the end of a head is in it.
LEMMA WindowRead ==
  ASSUME NEW img, NEW n \in Nat, NEW offset \in Nat, NEW width \in Nat, offset + width <= n
  PROVE  region(HeadOf(img, n), offset, width)
BY DEF region, HeadOf

LEMMA MagicLengths == \A c \in Compression : CompressionMagic[c] \in 2 .. 6
BY DEF Compression, CompressionMagic

LEMMA NoneIsNoCompression == "None" \notin Compression
BY DEF Compression, CompressionMagic

-----------------------------------------------------------------------------
(* The probes: what they ask of the head and what of the image.            *)

\* detect_compression names the signature that the first bytes spell.
LEMMA CompressionFound ==
  ASSUME NEW img, NEW n
  PROVE  /\ detect_compression(HeadOf(img, n)) # "None" <=>
              \E c \in Compression : has_lead(HeadOf(img, n), {c}, CompressionMagic[c])
         /\ detect_compression(HeadOf(img, n)) # "None" =>
              /\ detect_compression(HeadOf(img, n)) = img.lead /\ img.lead \in Compression
              /\ region(HeadOf(img, n), 0, CompressionMagic[img.lead])
<1> DEFINE h == HeadOf(img, n)
<1>1. h.img = img
  BY DEF HeadOf
<1>2. ASSUME NEW c \in Compression, has_lead(h, {c}, CompressionMagic[c])
      PROVE  img.lead = c /\ region(h, 0, CompressionMagic[c])
  BY <1>1, <1>2 DEF has_lead
<1>3. CASE \E c \in Compression : has_lead(h, {c}, CompressionMagic[c])
  <2>1. PICK c \in Compression : has_lead(h, {c}, CompressionMagic[c])
    BY <1>3
  <2>2. img.lead = c /\ region(h, 0, CompressionMagic[c])
    BY <1>2, <2>1
  <2>3. detect_compression(h) = img.lead
    BY <1>1, <1>3 DEF detect_compression
  <2> QED
    BY <1>3, <2>2, <2>3, NoneIsNoCompression
<1>4. CASE ~\E c \in Compression : has_lead(h, {c}, CompressionMagic[c])
  <2>1. detect_compression(h) = "None"
    BY <1>4 DEF detect_compression
  <2> QED
    BY <1>4, <2>1
<1> QED
  BY <1>3, <1>4

\* A probe that answers yes does so for every longer head.
LEMMA ProbesStay ==
  ASSUME NEW img, NEW m \in Nat, NEW n \in Nat, m <= n
  PROVE  LET a == HeadOf(img, m)
             b == HeadOf(img, n)
         IN  /\ detect_compression(a) # "None" => detect_compression(b) = detect_compression(a)
             /\ has_iso9660(a) => has_iso9660(b)
             /\ has_udf(a) => has_udf(b)
             /\ is_wim(a) => is_wim(b)
             /\ has_gpt(a) => has_gpt(b)
             /\ has_mbr_partition_table(a) => has_mbr_partition_table(b)
             /\ is_ntfs_bootsector(a) => is_ntfs_bootsector(b)
             /\ is_fat_or_ntfs_bootsector(a) => is_fat_or_ntfs_bootsector(b)
             /\ is_ext(a) => is_ext(b)
<1> DEFINE a == HeadOf(img, m)
           b == HeadOf(img, n)
<1>1. a.img = img /\ b.img = img
  BY DEF HeadOf
<1>2. \A offset, width \in Nat : region(a, offset, width) => region(b, offset, width)
  BY WindowsStay
<1>3. detect_compression(a) # "None" => detect_compression(b) = detect_compression(a)
  <2> SUFFICES ASSUME detect_compression(a) # "None"
               PROVE  detect_compression(b) = detect_compression(a)
    OBVIOUS
  <2>1. /\ detect_compression(a) = img.lead /\ img.lead \in Compression
        /\ region(a, 0, CompressionMagic[img.lead])
    BY CompressionFound
  <2>2. CompressionMagic[img.lead] \in Nat
    BY <2>1, MagicLengths
  <2>3. region(b, 0, CompressionMagic[img.lead])
    BY <1>2, <2>1, <2>2
  <2>4. has_lead(b, {img.lead}, CompressionMagic[img.lead])
    BY <1>1, <2>3 DEF has_lead
  <2>5. detect_compression(b) # "None"
    BY <2>1, <2>4, CompressionFound
  <2> QED
    BY <2>1, <2>5, CompressionFound
<1> HIDE DEF a, b
<1>4. \A signatures : \A width \in Nat : has_lead(a, signatures, width) => has_lead(b, signatures, width)
  BY <1>1, <1>2 DEF has_lead
<1>5. has_iso9660(a) => has_iso9660(b)
  BY <1>1, <1>2, OffsetValues DEF has_iso9660, Offsets
<1>6. \A k \in Descriptors : has_descriptor(a, k) => has_descriptor(b, k)
  <2> SUFFICES ASSUME NEW k \in Descriptors, has_descriptor(a, k) PROVE has_descriptor(b, k)
    OBVIOUS
  <2>1. VRS_START + k * ISO_SECTOR + 1 \in Nat
    BY OffsetValues DEF Offsets, Descriptors
  <2> QED
    BY <1>2, <2>1 DEF has_descriptor
<1>7. has_udf(a) => has_udf(b)
  BY <1>1, <1>6 DEF has_udf
<1>8. is_wim(a) => is_wim(b)
  BY <1>4 DEF is_wim
<1>9. has_gpt(a) => has_gpt(b)
  BY <1>1, <1>2, OffsetValues DEF has_gpt, Offsets
<1>10. mbr_signature(a) => mbr_signature(b)
  BY <1>1, <1>2, OffsetValues DEF mbr_signature, Offsets
<1>11. mbr_partitions(a) \subseteq mbr_partitions(b)
  BY <1>1, <1>2, OffsetValues DEF mbr_partitions, Offsets
<1>12. has_mbr_partition_table(a) => has_mbr_partition_table(b)
  BY <1>10, <1>11 DEF has_mbr_partition_table
<1>13. is_fat_or_ntfs_bootsector(a) => is_fat_or_ntfs_bootsector(b)
  BY <1>4, <1>10 DEF is_fat_or_ntfs_bootsector
<1>14. is_ntfs_bootsector(a) => is_ntfs_bootsector(b)
  BY <1>4, <1>13 DEF is_ntfs_bootsector
<1>15. is_ext(a) => is_ext(b)
  BY <1>1, <1>2, OffsetValues DEF is_ext, Offsets
<1> QED
  BY <1>3, <1>5, <1>7, <1>8, <1>9, <1>12, <1>13, <1>14, <1>15 DEF a, b

\* The signatures at the start of an image are settled by the first few bytes.
LEMMA LeadSettled ==
  ASSUME NEW img, NEW m \in Nat, NEW n \in Nat, 11 <= m, m <= n
  PROVE  LET a == HeadOf(img, m)
             b == HeadOf(img, n)
         IN  /\ detect_compression(b) = detect_compression(a)
             /\ is_wim(b) <=> is_wim(a)
             /\ \A signatures : \A width \in 0 .. 11 :
                  has_lead(b, signatures, width) <=> has_lead(a, signatures, width)
<1> DEFINE a == HeadOf(img, m)
           b == HeadOf(img, n)
<1>1. a.img = img /\ b.img = img
  BY DEF HeadOf
<1>2. \A width \in 0 .. 11 : region(a, 0, width) /\ region(b, 0, width)
  BY WindowRead
<1>3. \A signatures : \A width \in 0 .. 11 : has_lead(b, signatures, width) <=> has_lead(a, signatures, width)
  <2> HIDE DEF a, b
  <2> QED
    BY <1>1, <1>2 DEF has_lead
<1>4. is_wim(b) <=> is_wim(a)
  <2> HIDE DEF a, b
  <2> QED
    BY <1>3 DEF is_wim
<1>5. detect_compression(b) = detect_compression(a)
  <2>1. \A c \in Compression : CompressionMagic[c] \in 0 .. 11
    BY MagicLengths
  <2>2. \A c \in Compression :
          has_lead(b, {c}, CompressionMagic[c]) <=> has_lead(a, {c}, CompressionMagic[c])
    <3> HIDE DEF a, b
    <3> QED
      BY <1>3, <2>1
  <2> HIDE DEF a, b
  <2> QED
    BY <1>1, <2>2 DEF detect_compression
<1> QED
  BY <1>3, <1>4, <1>5

\* The hybrid branch is settled by the first 4 KiB and the header behind them.
LEMMA HybridSettled ==
  ASSUME NEW img, NEW m \in Nat, NEW n \in Nat, 4104 <= m, m <= n
  PROVE  LET a == HeadOf(img, m)
             b == HeadOf(img, n)
         IN  /\ has_gpt(b) <=> has_gpt(a)
             /\ mbr_signature(b) <=> mbr_signature(a)
             /\ mbr_partitions(b) = mbr_partitions(a)
             /\ is_ext(b) <=> is_ext(a)
             /\ classify_hybrid(b) = classify_hybrid(a)
<1> DEFINE a == HeadOf(img, m)
           b == HeadOf(img, n)
<1>1. a.img = img /\ b.img = img
  BY DEF HeadOf
<1>2. \A offset, width \in Nat : offset + width <= 4104 => region(a, offset, width) /\ region(b, offset, width)
  BY WindowRead
<1> HIDE DEF a, b
<1>3. has_gpt(b) <=> has_gpt(a)
  BY <1>1, <1>2, OffsetValues DEF has_gpt, Offsets
<1>4. mbr_signature(b) <=> mbr_signature(a)
  BY <1>1, <1>2, OffsetValues DEF mbr_signature, Offsets
<1>5. mbr_partitions(b) = mbr_partitions(a)
  BY <1>1, <1>2, OffsetValues DEF mbr_partitions, Offsets
<1>6. is_ext(b) <=> is_ext(a)
  BY <1>1, <1>2, OffsetValues DEF is_ext, Offsets
<1>7. classify_hybrid(b) = classify_hybrid(a)
  BY <1>3, <1>4, <1>5 DEF classify_hybrid
<1> QED
  BY <1>3, <1>4, <1>5, <1>6, <1>7 DEF a, b

-----------------------------------------------------------------------------
(* The tree: the branch classify takes, numbered as Rank numbers the kinds. *)

Branch(head) ==
  IF detect_compression(head) # "None" THEN 8
  ELSE IF has_iso9660(head) \/ has_udf(head) THEN 7
  ELSE IF is_wim(head) THEN 6
  ELSE IF has_gpt(head) THEN 5
  ELSE IF has_mbr_partition_table(head) THEN 4
  ELSE IF is_ntfs_bootsector(head) THEN 3
  ELSE IF is_fat_or_ntfs_bootsector(head) THEN 2
  ELSE IF is_ext(head) THEN 1
  ELSE 0

LEMMA KindOfBranch ==
  ASSUME NEW head
  PROVE  \/ Branch(head) = 8 /\ classify(head) = Compressed(detect_compression(head))
         \/ Branch(head) = 7 /\ classify(head) = Iso(classify_hybrid(head), has_udf(head), el_torito(head))
         \/ Branch(head) = 6 /\ classify(head) = Wim
         \/ Branch(head) = 5 /\ classify(head) = DiskImage(TRUE)
         \/ Branch(head) = 4 /\ classify(head) = DiskImage(FALSE)
         \/ Branch(head) = 3 /\ classify(head) = BareFilesystem("Ntfs")
         \/ Branch(head) = 2 /\ classify(head) = BareFilesystem("Fat")
         \/ Branch(head) = 1 /\ classify(head) = BareFilesystem("Ext")
         \/ Branch(head) = 0 /\ classify(head) = Unknown
<1>1. CASE /\ (detect_compression(head) # "None")
  BY <1>1, Zenon DEF Branch, classify
<1>2. CASE /\ ~(detect_compression(head) # "None")
           /\ (has_iso9660(head) \/ has_udf(head))
  BY <1>2, Zenon DEF Branch, classify
<1>3. CASE /\ ~(detect_compression(head) # "None")
           /\ ~(has_iso9660(head) \/ has_udf(head))
           /\ is_wim(head)
  BY <1>3, Zenon DEF Branch, classify
<1>4. CASE /\ ~(detect_compression(head) # "None")
           /\ ~(has_iso9660(head) \/ has_udf(head))
           /\ ~is_wim(head)
           /\ has_gpt(head)
  BY <1>4, Zenon DEF Branch, classify
<1>5. CASE /\ ~(detect_compression(head) # "None")
           /\ ~(has_iso9660(head) \/ has_udf(head))
           /\ ~is_wim(head)
           /\ ~has_gpt(head)
           /\ has_mbr_partition_table(head)
  BY <1>5, Zenon DEF Branch, classify
<1>6. CASE /\ ~(detect_compression(head) # "None")
           /\ ~(has_iso9660(head) \/ has_udf(head))
           /\ ~is_wim(head)
           /\ ~has_gpt(head)
           /\ ~has_mbr_partition_table(head)
           /\ is_ntfs_bootsector(head)
  BY <1>6, Zenon DEF Branch, classify
<1>7. CASE /\ ~(detect_compression(head) # "None")
           /\ ~(has_iso9660(head) \/ has_udf(head))
           /\ ~is_wim(head)
           /\ ~has_gpt(head)
           /\ ~has_mbr_partition_table(head)
           /\ ~is_ntfs_bootsector(head)
           /\ is_fat_or_ntfs_bootsector(head)
  BY <1>7, Zenon DEF Branch, classify
<1>8. CASE /\ ~(detect_compression(head) # "None")
           /\ ~(has_iso9660(head) \/ has_udf(head))
           /\ ~is_wim(head)
           /\ ~has_gpt(head)
           /\ ~has_mbr_partition_table(head)
           /\ ~is_ntfs_bootsector(head)
           /\ ~is_fat_or_ntfs_bootsector(head)
           /\ is_ext(head)
  BY <1>8, Zenon DEF Branch, classify
<1>9. CASE /\ ~(detect_compression(head) # "None")
           /\ ~(has_iso9660(head) \/ has_udf(head))
           /\ ~is_wim(head)
           /\ ~has_gpt(head)
           /\ ~has_mbr_partition_table(head)
           /\ ~is_ntfs_bootsector(head)
           /\ ~is_fat_or_ntfs_bootsector(head)
           /\ ~is_ext(head)
  BY <1>9, Zenon DEF Branch, classify
<1> QED
  BY <1>1, <1>2, <1>3, <1>4, <1>5, <1>6, <1>7, <1>8, <1>9, Zenon

\* Read the other way: the branch determines the kind.
LEMMA BranchIsKind ==
  ASSUME NEW head
  PROVE  /\ Branch(head) \in 0 .. 8
         /\ Branch(head) = 8 => classify(head) = Compressed(detect_compression(head))
         /\ Branch(head) = 7 => classify(head) = Iso(classify_hybrid(head), has_udf(head), el_torito(head))
         /\ Branch(head) = 6 => classify(head) = Wim
         /\ Branch(head) = 5 => classify(head) = DiskImage(TRUE)
         /\ Branch(head) = 4 => classify(head) = DiskImage(FALSE)
         /\ Branch(head) = 3 => classify(head) = BareFilesystem("Ntfs")
         /\ Branch(head) = 2 => classify(head) = BareFilesystem("Fat")
         /\ Branch(head) = 1 => classify(head) = BareFilesystem("Ext")
         /\ Branch(head) = 0 => classify(head) = Unknown
<1>0. \/ Branch(head) = 8 /\ classify(head) = Compressed(detect_compression(head))
      \/ Branch(head) = 7 /\ classify(head) = Iso(classify_hybrid(head), has_udf(head), el_torito(head))
      \/ Branch(head) = 6 /\ classify(head) = Wim
      \/ Branch(head) = 5 /\ classify(head) = DiskImage(TRUE)
      \/ Branch(head) = 4 /\ classify(head) = DiskImage(FALSE)
      \/ Branch(head) = 3 /\ classify(head) = BareFilesystem("Ntfs")
      \/ Branch(head) = 2 /\ classify(head) = BareFilesystem("Fat")
      \/ Branch(head) = 1 /\ classify(head) = BareFilesystem("Ext")
      \/ Branch(head) = 0 /\ classify(head) = Unknown
  BY KindOfBranch, Zenon
<1>1. Branch(head) \in 0 .. 8
  BY DEF Branch
<1>2. Branch(head) = 8 => classify(head) = Compressed(detect_compression(head))
  BY <1>0
<1>3. Branch(head) = 7 => classify(head) = Iso(classify_hybrid(head), has_udf(head), el_torito(head))
  BY <1>0
<1>4. Branch(head) = 6 => classify(head) = Wim
  BY <1>0
<1>5. Branch(head) = 5 => classify(head) = DiskImage(TRUE)
  BY <1>0
<1>6. Branch(head) = 4 => classify(head) = DiskImage(FALSE)
  BY <1>0
<1>7. Branch(head) = 3 => classify(head) = BareFilesystem("Ntfs")
  BY <1>0
<1>8. Branch(head) = 2 => classify(head) = BareFilesystem("Fat")
  BY <1>0
<1>9. Branch(head) = 1 => classify(head) = BareFilesystem("Ext")
  BY <1>0
<1>10. Branch(head) = 0 => classify(head) = Unknown
  BY <1>0
<1> QED
  BY <1>1, <1>2, <1>3, <1>4, <1>5, <1>6, <1>7, <1>8, <1>9, <1>10

LEMMA RankIsBranch == ASSUME NEW head PROVE Rank(classify(head)) = Branch(head)
<1>1. /\ \A c : Rank(Compressed(c)) = 8
      /\ \A h, u, b : Rank(Iso(h, u, b)) = 7
      /\ Rank(Wim) = 6 /\ Rank(DiskImage(TRUE)) = 5 /\ Rank(DiskImage(FALSE)) = 4
      /\ Rank(BareFilesystem("Ntfs")) = 3 /\ Rank(BareFilesystem("Fat")) = 2
      /\ Rank(BareFilesystem("Ext")) = 1 /\ Rank(Unknown) = 0
  BY DEF Rank, Compressed, Iso, Wim, DiskImage, BareFilesystem, Unknown
<1>2. CASE Branch(head) = 8 /\ classify(head) = Compressed(detect_compression(head))
  BY <1>1, <1>2
<1>3. CASE Branch(head) = 7 /\ classify(head) = Iso(classify_hybrid(head), has_udf(head), el_torito(head))
  BY <1>1, <1>3
<1>4. CASE Branch(head) = 6 /\ classify(head) = Wim
  BY <1>1, <1>4
<1>5. CASE Branch(head) = 5 /\ classify(head) = DiskImage(TRUE)
  BY <1>1, <1>5
<1>6. CASE Branch(head) = 4 /\ classify(head) = DiskImage(FALSE)
  BY <1>1, <1>6
<1>7. CASE Branch(head) = 3 /\ classify(head) = BareFilesystem("Ntfs")
  BY <1>1, <1>7
<1>8. CASE Branch(head) = 2 /\ classify(head) = BareFilesystem("Fat")
  BY <1>1, <1>8
<1>9. CASE Branch(head) = 1 /\ classify(head) = BareFilesystem("Ext")
  BY <1>1, <1>9
<1>10. CASE Branch(head) = 0 /\ classify(head) = Unknown
  BY <1>1, <1>10
<1> QED
  BY <1>2, <1>3, <1>4, <1>5, <1>6, <1>7, <1>8, <1>9, <1>10, KindOfBranch

\* What the tag of a kind says of the branch.
LEMMA TagIsBranch ==
  ASSUME NEW head
  PROVE  /\ classify(head).tag = "Iso" <=> Branch(head) = 7
         /\ classify(head).tag = "DiskImage" <=> Branch(head) \in {4, 5}
         /\ classify(head).tag = "BareFilesystem" <=> Branch(head) \in {1, 2, 3}
         /\ Branch(head) = 7 => classify(head).hybrid = classify_hybrid(head)
<1>1. /\ \A c : Compressed(c).tag = "Compressed"
      /\ \A h, u, b : Iso(h, u, b).tag = "Iso" /\ Iso(h, u, b).hybrid = h
      /\ DiskImage(TRUE).tag = "DiskImage" /\ DiskImage(FALSE).tag = "DiskImage"
      /\ \A f : BareFilesystem(f).tag = "BareFilesystem"
      /\ Wim.tag = "Wim" /\ Unknown.tag = "Unknown"
  BY DEF Compressed, Iso, Wim, DiskImage, BareFilesystem, Unknown
<1>2. CASE Branch(head) = 8 /\ classify(head) = Compressed(detect_compression(head))
  BY <1>1, <1>2
<1>3. CASE Branch(head) = 7 /\ classify(head) = Iso(classify_hybrid(head), has_udf(head), el_torito(head))
  BY <1>1, <1>3
<1>4. CASE Branch(head) = 6 /\ classify(head) = Wim
  BY <1>1, <1>4
<1>5. CASE Branch(head) = 5 /\ classify(head) = DiskImage(TRUE)
  <2>1. classify(head).tag = "DiskImage"
    BY <1>1, <1>5, Zenon
  <2>2. Branch(head) = 5
    BY <1>5, Zenon
  <2> QED
    BY <2>1, <2>2
<1>6. CASE Branch(head) = 4 /\ classify(head) = DiskImage(FALSE)
  <2>1. classify(head).tag = "DiskImage"
    BY <1>1, <1>6, Zenon
  <2>2. Branch(head) = 4
    BY <1>6, Zenon
  <2> QED
    BY <2>1, <2>2
<1>7. CASE Branch(head) = 3 /\ classify(head) = BareFilesystem("Ntfs")
  BY <1>1, <1>7
<1>8. CASE Branch(head) = 2 /\ classify(head) = BareFilesystem("Fat")
  BY <1>1, <1>8
<1>9. CASE Branch(head) = 1 /\ classify(head) = BareFilesystem("Ext")
  BY <1>1, <1>9
<1>10. CASE Branch(head) = 0 /\ classify(head) = Unknown
  BY <1>1, <1>10
<1> QED
  BY <1>2, <1>3, <1>4, <1>5, <1>6, <1>7, <1>8, <1>9, <1>10, KindOfBranch

LEMMA HybridType == ASSUME NEW head PROVE classify_hybrid(head) \in IsoHybrid
BY DEF classify_hybrid, IsoHybrid

(***************************************************************************)
(* The last window, that of the sixteenth volume descriptor, ends before   *)
(* DETECTION_HEAD_LEN: a head of that length settles every probe.          *)
(***************************************************************************)
LEMMA HeadSettles ==
  ASSUME NEW img, NEW m \in Nat, NEW n \in Nat, DETECTION_HEAD_LEN <= m, m <= n, NEW words
  PROVE  inspect(HeadOf(img, n), words) = inspect(HeadOf(img, m), words)
<1> DEFINE a == HeadOf(img, m)
           b == HeadOf(img, n)
<1>1. a.img = img /\ b.img = img
  BY DEF HeadOf
<1>2. 65536 <= m /\ 11 <= m /\ 4104 <= m /\ 65536 <= n
  BY SMT DEF DETECTION_HEAD_LEN
<1>3. \A offset, width \in Nat : offset + width <= 65536 => region(a, offset, width) /\ region(b, offset, width)
  BY <1>2, WindowRead
<1>4. /\ detect_compression(b) = detect_compression(a)
      /\ is_wim(b) <=> is_wim(a)
      /\ has_lead(b, {"jump", "jump NTFS"}, 3) <=> has_lead(a, {"jump", "jump NTFS"}, 3)
      /\ has_lead(b, {"jump NTFS"}, 11) <=> has_lead(a, {"jump NTFS"}, 11)
  <2>1. \A signatures : \A width \in 0 .. 11 : has_lead(b, signatures, width) <=> has_lead(a, signatures, width)
    BY <1>2, LeadSettled
  <2>2. detect_compression(b) = detect_compression(a) /\ (is_wim(b) <=> is_wim(a))
    BY <1>2, LeadSettled
  <2>3. 3 \in 0 .. 11 /\ 11 \in 0 .. 11
    OBVIOUS
  <2> HIDE DEF a, b
  <2> QED
    BY <2>1, <2>2, <2>3
<1>5. /\ has_gpt(b) <=> has_gpt(a)
      /\ mbr_signature(b) <=> mbr_signature(a)
      /\ mbr_partitions(b) = mbr_partitions(a)
      /\ is_ext(b) <=> is_ext(a)
      /\ classify_hybrid(b) = classify_hybrid(a)
  BY <1>2, HybridSettled
<1> HIDE DEF a, b
<1>6. has_iso9660(b) <=> has_iso9660(a)
  BY <1>1, <1>3, OffsetValues, SMT DEF has_iso9660, Offsets
<1>7. el_torito(b) <=> el_torito(a)
  BY <1>1, <1>3, OffsetValues, SMT DEF el_torito, Offsets
<1>8. \A k \in Descriptors : has_descriptor(a, k) /\ has_descriptor(b, k)
  <2> SUFFICES ASSUME NEW k \in Descriptors PROVE has_descriptor(a, k) /\ has_descriptor(b, k)
    OBVIOUS
  <2>1. VRS_START + k * ISO_SECTOR + 1 \in Nat /\ (VRS_START + k * ISO_SECTOR + 1) + 5 <= 65536
    BY OffsetValues, SMT DEF Offsets, Descriptors
  <2> QED
    BY <1>3, <2>1, SMT DEF has_descriptor
<1>9. has_udf(b) <=> has_udf(a)
  BY <1>1, <1>8 DEF has_udf
<1>10. has_mbr_partition_table(b) <=> has_mbr_partition_table(a)
  BY <1>5 DEF has_mbr_partition_table
<1>11. is_fat_or_ntfs_bootsector(b) <=> is_fat_or_ntfs_bootsector(a)
  BY <1>4, <1>5 DEF is_fat_or_ntfs_bootsector
<1>12. is_ntfs_bootsector(b) <=> is_ntfs_bootsector(a)
  BY <1>4, <1>11 DEF is_ntfs_bootsector
<1>13. Branch(b) = Branch(a)
  BY <1>4, <1>5, <1>6, <1>9, <1>10, <1>11, <1>12 DEF Branch
<1>14. has_udf(b) = has_udf(a)
  BY <1>9 DEF has_udf
<1>15. el_torito(b) = el_torito(a)
  BY <1>7 DEF el_torito
<1>16. classify(b) = classify(a)
  <2>1. Iso(classify_hybrid(b), has_udf(b), el_torito(b)) = Iso(classify_hybrid(a), has_udf(a), el_torito(a))
    BY <1>5, <1>14, <1>15
  <2> QED
    BY <1>4, <1>5, <1>6, <1>9, <1>10, <1>11, <1>12, <2>1 DEF classify
<1> QED
  BY <1>16 DEF inspect, a, b

\* The branch only moves towards the first one of the tree.
LEMMA BranchRises ==
  ASSUME NEW img, NEW m \in Nat, NEW n \in Nat, m <= n
  PROVE  Branch(HeadOf(img, m)) <= Branch(HeadOf(img, n))
<1> DEFINE a == HeadOf(img, m)
           b == HeadOf(img, n)
<1>1. /\ detect_compression(a) # "None" => detect_compression(b) # "None"
      /\ has_iso9660(a) \/ has_udf(a) => has_iso9660(b) \/ has_udf(b)
      /\ is_wim(a) => is_wim(b)
      /\ has_gpt(a) => has_gpt(b)
      /\ has_mbr_partition_table(a) => has_mbr_partition_table(b)
      /\ is_ntfs_bootsector(a) => is_ntfs_bootsector(b)
      /\ is_fat_or_ntfs_bootsector(a) => is_fat_or_ntfs_bootsector(b)
      /\ is_ext(a) => is_ext(b)
  BY ProbesStay
<1> HIDE DEF a, b
<1>2. Branch(a) <= Branch(b)
  BY <1>1 DEF Branch
<1> QED
  BY <1>2 DEF a, b

\* An optical file system is found far behind the hybrid branch's windows.
LEMMA IsoIsFar ==
  ASSUME NEW img, NEW m \in Nat, Branch(HeadOf(img, m)) = 7
  PROVE  4104 <= m
<1> DEFINE a == HeadOf(img, m)
<1>1. has_iso9660(a) \/ has_udf(a)
  BY DEF Branch
<1>2. a.len = m
  BY DEF HeadOf
<1> HIDE DEF a
<1>3. CASE has_iso9660(a)
  BY <1>2, <1>3, OffsetValues, SMT DEF has_iso9660, region, Offsets
<1>4. CASE has_udf(a)
  <2>1. PICK k \in Descriptors : has_descriptor(a, k)
    BY <1>4 DEF has_udf
  <2> QED
    BY <1>2, <2>1, OffsetValues, SMT DEF has_descriptor, region, Descriptors, Offsets
<1> QED
  BY <1>1, <1>3, <1>4

\* Once it is found, reading on changes neither the branch nor the hybrid kind.
LEMMA IsoStays ==
  ASSUME NEW img, NEW m \in Nat, NEW n \in Nat, m <= n, Branch(HeadOf(img, m)) = 7
  PROVE  /\ Branch(HeadOf(img, n)) = 7
         /\ classify_hybrid(HeadOf(img, n)) = classify_hybrid(HeadOf(img, m))
<1> DEFINE a == HeadOf(img, m)
           b == HeadOf(img, n)
<1>1. 4104 <= m /\ 11 <= m
  BY IsoIsFar
<1>2. classify_hybrid(b) = classify_hybrid(a)
  BY <1>1, HybridSettled
<1>3. detect_compression(b) = detect_compression(a)
  BY <1>1, LeadSettled
<1>4. has_iso9660(a) \/ has_udf(a) => has_iso9660(b) \/ has_udf(b)
  BY ProbesStay
<1> HIDE DEF a, b
<1>5. detect_compression(a) = "None" /\ (has_iso9660(a) \/ has_udf(a))
  <2>1. Branch(a) = 7
    BY DEF a
  <2> QED
    BY <2>1 DEF Branch
<1>6. Branch(b) = 7
  BY <1>3, <1>4, <1>5 DEF Branch
<1> QED
  BY <1>2, <1>6 DEF a, b

\* A table found in the first sectors is never called optical-only later.
LEMMA TableStaysWritable ==
  ASSUME NEW img, NEW m \in Nat, NEW n \in Nat, m <= n, Branch(HeadOf(img, m)) \in {4, 5}
  PROVE  /\ Branch(HeadOf(img, n)) \in {4, 5, 7}
         /\ classify_hybrid(HeadOf(img, n)) # "OpticalOnly"
<1> DEFINE a == HeadOf(img, m)
           b == HeadOf(img, n)
<1>1. a.len = m
  BY DEF HeadOf
<1>2. /\ has_gpt(a) => has_gpt(b)
      /\ has_mbr_partition_table(a) => has_mbr_partition_table(b)
  BY ProbesStay
<1>3. Branch(a) <= Branch(b)
  BY BranchRises
<1>4. Branch(a) \in {4, 5}
  OBVIOUS
<1>5. 11 <= m
  <2> HIDE DEF a, b
  <2>1. has_gpt(a) \/ mbr_signature(a)
    BY <1>4 DEF Branch, has_mbr_partition_table
  <2>2. CASE has_gpt(a)
    BY <1>1, <2>2, OffsetValues, SMT DEF has_gpt, region, Offsets
  <2>3. CASE mbr_signature(a)
    BY <1>1, <2>3, OffsetValues, SMT DEF mbr_signature, region, Offsets
  <2> QED
    BY <2>1, <2>2, <2>3
<1>6. detect_compression(b) = detect_compression(a) /\ (is_wim(b) <=> is_wim(a))
  BY <1>5, LeadSettled
<1> HIDE DEF a, b
<1>7. detect_compression(a) = "None" /\ ~is_wim(a) /\ (has_gpt(a) \/ has_mbr_partition_table(a))
  BY <1>4 DEF Branch
<1>8. Branch(b) \in {4, 5, 7}
  BY <1>2, <1>6, <1>7 DEF Branch
<1>9. classify_hybrid(b) # "OpticalOnly"
  <2>1. CASE has_gpt(b)
    BY <2>1 DEF classify_hybrid
  <2>2. CASE has_mbr_partition_table(b)
    <3>1. mbr_signature(b)
      BY <2>2 DEF has_mbr_partition_table
    <3>2. PICK e \in mbr_partitions(b) : is_used(e)
      BY <2>2 DEF has_mbr_partition_table
    <3> QED
      BY <3>1, <3>2 DEF classify_hybrid
  <2> QED
    BY <1>2, <1>7, <2>1, <2>2
<1> QED
  BY <1>8, <1>9 DEF a, b

\* A boot sector or a superblock may turn out to stand before a table or an optical file system.
LEMMA FilesystemBecomes ==
  ASSUME NEW img, NEW m \in Nat, NEW n \in Nat, m <= n, Branch(HeadOf(img, m)) \in {1, 2, 3}
  PROVE  Branch(HeadOf(img, n)) \in {1, 2, 3, 4, 5, 7}
<1> DEFINE a == HeadOf(img, m)
           b == HeadOf(img, n)
<1>1. a.len = m
  BY DEF HeadOf
<1>2. Branch(a) <= Branch(b)
  BY BranchRises
<1>3. Branch(a) \in {1, 2, 3}
  OBVIOUS
<1>4. 11 <= m
  <2> HIDE DEF a, b
  <2>0. is_ext(a) \/ is_fat_or_ntfs_bootsector(a) \/ is_ntfs_bootsector(a)
    BY <1>3 DEF Branch
  <2>1. is_ext(a) \/ mbr_signature(a)
    BY <2>0, Zenon DEF is_ntfs_bootsector, is_fat_or_ntfs_bootsector
  <2>2. CASE is_ext(a)
    BY <1>1, <2>2, OffsetValues, SMT DEF is_ext, region, Offsets
  <2>3. CASE mbr_signature(a)
    BY <1>1, <2>3, OffsetValues, SMT DEF mbr_signature, region, Offsets
  <2> QED
    BY <2>1, <2>2, <2>3
<1>5. detect_compression(b) = detect_compression(a) /\ (is_wim(b) <=> is_wim(a))
  BY <1>4, LeadSettled
<1> HIDE DEF a, b
<1>6. detect_compression(a) = "None" /\ ~is_wim(a)
  BY <1>3 DEF Branch
<1>7. Branch(b) \in {1, 2, 3, 4, 5, 7}
  <2>1. Branch(b) \in {0, 1, 2, 3, 4, 5, 7}
    BY <1>5, <1>6 DEF Branch
  <2> QED
    BY <1>2, <1>3, <2>1
<1> QED
  BY <1>7 DEF a, b

-----------------------------------------------------------------------------
(* The inspector.                                                          *)

Inv ==
  /\ layers \in Seq(Image) /\ layers # <<>>
  /\ label \subseteq VendorWord
  /\ len \in 0 .. image.size
  /\ verdict = inspect(HeadOf(image, len), label)

LEMMA ImageSize == ASSUME NEW s \in Seq(Image), s # <<>> PROVE Head(s) \in Image /\ Head(s).size \in Nat
<1>1. Head(s) \in Image
  OBVIOUS
<1>2. \A i \in Image : i.size \in Nat
  BY DEF Image
<1> QED
  BY <1>1, <1>2

LEMMA InspectorInvariant == Spec => []Inv
<1>1. Init => Inv
  <2> SUFFICES ASSUME Init PROVE Inv
    OBVIOUS
  <2>1. layers \in Seq(Image) /\ layers # <<>> /\ label \subseteq VendorWord
    BY FilesAssumption DEF Init
  <2> QED
    BY <2>1, ImageSize DEF Init, Inv, image
<1>2. Inv /\ [Next]_inspectorVars => Inv'
  <2> SUFFICES ASSUME Inv, [Next]_inspectorVars PROVE Inv'
    OBVIOUS
  <2>1. CASE ReadMore
    <3>1. image.size \in Nat /\ image' = image
      BY <2>1, ImageSize DEF Inv, ReadMore, image
    <3>2. len' \in 0 .. image'.size
      BY <2>1, <3>1, FilesAssumption DEF ReadMore, Least, Inv
    <3> QED
      BY <2>1, <3>1, <3>2 DEF Inv, ReadMore
  <2>2. CASE Unwrap
    <3>1. layers' \in Seq(Image) /\ layers' # <<>>
      BY <2>2 DEF Inv, Unwrap
    <3>2. image'.size \in Nat
      BY <3>1, ImageSize DEF image
    <3> QED
      BY <2>2, <3>1, <3>2 DEF Inv, Unwrap, image
  <2>3. CASE UNCHANGED inspectorVars
    BY <2>3 DEF Inv, image, inspectorVars
  <2> QED
    BY <2>1, <2>2, <2>3 DEF Next
<1> QED
  BY <1>1, <1>2, PTL DEF Spec

\* A step that keeps the image reads on, or does nothing.
LEMMA Reads ==
  ASSUME Inv, Next, SameImage
  PROVE  /\ len \in Nat /\ len' \in Nat /\ len <= len'
         /\ verdict = inspect(HeadOf(image, len), label)
         /\ verdict' = inspect(HeadOf(image, len'), label)
<1>1. image.size \in Nat
  BY ImageSize DEF Inv, image
<1>2. CASE ReadMore
  BY <1>1, <1>2, FilesAssumption DEF ReadMore, Inv, Least
<1>3. CASE Unwrap
  <2>1. Len(Tail(layers)) = Len(layers) - 1 /\ Len(layers) \in Nat
    BY <1>3 DEF Inv, Unwrap
  <2> QED
    BY <1>3, <2>1 DEF Unwrap, SameImage
<1> QED
  BY <1>2, <1>3 DEF Next

LEMMA VerdictType ==
  ASSUME NEW head, NEW words
  PROVE  inspect(head, words) \in Verdict
<1>1. guess_bsd_flavor(words) \in BsdFlavor
  BY DEF guess_bsd_flavor, BsdFlavor
<1>2. \A k : bsd_warning(k, words) \in BsdFlavor \cup {"None"}
  BY <1>1 DEF bsd_warning
<1>3. classify(head) \in ImageKind
  <2>1. detect_compression(head) # "None" => detect_compression(head) \in Compression
    BY Zenon DEF detect_compression, has_lead
  <2>2. has_udf(head) \in BOOLEAN
    BY DEF has_udf
  <2>3. el_torito(head) \in BOOLEAN
    BY DEF el_torito
  <2>4. Iso(classify_hybrid(head), has_udf(head), el_torito(head)) \in ImageKind
    BY <2>2, <2>3, HybridType DEF ImageKind
  <2>5. \A c \in Compression : Compressed(c) \in ImageKind
    BY DEF ImageKind
  <2>6. DiskImage(TRUE) \in ImageKind /\ DiskImage(FALSE) \in ImageKind
    <3> DEFINE tables == {DiskImage(g) : g \in BOOLEAN}
    <3>1. tables \subseteq ImageKind
      BY DEF ImageKind
    <3>2. DiskImage(TRUE) \in tables /\ DiskImage(FALSE) \in tables
      BY Zenon
    <3> QED
      BY <3>1, <3>2, Zenon
  <2>7. /\ Wim \in ImageKind /\ Unknown \in ImageKind
        /\ BareFilesystem("Ntfs") \in ImageKind /\ BareFilesystem("Fat") \in ImageKind
        /\ BareFilesystem("Ext") \in ImageKind
    BY DEF ImageKind
  <2> QED
    BY <2>1, <2>4, <2>5, <2>6, <2>7, Zenon DEF classify
<1> QED
  BY <1>2, <1>3 DEF inspect, Verdict

-----------------------------------------------------------------------------
(* The theorems.                                                           *)

\* Whatever is read of whatever image, inspect answers with a verdict of its type.
THEOREM InspectorTypeCorrect == Spec => []TypeOK
<1>1. Inv => TypeOK
  BY VerdictType DEF Inv, TypeOK
<1> QED
  BY <1>1, InspectorInvariant, PTL

\* An ISO is written raw or warned about, never both; nothing else is warned about.
THEOREM WarnedXorWritable == Spec => []WarnedOrWritable
<1>1. Inv => WarnedOrWritable
  <2> SUFFICES ASSUME Inv PROVE WarnedOrWritable
    OBVIOUS
  <2>1. verdict.bsd_warning = bsd_warning(verdict.kind, label)
    BY DEF Inv, inspect
  <2>2. guess_bsd_flavor(label) # "None"
    BY DEF guess_bsd_flavor
  <2> QED
    BY <2>1, <2>2 DEF WarnedOrWritable, bsd_warning, is_dd_writable
<1> QED
  BY <1>1, InspectorInvariant, PTL

\* A head of 64 KiB settles the verdict of an image of any length.
THEOREM DetectionHeadSettles == Spec => []SettledAtDetectionHead
<1>1. Inv => SettledAtDetectionHead
  <2> SUFFICES ASSUME Inv, len >= DETECTION_HEAD_LEN
               PROVE  verdict = inspect(HeadOf(image, image.size), label)
    BY DEF SettledAtDetectionHead, SettledBy
  <2>1. image.size \in Nat
    BY ImageSize DEF Inv, image
  <2>2. len \in Nat /\ len <= image.size /\ DETECTION_HEAD_LEN <= len
    BY <2>1, SMT DEF Inv, DETECTION_HEAD_LEN
  <2> QED
    BY <2>1, <2>2, HeadSettles DEF Inv
<1> QED
  BY <1>1, InspectorInvariant, PTL

\* Reading on never loses a signature, nor lets one further down the tree overrule it.
THEOREM KindsRiseOnly == Spec => KindsOnlyRise
<1>1. Inv /\ [Next]_inspectorVars => [SameImage => Rank(verdict.kind) <= Rank(verdict'.kind)]_inspectorVars
  <2> SUFFICES ASSUME Inv, Next, SameImage PROVE Rank(verdict.kind) <= Rank(verdict'.kind)
    BY DEF inspectorVars
  <2>1. verdict.kind = classify(HeadOf(image, len)) /\ verdict'.kind = classify(HeadOf(image, len'))
    BY Reads DEF inspect
  <2>2. Branch(HeadOf(image, len)) <= Branch(HeadOf(image, len'))
    BY Reads, BranchRises
  <2> QED
    BY <2>1, <2>2, RankIsBranch
<1> QED
  BY <1>1, InspectorInvariant, PTL DEF Spec, KindsOnlyRise

\* The hybrid kind of an ISO is the one a longer head would give.
THEOREM HybridNeverChanges == Spec => HybridIsFinal
<1>1. Inv /\ [Next]_inspectorVars =>
        [SameImage /\ verdict.kind.tag = "Iso" => verdict'.kind.hybrid = verdict.kind.hybrid]_inspectorVars
  <2> SUFFICES ASSUME Inv, Next, SameImage, verdict.kind.tag = "Iso"
               PROVE  verdict'.kind.hybrid = verdict.kind.hybrid
    BY DEF inspectorVars
  <2>1. verdict.kind = classify(HeadOf(image, len)) /\ verdict'.kind = classify(HeadOf(image, len'))
    BY Reads DEF inspect
  <2>2. Branch(HeadOf(image, len)) = 7
    BY <2>1, TagIsBranch
  <2>3. /\ Branch(HeadOf(image, len')) = 7
        /\ classify_hybrid(HeadOf(image, len')) = classify_hybrid(HeadOf(image, len))
    BY <2>2, Reads, IsoStays
  <2> QED
    BY <2>1, <2>2, <2>3, TagIsBranch
<1> QED
  BY <1>1, InspectorInvariant, PTL DEF Spec, HybridIsFinal

\* A raw write that was allowed is withdrawn only where the warning takes its place.
THEOREM PermissionsAreKept == Spec => PermissionIsKept
<1>1. Inv /\ [Next]_inspectorVars =>
        [SameImage /\ is_dd_writable(verdict) /\ ~is_dd_writable(verdict') =>
           /\ verdict.kind.tag = "BareFilesystem"
           /\ verdict'.kind.tag = "Iso" /\ verdict'.bsd_warning # "None"]_inspectorVars
  <2> SUFFICES ASSUME Inv, Next, SameImage, is_dd_writable(verdict), ~is_dd_writable(verdict')
               PROVE  /\ verdict.kind.tag = "BareFilesystem"
                      /\ verdict'.kind.tag = "Iso" /\ verdict'.bsd_warning # "None"
    BY DEF inspectorVars
  <2> DEFINE a == HeadOf(image, len)
             b == HeadOf(image, len')
  <2>1. /\ verdict.kind = classify(a) /\ verdict'.kind = classify(b)
        /\ verdict'.bsd_warning = bsd_warning(classify(b), label)
    BY Reads DEF inspect
  <2>2. Branch(a) = 7 => Branch(b) = 7 /\ classify_hybrid(b) = classify_hybrid(a)
    BY Reads, IsoStays
  <2>3. Branch(a) \in {4, 5} => Branch(b) \in {4, 5, 7} /\ classify_hybrid(b) # "OpticalOnly"
    BY Reads, TableStaysWritable
  <2>4. Branch(a) \in {1, 2, 3} => Branch(b) \in {1, 2, 3, 4, 5, 7}
    BY Reads, FilesystemBecomes
  <2> HIDE DEF a, b
  <2>5. /\ classify(a).tag = "Iso" <=> Branch(a) = 7
        /\ classify(a).tag = "DiskImage" <=> Branch(a) \in {4, 5}
        /\ classify(a).tag = "BareFilesystem" <=> Branch(a) \in {1, 2, 3}
        /\ Branch(a) = 7 => classify(a).hybrid = classify_hybrid(a)
    BY TagIsBranch
  <2>6. /\ classify(b).tag = "Iso" <=> Branch(b) = 7
        /\ classify(b).tag = "DiskImage" <=> Branch(b) \in {4, 5}
        /\ classify(b).tag = "BareFilesystem" <=> Branch(b) \in {1, 2, 3}
        /\ Branch(b) = 7 => classify(b).hybrid = classify_hybrid(b)
    BY TagIsBranch
  <2>7. Branch(b) \notin {1, 2, 3, 4, 5} /\ (Branch(b) = 7 => classify(b).hybrid = "OpticalOnly")
    BY <2>1, <2>6 DEF is_dd_writable
  <2>8. Branch(a) \in {1, 2, 3, 4, 5} \/ (Branch(a) = 7 /\ classify(a).hybrid # "OpticalOnly")
    BY <2>1, <2>5 DEF is_dd_writable
  <2>9. Branch(a) \in {1, 2, 3} /\ Branch(b) = 7
    BY <2>2, <2>3, <2>4, <2>5, <2>6, <2>7, <2>8
  <2>10. classify(b).tag = "Iso" /\ classify(b).hybrid = "OpticalOnly"
    BY <2>6, <2>7, <2>9
  <2>11. bsd_warning(classify(b), label) # "None"
    BY <2>10 DEF bsd_warning, guess_bsd_flavor
  <2> QED
    BY <2>1, <2>5, <2>9, <2>10, <2>11
<1> QED
  BY <1>1, InspectorInvariant, PTL DEF Spec, PermissionIsKept
=============================================================================
