--------------------------- MODULE ImgReport_proofs ---------------------------
(***************************************************************************)
(* For any number of facts and of large files, found in any order: the     *)
(* packed byte says of the large files what FAT32 has to know, and the     *)
(* predicates of a report agree with one another and with what was found.  *)
(***************************************************************************)
EXTENDS ImgReport, TLAPS

\* What the two nibbles of has_4gb_file say of the files that were found.
Packed(packed, index, first, others) ==
  \E lo, hi \in 0 .. 15 :
    /\ packed = lo + 16 * hi
    /\ lo = IF others + (IF first THEN 1 ELSE 0) < 15 THEN others + (IF first THEN 1 ELSE 0) ELSE 15
    /\ hi < <<1, 2, 4, 8, 16>>[index + 1]
    /\ first <=> hi % 2 = 1
    /\ hi >= 2 => others > 0

Inv ==
  /\ TypeOK
  /\ Packed(report.has_4gb_file, report.wininst_index, firstIsBig, otherBigFiles)
  /\ report.has_bootmgr_efi <=> EFI_BOOTMGR \in report.has_efi
  /\ is_supported(report) <=> found \cap BootFact # {}

\* One more large file, which is no install image.
LEMMA PackFile ==
  ASSUME NEW packed \in 0 .. 255, NEW index \in 0 .. 4, NEW first \in BOOLEAN, NEW others \in Nat,
         Packed(packed, index, first, others)
  PROVE  Counted(packed) \in 0 .. 255 /\ Packed(Counted(packed), index, first, others + 1)
<1>1. PICK lo \in 0 .. 15, hi \in 0 .. 15 :
        /\ packed = lo + 16 * hi
        /\ lo = IF others + (IF first THEN 1 ELSE 0) < 15 THEN others + (IF first THEN 1 ELSE 0) ELSE 15
        /\ hi < <<1, 2, 4, 8, 16>>[index + 1]
        /\ first <=> hi % 2 = 1
        /\ hi >= 2 => others > 0
  BY DEF Packed
<1>2. packed % 16 = lo
  BY <1>1
<1>3. CASE lo < 15
  <2>1. Counted(packed) = (lo + 1) + 16 * hi /\ lo + 1 \in 0 .. 15
    BY <1>1, <1>2, <1>3 DEF Counted
  <2>2. lo + 1 = IF others + 1 + (IF first THEN 1 ELSE 0) < 15
                   THEN others + 1 + (IF first THEN 1 ELSE 0) ELSE 15
    BY <1>1, <1>3
  <2>3. hi >= 2 => others + 1 > 0
    OBVIOUS
  <2> QED
    BY <1>1, <2>1, <2>2, <2>3 DEF Packed
<1>4. CASE lo = 15
  <2>1. Counted(packed) = lo + 16 * hi
    BY <1>1, <1>2, <1>4 DEF Counted
  <2>2. lo = IF others + 1 + (IF first THEN 1 ELSE 0) < 15
               THEN others + 1 + (IF first THEN 1 ELSE 0) ELSE 15
    BY <1>1, <1>4
  <2>3. hi >= 2 => others + 1 > 0
    OBVIOUS
  <2> QED
    BY <1>1, <2>1, <2>2, <2>3 DEF Packed
<1> QED
  BY <1>1, <1>3, <1>4

\* The next install image, large or not: its flag has not been set before.
LEMMA PackInstallImage ==
  ASSUME NEW packed \in 0 .. 255, NEW i \in 0 .. 3, NEW first \in BOOLEAN, NEW others \in Nat,
         i = 0 => ~first,
         Packed(packed, i, first, others)
  PROVE  /\ Packed(packed, i + 1, first, others)
         /\ Counted(packed) + Flag[i + 1] \in 0 .. 255
         /\ i = 0 => Packed(Counted(packed) + Flag[i + 1], i + 1, TRUE, others)
         /\ i > 0 => Packed(Counted(packed) + Flag[i + 1], i + 1, first, others + 1)
<1>1. PICK lo \in 0 .. 15, hi \in 0 .. 15 :
        /\ packed = lo + 16 * hi
        /\ lo = IF others + (IF first THEN 1 ELSE 0) < 15 THEN others + (IF first THEN 1 ELSE 0) ELSE 15
        /\ hi < <<1, 2, 4, 8, 16>>[i + 1]
        /\ first <=> hi % 2 = 1
        /\ hi >= 2 => others > 0
  BY DEF Packed
<1>2. packed % 16 = lo
  BY <1>1
<1> DEFINE lo2 == IF lo < 15 THEN lo + 1 ELSE lo
           bit == <<1, 2, 4, 8>>[i + 1]
           hi2 == hi + bit
           after == Counted(packed) + Flag[i + 1]
<1>3. i = 0 \/ i = 1 \/ i = 2 \/ i = 3
  OBVIOUS
<1>4. /\ hi2 \in 0 .. 15 /\ hi2 < <<1, 2, 4, 8, 16>>[(i + 1) + 1]
      /\ hi < <<1, 2, 4, 8, 16>>[(i + 1) + 1]
      /\ i = 0 => hi = 0 /\ bit = 1
      /\ i > 0 => bit \in {2, 4, 8}
      /\ Flag[i + 1] = 16 * bit
  <2>1. CASE i = 0
    BY <1>1, <2>1 DEF Flag
  <2>2. CASE i = 1
    BY <1>1, <2>2 DEF Flag
  <2>3. CASE i = 2
    BY <1>1, <2>3 DEF Flag
  <2>4. CASE i = 3
    BY <1>1, <2>4 DEF Flag
  <2> QED
    BY <1>3, <2>1, <2>2, <2>3, <2>4
<1>5. lo2 \in 0 .. 15 /\ after = lo2 + 16 * hi2
  BY <1>1, <1>2, <1>4 DEF Counted
<1>6. after \in 0 .. 255
  BY <1>4, <1>5
<1>7. Packed(packed, i + 1, first, others)
  BY <1>1, <1>4 DEF Packed
<1>8. ASSUME i = 0 PROVE Packed(after, i + 1, TRUE, others)
  <2>1. hi2 = 1 /\ hi2 % 2 = 1
    BY <1>4, <1>8
  <2>2. lo2 = IF others + (IF TRUE THEN 1 ELSE 0) < 15 THEN others + (IF TRUE THEN 1 ELSE 0) ELSE 15
    BY <1>1, <1>8
  <2> HIDE DEF lo2, hi2, after
  <2> QED
    BY <1>4, <1>5, <2>1, <2>2 DEF Packed
<1>9. ASSUME i > 0 PROVE Packed(after, i + 1, first, others + 1)
  <2>1. first <=> hi2 % 2 = 1
    BY <1>1, <1>4, <1>9
  <2>2. lo2 = IF others + 1 + (IF first THEN 1 ELSE 0) < 15
                THEN others + 1 + (IF first THEN 1 ELSE 0) ELSE 15
    BY <1>1
  <2>3. hi2 >= 2 => others + 1 > 0
    OBVIOUS
  <2> HIDE DEF lo2, hi2, after
  <2> QED
    BY <1>4, <1>5, <2>1, <2>2, <2>3 DEF Packed
<1> QED
  BY <1>6, <1>7, <1>8, <1>9

-----------------------------------------------------------------------------
(* What a fact changes.                                                    *)

BootField == {"has_bootmgr", "has_bootmgr_efi", "sl_version", "has_grub4dos", "has_kolibrios",
              "reactos_path", "is_dd_bootable", "winpe", "has_efi", "has_grub2"}
OtherField == {"is_iso", "disable_iso", "uses_minint", "needs_ntfs", "has_grub2_fs", "win_version"}

\* The gate: a report is supported when one of the boot fields is filled in.
LEMMA SupportedByField ==
  ASSUME NEW r \in Report
  PROVE  is_supported(r) <=> \E f \in BootField : r[f] # Default[f]
<1>1. is_dd_bootable(r) <=> r["is_dd_bootable"] # Default["is_dd_bootable"]
  BY DEF Report, Default, is_dd_bootable
<1>2. is_efi_bootable(r) <=> r["has_efi"] # Default["has_efi"]
  BY DEF Default, is_efi_bootable
<1>3. has_syslinux(r) <=> r["sl_version"] # Default["sl_version"]
  BY DEF Default, has_syslinux
<1>4. has_winpe(r) <=> r["winpe"] # Default["winpe"]
  BY DEF Report, Default, has_winpe
<1>5. has_reactos(r) <=> r["reactos_path"] # Default["reactos_path"]
  BY DEF Default, has_reactos
<1>6. /\ r.has_bootmgr <=> r["has_bootmgr"] # Default["has_bootmgr"]
      /\ r.has_bootmgr_efi <=> r["has_bootmgr_efi"] # Default["has_bootmgr_efi"]
      /\ r.has_grub4dos <=> r["has_grub4dos"] # Default["has_grub4dos"]
      /\ r.has_kolibrios <=> r["has_kolibrios"] # Default["has_kolibrios"]
  BY DEF Report, Default
<1>7. r.has_grub2 # {} <=> r["has_grub2"] # Default["has_grub2"]
  BY DEF Default
<1> QED
  BY <1>1, <1>2, <1>3, <1>4, <1>5, <1>6, <1>7
     DEF BootField, is_supported, is_bios_bootable, has_bootmgr, has_grub

LEMMA Defaults ==
  /\ Default["has_efi"] = {} /\ Default["winpe"] = {} /\ Default["has_grub2"] = {}
  /\ Default["has_grub2_fs"] = {}
  /\ Default["has_bootmgr"] = FALSE /\ Default["has_bootmgr_efi"] = FALSE
  /\ Default["has_grub4dos"] = FALSE /\ Default["has_kolibrios"] = FALSE
  /\ Default["is_iso"] = FALSE /\ Default["disable_iso"] = FALSE
  /\ Default["uses_minint"] = FALSE /\ Default["needs_ntfs"] = FALSE
  /\ Default["sl_version"] = 0 /\ Default["win_version"] = 0
  /\ Default["reactos_path"] = "" /\ Default["is_dd_bootable"] = "No"
BY DEF Default

\* A fact names its field, and a value other than the default.
LEMMA FactShape ==
  ASSUME NEW fact \in Fact
  PROVE  /\ fact = Says(fact.field, fact.value)
         /\ fact.field \in BootField \cup OtherField
         /\ fact \in BootFact <=> fact.field \in BootField
         /\ fact.field \notin Masks => fact.value # Default[fact.field]
         /\ fact.field = "has_bootmgr_efi" <=> fact = Says("has_bootmgr_efi", TRUE)
         /\ fact.field = "has_efi" => fact.value # EFI_BOOTMGR
<1>1. CASE fact \in BootFact
  <2>1. fact = Says(fact.field, fact.value) /\ fact.field \in BootField
    BY <1>1 DEF Says, BootFact, BootField
  <2>2. \/ fact.field \in Masks
        \/ fact.field \in {"has_bootmgr", "has_bootmgr_efi", "has_grub4dos", "has_kolibrios"} /\ fact.value = TRUE
        \/ fact.field = "sl_version" /\ fact.value = 6
        \/ fact.field = "reactos_path" /\ fact.value = "found"
        \/ fact.field = "is_dd_bootable" /\ fact.value \in {"Yes", "Forced"}
    BY <1>1 DEF Says, BootFact, Masks
  <2>3. fact.field \notin Masks => fact.value # Default[fact.field]
    <3>1. CASE fact.field \in {"has_bootmgr", "has_bootmgr_efi", "has_grub4dos", "has_kolibrios"}
               /\ fact.value = TRUE
      <4>1. Default[fact.field] = FALSE
        BY <3>1, Defaults
      <4> QED
        BY <3>1, <4>1
    <3>2. CASE fact.field = "sl_version" /\ fact.value = 6
      <4>1. Default[fact.field] = 0
        BY <3>2, Defaults
      <4> QED
        BY <3>2, <4>1
    <3>3. CASE fact.field = "reactos_path" /\ fact.value = "found"
      <4>1. Default[fact.field] = ""
        BY <3>3, Defaults
      <4> QED
        BY <3>3, <4>1
    <3>4. CASE fact.field = "is_dd_bootable" /\ fact.value \in {"Yes", "Forced"}
      <4>1. Default[fact.field] = "No"
        BY <3>4, Defaults
      <4> QED
        BY <3>4, <4>1
    <3> QED
      BY <2>2, <3>1, <3>2, <3>3, <3>4
  <2>4. fact.field = "has_bootmgr_efi" <=> fact = Says("has_bootmgr_efi", TRUE)
    BY <1>1, <2>1, <2>2 DEF Says, Masks
  <2>5. fact.field = "has_efi" => fact.value # EFI_BOOTMGR
    BY <1>1 DEF Says, BootFact, EFI_BOOTMGR, EFI_IMG_ONLY
  <2> QED
    BY <1>1, <2>1, <2>3, <2>4, <2>5
<1>2. CASE fact \in OtherFact
  <2>1. fact.field \in OtherField /\ fact = Says(fact.field, fact.value)
    BY <1>2 DEF Says, OtherFact, OtherField
  <2>2. fact.field \notin BootField
    BY <2>1 DEF OtherField, BootField
  <2>3. fact \notin BootFact
    BY <2>2 DEF Says, BootFact, BootField
  <2>4. \/ fact.field \in Masks
        \/ fact.field \in {"is_iso", "disable_iso", "uses_minint", "needs_ntfs"} /\ fact.value = TRUE
        \/ fact.field = "win_version" /\ fact.value \in {6, 10, 11}
    BY <1>2 DEF Says, OtherFact, Masks
  <2>5. fact.field \notin Masks => fact.value # Default[fact.field]
    <3>1. CASE fact.field \in {"is_iso", "disable_iso", "uses_minint", "needs_ntfs"}
               /\ fact.value = TRUE
      <4>1. Default[fact.field] = FALSE
        BY <3>1, Defaults
      <4> QED
        BY <3>1, <4>1
    <3>2. CASE fact.field = "win_version" /\ fact.value \in {6, 10, 11}
      <4>1. Default[fact.field] = 0
        BY <3>2, Defaults
      <4>2. fact.value \in Int /\ fact.value > 0
        BY <3>2
      <4> QED
        BY <4>1, <4>2
    <3> QED
      BY <2>4, <3>1, <3>2
  <2>6. fact.field # "has_efi" /\ fact.field # "has_bootmgr_efi"
    BY <2>2 DEF BootField
  <2>7. fact # Says("has_bootmgr_efi", TRUE)
    BY <2>6 DEF Says
  <2> QED
    BY <2>1, <2>2, <2>3, <2>5, <2>6, <2>7
<1> QED
  BY <1>1, <1>2 DEF Fact

\* Filling in a field leaves the others, and the field with something in it.
LEMMA FilledField ==
  ASSUME NEW r \in Report, NEW f \in BootField \cup OtherField, NEW v,
         f \notin Masks => v # Default[f]
  PROVE  /\ Filled(r, f, v)[f] # Default[f]
         /\ \A g \in DOMAIN Default \ {f} : Filled(r, f, v)[g] = r[g]
<1>1. DOMAIN r = DOMAIN Default /\ f \in DOMAIN Default
  BY DEF Report, Default, BootField, OtherField
<1>2. f \in Masks => Default[f] = {}
  BY Defaults DEF Masks
<1> QED
  BY <1>1, <1>2 DEF Filled

\* What putting a fact into a report does to it.
Changed(r, r2, fact) ==
  /\ r2[fact.field] # Default[fact.field]
  /\ \A g \in DOMAIN Default \ {fact.field, "has_efi"} : r2[g] = r[g]
  /\ fact.field \notin {"has_efi", "has_bootmgr_efi"} => r2["has_efi"] = r["has_efi"]
  /\ fact.field = "has_efi" => r2["has_efi"] = r["has_efi"] \cup {fact.value}
  /\ fact.field = "has_bootmgr_efi" =>
       r2["has_efi"] = r["has_efi"] \cup {EFI_BOOTMGR} /\ r2["has_bootmgr_efi"] = TRUE

LEMMA FactEffect ==
  ASSUME NEW r \in Report, NEW fact \in Fact
  PROVE  Changed(r, WithFact(r, fact), fact)
<1> DEFINE r2 == WithFact(r, fact)
<1>1. CASE fact # Says("has_bootmgr_efi", TRUE)
  <2>1. r2 = Filled(r, fact.field, fact.value) /\ fact.field # "has_bootmgr_efi"
    BY <1>1, FactShape DEF WithFact
  <2>2. "has_efi" \in DOMAIN Default
    BY DEF Default
  <2>3. fact.field = "has_efi" => r2["has_efi"] = r["has_efi"] \cup {fact.value}
    BY <2>1 DEF Filled, Masks, Report
  <2>4. /\ fact.field \in BootField \cup OtherField
        /\ fact.field \notin Masks => fact.value # Default[fact.field]
    BY FactShape
  <2>5. /\ r2[fact.field] # Default[fact.field]
        /\ \A g \in DOMAIN Default \ {fact.field} : r2[g] = r[g]
    BY <2>1, <2>4, FilledField
  <2> QED
    BY <2>1, <2>2, <2>3, <2>5 DEF Changed
<1>2. CASE fact = Says("has_bootmgr_efi", TRUE)
  <2>1. r2 = Filled(Filled(r, "has_bootmgr_efi", TRUE), "has_efi", EFI_BOOTMGR)
        /\ fact.field = "has_bootmgr_efi"
    BY <1>2 DEF WithFact, Says
  <2>2. r2 = [[r EXCEPT !["has_bootmgr_efi"] = TRUE] EXCEPT !["has_efi"] = @ \cup {EFI_BOOTMGR}]
    BY <2>1 DEF Filled, Masks
  <2>3. DOMAIN r = DOMAIN Default /\ "has_bootmgr_efi" \in DOMAIN r /\ "has_efi" \in DOMAIN r
    BY DEF Report, Default
  <2> QED
    BY <2>1, <2>2, <2>3, FactShape, Defaults DEF Changed
<1> QED
  BY <1>1, <1>2

\* A fact that can be booted opens the gate, and no other fact does.
LEMMA FactSupports ==
  ASSUME NEW r \in Report, NEW fact \in Fact,
         NEW r2 \in Report, r2 = WithFact(r, fact),
         NEW facts \in SUBSET Fact, is_supported(r) <=> facts \cap BootFact # {}
  PROVE  is_supported(r2) <=> (facts \cup {fact}) \cap BootFact # {}
<1>1. is_supported(r2) <=> \E f \in BootField : r2[f] # Default[f]
  BY SupportedByField
<1>2. is_supported(r) <=> \E f \in BootField : r[f] # Default[f]
  BY SupportedByField
<1>3. BootField \subseteq DOMAIN Default
  BY DEF BootField, Default
<1>4. Changed(r, r2, fact)
  BY FactEffect
<1>5. CASE fact \in BootFact
  <2>1. fact.field \in BootField
    BY <1>5, FactShape
  <2>2. is_supported(r2)
    BY <1>1, <1>4, <2>1 DEF Changed
  <2> QED
    BY <1>5, <2>2
<1>6. CASE fact \notin BootFact
  <2>1. fact.field \notin BootField
    BY <1>6, FactShape
  <2>2. fact.field \notin {"has_efi", "has_bootmgr_efi"}
    BY <2>1 DEF BootField
  <2>3. \A g \in BootField : r2[g] = r[g]
    BY <1>3, <1>4, <2>1, <2>2 DEF Changed
  <2>4. is_supported(r2) <=> is_supported(r)
    BY <1>1, <1>2, <2>3
  <2> QED
    BY <1>6, <2>4
<1> QED
  BY <1>5, <1>6

\* What a field may be filled in with.
FieldType(f) ==
  CASE f = "has_efi" -> SUBSET (0 .. 15) [] f = "winpe" -> SUBSET WinPE
    [] f \in {"has_grub2", "has_grub2_fs"} -> SUBSET (0 .. 7)
    [] f = "is_dd_bootable" -> {"No", "Yes", "Forced"}
    [] f = "sl_version" -> {0, 6} [] f = "win_version" -> {0, 6, 10, 11}
    [] f = "reactos_path" -> {"", "found"}
    [] OTHER -> BOOLEAN

\* A report with one field filled in is a report.
LEMMA FieldKeepsType ==
  ASSUME NEW r \in Report, NEW f \in BootField \cup OtherField, NEW v \in FieldType(f)
  PROVE  [r EXCEPT ![f] = v] \in Report
<1>1. CASE f \in {"has_bootmgr", "has_bootmgr_efi", "has_grub4dos", "has_kolibrios"}
  BY <1>1 DEF Report, FieldType
<1>2. CASE f \in {"is_iso", "disable_iso", "uses_minint", "needs_ntfs"}
  BY <1>2 DEF Report, FieldType
<1>3. CASE f \in {"has_efi", "winpe", "has_grub2", "has_grub2_fs"}
  BY <1>3 DEF Report, FieldType
<1>4. CASE f \in {"sl_version", "win_version", "reactos_path", "is_dd_bootable"}
  BY <1>4 DEF Report, FieldType
<1> QED
  BY <1>1, <1>2, <1>3, <1>4 DEF BootField, OtherField

\* The value of a fact is one its field may have, or an element of one.
LEMMA FactValues ==
  ASSUME NEW fact \in Fact
  PROVE  /\ fact.field \notin Masks => fact.value \in FieldType(fact.field)
         /\ fact.field \in Masks => {fact.value} \in FieldType(fact.field)
<1>1. CASE \E b \in {"Yes", "Forced"} : fact = Says("is_dd_bootable", b)
  BY <1>1 DEF Says, Masks, FieldType
<1>2. CASE \E b \in WinPE : fact = Says("winpe", b)
  BY <1>2 DEF Says, Masks, FieldType
<1>3. CASE \E b \in {1, 14, EFI_IMG_ONLY} : fact = Says("has_efi", b)
  BY <1>3 DEF Says, Masks, FieldType, EFI_IMG_ONLY
<1>4. CASE \E b \in {0, 1, GRUB2_EFI} : fact = Says("has_grub2", b)
  BY <1>4 DEF Says, Masks, FieldType, GRUB2_EFI
<1>5. CASE \E b \in {GRUB2_FS_FAT, 1, 2} : fact = Says("has_grub2_fs", b)
  BY <1>5 DEF Says, Masks, FieldType, GRUB2_FS_FAT
<1>6. CASE \E v \in {6, 10, 11} : fact = Says("win_version", v)
  BY <1>6 DEF Says, Masks, FieldType
<1>7. CASE fact = Says("sl_version", 6)
  BY <1>7 DEF Says, Masks, FieldType
<1>8. CASE fact = Says("reactos_path", "found")
  BY <1>8 DEF Says, Masks, FieldType
<1>9. CASE \E f \in {"has_bootmgr", "has_bootmgr_efi", "has_grub4dos", "has_kolibrios",
                      "is_iso", "disable_iso", "uses_minint", "needs_ntfs"} : fact = Says(f, TRUE)
  <2>1. PICK f \in {"has_bootmgr", "has_bootmgr_efi", "has_grub4dos", "has_kolibrios",
                    "is_iso", "disable_iso", "uses_minint", "needs_ntfs"} : fact = Says(f, TRUE)
    BY <1>9
  <2>2. fact.field = f /\ fact.value = TRUE
    BY <2>1 DEF Says
  <2>3. f \notin Masks /\ FieldType(f) = BOOLEAN
    BY <2>1 DEF Masks, FieldType
  <2> QED
    BY <2>2, <2>3
<1> QED
  BY <1>1, <1>2, <1>3, <1>4, <1>5, <1>6, <1>7, <1>8, <1>9 DEF Fact, BootFact, OtherFact

LEMMA FieldOfByte ==
  ASSUME NEW r \in Report, NEW b \in 0 .. 255
  PROVE  [r EXCEPT !.has_4gb_file = b] \in Report
BY DEF Report

\* And so is a report with a fact in it; only its own fields change.
LEMMA FactKeepsType ==
  ASSUME NEW r \in Report, NEW fact \in Fact
  PROVE  /\ WithFact(r, fact) \in Report
         /\ WithFact(r, fact).has_4gb_file = r.has_4gb_file
         /\ WithFact(r, fact).wininst_index = r.wininst_index
<1>1. CASE fact.field \notin Masks /\ fact # Says("has_bootmgr_efi", TRUE)
  <2>1. WithFact(r, fact) = [r EXCEPT ![fact.field] = fact.value]
    BY <1>1 DEF WithFact, Filled
  <2>2. fact.field \in BootField \cup OtherField /\ fact.field \notin {"has_4gb_file", "wininst_index"}
    BY FactShape DEF BootField, OtherField
  <2>3. fact.value \in FieldType(fact.field)
    BY <1>1, FactValues
  <2>4. WithFact(r, fact) \in Report
    BY <2>1, <2>2, <2>3, FieldKeepsType
  <2> QED
    BY <2>1, <2>2, <2>4
<1>2. CASE fact.field \in Masks
  <2>1. fact.field \in BootField \cup OtherField /\ fact.field \notin {"has_4gb_file", "wininst_index"}
    BY FactShape DEF BootField, OtherField
  <2>2. r[fact.field] \cup {fact.value} \in FieldType(fact.field)
    BY <1>2, FactValues DEF Masks, FieldType, Report
  <2>3. WithFact(r, fact) = [r EXCEPT ![fact.field] = r[fact.field] \cup {fact.value}]
    <3>1. fact # Says("has_bootmgr_efi", TRUE)
      BY <1>2 DEF Says, Masks
    <3> QED
      BY <1>2, <3>1 DEF WithFact, Filled
  <2>4. WithFact(r, fact) \in Report
    BY <2>1, <2>2, <2>3, FieldKeepsType
  <2> QED
    BY <2>1, <2>3, <2>4
<1>3. CASE fact = Says("has_bootmgr_efi", TRUE)
  <2> DEFINE r1 == [r EXCEPT !["has_bootmgr_efi"] = TRUE]
  <2>1. WithFact(r, fact) = [r1 EXCEPT !["has_efi"] = r1["has_efi"] \cup {EFI_BOOTMGR}]
    BY <1>3 DEF WithFact, Filled, Masks
  <2>2. r1 \in Report
    BY FieldKeepsType DEF FieldType, BootField
  <2>3. r1["has_efi"] \cup {EFI_BOOTMGR} \in FieldType("has_efi")
    <3>1. FieldType("has_efi") = SUBSET (0 .. 15)
      BY DEF FieldType
    <3>2. r1["has_efi"] = r["has_efi"] /\ r["has_efi"] \in SUBSET (0 .. 15)
      BY DEF Report
    <3>3. EFI_BOOTMGR \in 0 .. 15
      BY DEF EFI_BOOTMGR
    <3> QED
      BY <3>1, <3>2, <3>3
  <2>4. WithFact(r, fact) \in Report
    <3> DEFINE efi == r1["has_efi"] \cup {EFI_BOOTMGR}
    <3>1. "has_efi" \in BootField \cup OtherField /\ efi \in FieldType("has_efi")
      BY <2>3 DEF BootField
    <3> HIDE DEF r1, efi
    <3>2. [r1 EXCEPT !["has_efi"] = efi] \in Report
      BY <2>2, <3>1, FieldKeepsType
    <3> QED
      BY <2>1, <3>2 DEF efi
  <2> QED
    BY <2>1, <2>4 DEF Report
<1> QED
  BY <1>1, <1>2, <1>3

-----------------------------------------------------------------------------
(* The invariant.                                                          *)

LEMMA InitInv == Init => Inv
<1> SUFFICES ASSUME Init PROVE Inv
  OBVIOUS
<1>1. Default \in Report
  BY DEF Default, Report, MAX_WININST
<1>2. TypeOK
  BY <1>1 DEF Init, TypeOK
<1>3. Packed(report.has_4gb_file, report.wininst_index, firstIsBig, otherBigFiles)
  <2>1. report.has_4gb_file = 0 /\ report.wininst_index = 0 /\ ~firstIsBig /\ otherBigFiles = 0
    BY DEF Init, Default
  <2> QED
    BY <2>1 DEF Packed
<1>4. ~is_supported(report)
  BY <1>1, SupportedByField DEF Init
<1>5. ~report.has_bootmgr_efi /\ EFI_BOOTMGR \notin report.has_efi
  BY DEF Init, Default
<1> QED
  BY <1>2, <1>3, <1>4, <1>5 DEF Init, Inv

LEMMA FindKeepsInv ==
  ASSUME Inv, NEW fact \in Fact, Find(fact)
  PROVE  Inv'
<1>1. report' = WithFact(report, fact) /\ found' = found \cup {fact}
      /\ UNCHANGED <<firstIsBig, otherBigFiles>>
  BY DEF Find
<1>2. report \in Report /\ found \in SUBSET Fact
  BY DEF Inv, TypeOK
<1>3. /\ report' \in Report
      /\ report'.has_4gb_file = report.has_4gb_file
      /\ report'.wininst_index = report.wininst_index
  BY <1>1, <1>2, FactKeepsType
<1>4. Changed(report, report', fact)
  BY <1>1, <1>2, FactEffect
<1>5. TypeOK'
  BY <1>1, <1>2, <1>3 DEF Inv, TypeOK
<1>6. is_supported(report') <=> found' \cap BootFact # {}
  BY <1>1, <1>2, <1>3, FactSupports DEF Inv
<1>7. report'.has_bootmgr_efi <=> EFI_BOOTMGR \in report'.has_efi
  <2>1. report.has_bootmgr_efi <=> EFI_BOOTMGR \in report.has_efi
    BY DEF Inv
  <2>2. CASE fact.field = "has_bootmgr_efi"
    BY <1>4, <2>2 DEF Changed
  <2>3. CASE fact.field # "has_bootmgr_efi"
    <3>1. report'["has_bootmgr_efi"] = report["has_bootmgr_efi"]
      BY <1>4, <2>3 DEF Changed, Default
    <3>2. EFI_BOOTMGR \in report'.has_efi <=> EFI_BOOTMGR \in report.has_efi
      BY <1>4, <2>3, FactShape DEF Changed
    <3> QED
      BY <2>1, <3>1, <3>2
  <2> QED
    BY <2>2, <2>3
<1> QED
  BY <1>1, <1>3, <1>5, <1>6, <1>7 DEF Inv

LEMMA BigFileKeepsInv ==
  ASSUME Inv, FindBigFile
  PROVE  Inv'
<1>1. report' = [report EXCEPT !.has_4gb_file = Counted(report.has_4gb_file)]
      /\ otherBigFiles' = otherBigFiles + 1 /\ UNCHANGED <<found, firstIsBig>>
  BY DEF FindBigFile
<1>2. /\ report \in Report /\ report.has_4gb_file \in 0 .. 255 /\ report.wininst_index \in 0 .. 4
      /\ firstIsBig \in BOOLEAN /\ otherBigFiles \in Nat
  BY DEF Inv, TypeOK, Report, MAX_WININST
<1>3. Counted(report.has_4gb_file) \in 0 .. 255
      /\ Packed(Counted(report.has_4gb_file), report.wininst_index, firstIsBig, otherBigFiles + 1)
  BY <1>2, PackFile DEF Inv
<1>4. report' \in Report
  BY <1>1, <1>2, <1>3 DEF Report
<1>5. \A f \in DOMAIN Default : f # "has_4gb_file" => report'[f] = report[f]
  BY <1>1, <1>2 DEF Default, Report
<1>6. Packed(report.has_4gb_file, report.wininst_index, firstIsBig, otherBigFiles)'
  BY <1>1, <1>2, <1>3 DEF Report
<1>7. is_supported(report') <=> is_supported(report)
  <2>1. \A f \in BootField : report'[f] = report[f]
    BY <1>5 DEF BootField, Default
  <2>2. is_supported(report) <=> \E f \in BootField : report[f] # Default[f]
    BY <1>2, SupportedByField
  <2>3. is_supported(report') <=> \E f \in BootField : report'[f] # Default[f]
    BY <1>4, SupportedByField
  <2> QED
    BY <2>1, <2>2, <2>3
<1>8. report'.has_bootmgr_efi = report.has_bootmgr_efi /\ report'.has_efi = report.has_efi
  BY <1>5 DEF Default
<1>9. TypeOK'
  BY <1>1, <1>2, <1>4 DEF Inv, TypeOK
<1> QED
  BY <1>1, <1>6, <1>7, <1>8, <1>9 DEF Inv

LEMMA InstallImageKeepsInv ==
  ASSUME Inv, NEW big \in BOOLEAN, FindInstallImage(big)
  PROVE  Inv'
<1> DEFINE i == report.wininst_index
           after == IF big THEN Counted(report.has_4gb_file) + Flag[i + 1] ELSE report.has_4gb_file
<1>1. /\ i \in 0 .. 3
      /\ report' = [report EXCEPT !.wininst_index = i + 1, !.has_4gb_file = after]
      /\ firstIsBig' = IF i = 0 THEN big ELSE firstIsBig
      /\ otherBigFiles' = IF big /\ i > 0 THEN otherBigFiles + 1 ELSE otherBigFiles
      /\ UNCHANGED found
  <2>1. report.wininst_index \in 0 .. 4
    BY DEF Inv, TypeOK, Report, MAX_WININST
  <2>2. i \in 0 .. 3
    BY <2>1 DEF FindInstallImage, MAX_WININST
  <2> QED
    BY <2>2 DEF FindInstallImage
<1>2. /\ report \in Report /\ report.has_4gb_file \in 0 .. 255
      /\ firstIsBig \in BOOLEAN /\ otherBigFiles \in Nat
      /\ Packed(report.has_4gb_file, i, firstIsBig, otherBigFiles)
  BY DEF Inv, TypeOK, Report
<1>3. i = 0 => ~firstIsBig
  BY <1>2 DEF Packed
<1>4. after \in 0 .. 255 /\ Packed(after, i + 1, firstIsBig', otherBigFiles')
  <2> DEFINE packed == report.has_4gb_file
  <2>1. /\ Packed(packed, i + 1, firstIsBig, otherBigFiles)
        /\ Counted(packed) + Flag[i + 1] \in 0 .. 255
        /\ i = 0 => Packed(Counted(packed) + Flag[i + 1], i + 1, TRUE, otherBigFiles)
        /\ i > 0 => Packed(Counted(packed) + Flag[i + 1], i + 1, firstIsBig, otherBigFiles + 1)
    <3> HIDE DEF i
    <3> QED
      BY <1>1, <1>2, <1>3, PackInstallImage
  <2>2. CASE ~big
    <3>1. after = packed /\ firstIsBig' = firstIsBig /\ otherBigFiles' = otherBigFiles
      BY <1>1, <1>2, <1>3, <2>2
    <3> QED
      BY <1>2, <2>1, <3>1
  <2>3. CASE big /\ i = 0
    <3>1. after = Counted(packed) + Flag[i + 1] /\ firstIsBig' = TRUE /\ otherBigFiles' = otherBigFiles
      BY <1>1, <2>3
    <3> QED
      BY <2>1, <2>3, <3>1
  <2>4. CASE big /\ i > 0
    <3>1. after = Counted(packed) + Flag[i + 1] /\ firstIsBig' = firstIsBig
          /\ otherBigFiles' = otherBigFiles + 1
      <4>1. i # 0 /\ (big /\ i > 0) = TRUE
        BY <1>1, <2>4
      <4> HIDE DEF i
      <4> QED
        BY <1>1, <2>4, <4>1
    <3> QED
      BY <2>1, <2>4, <3>1
  <2> QED
    BY <1>1, <2>2, <2>3, <2>4
<1> HIDE DEF after
<1>5. report' \in Report
  <2>1. i + 1 \in 0 .. MAX_WININST
    BY <1>1 DEF MAX_WININST
  <2> HIDE DEF i
  <2> QED
    <3>1. [report EXCEPT !.wininst_index = i + 1] \in Report
      BY <1>2, <2>1 DEF Report
    <3>2. report' = [[report EXCEPT !.wininst_index = i + 1] EXCEPT !.has_4gb_file = after]
      BY <1>1
    <3> QED
      BY <1>4, <3>1, <3>2, FieldOfByte
<1>6. \A f \in DOMAIN Default : f \notin {"has_4gb_file", "wininst_index"} => report'[f] = report[f]
  BY <1>1, <1>2 DEF Default, Report
<1>7. report'.has_4gb_file = after /\ report'.wininst_index = i + 1
  BY <1>1, <1>2 DEF Report
<1>8. is_supported(report') <=> is_supported(report)
  <2>1. \A f \in BootField : report'[f] = report[f]
    BY <1>6 DEF BootField, Default
  <2>2. is_supported(report) <=> \E f \in BootField : report[f] # Default[f]
    BY <1>2, SupportedByField
  <2>3. is_supported(report') <=> \E f \in BootField : report'[f] # Default[f]
    BY <1>5, SupportedByField
  <2> QED
    BY <2>1, <2>2, <2>3
<1>9. report'.has_bootmgr_efi = report.has_bootmgr_efi /\ report'.has_efi = report.has_efi
  BY <1>6 DEF Default
<1>10. TypeOK'
  BY <1>1, <1>2, <1>5 DEF Inv, TypeOK
<1> HIDE DEF i
<1> QED
  BY <1>1, <1>4, <1>7, <1>8, <1>9, <1>10 DEF Inv

LEMMA NextInv == Inv /\ [Next]_reportVars => Inv'
<1> SUFFICES ASSUME Inv, [Next]_reportVars PROVE Inv'
  OBVIOUS
<1>1. CASE \E fact \in Fact : Find(fact)
  BY <1>1, FindKeepsInv
<1>2. CASE FindBigFile
  BY <1>2, BigFileKeepsInv
<1>3. CASE \E big \in BOOLEAN : FindInstallImage(big)
  BY <1>3, InstallImageKeepsInv
<1>4. CASE UNCHANGED reportVars
  BY <1>4 DEF Inv, TypeOK, Packed, reportVars
<1> QED
  BY <1>1, <1>2, <1>3, <1>4 DEF Next

LEMMA InvAlways == Spec => []Inv
BY InitInv, NextInv, PTL DEF Spec

-----------------------------------------------------------------------------
(* The theorems.                                                           *)

\* What the invariant says of the byte when FAT32 is asked about.
LEMMA PackedMeaning ==
  Inv => /\ report.has_4gb_file = 0 <=> ~firstIsBig /\ otherBigFiles = 0
         /\ report.has_4gb_file = FOURGB_SPLITTABLE_ONLY <=> firstIsBig /\ otherBigFiles = 0
<1> HAVE Inv
<1>1. otherBigFiles \in Nat /\ firstIsBig \in BOOLEAN
  BY DEF Inv, TypeOK
<1>2. PICK lo \in 0 .. 15, hi \in 0 .. 15 :
        /\ report.has_4gb_file = lo + 16 * hi
        /\ lo = IF otherBigFiles + (IF firstIsBig THEN 1 ELSE 0) < 15
                  THEN otherBigFiles + (IF firstIsBig THEN 1 ELSE 0) ELSE 15
        /\ firstIsBig <=> hi % 2 = 1
        /\ hi >= 2 => otherBigFiles > 0
  BY DEF Inv, Packed
<1>3. report.has_4gb_file = 0 <=> lo = 0 /\ hi = 0
  BY <1>2
<1>4. report.has_4gb_file = FOURGB_SPLITTABLE_ONLY <=> lo = 1 /\ hi = 1
  BY <1>2 DEF FOURGB_SPLITTABLE_ONLY
<1>5. lo = 0 /\ hi = 0 <=> ~firstIsBig /\ otherBigFiles = 0
  BY <1>1, <1>2
<1>6. lo = 1 /\ hi = 1 <=> firstIsBig /\ otherBigFiles = 0
  BY <1>1, <1>2
<1> QED
  BY <1>3, <1>4, <1>5, <1>6

LEMMA SplitMeansFirst == Inv => (report.has_4gb_file = FOURGB_SPLITTABLE_ONLY => firstIsBig)
BY PackedMeaning

(***************************************************************************)
(* The report keeps its type however much is found: the counter saturates  *)
(* and each flag is set once.                                              *)
(***************************************************************************)
THEOREM ReportTypeCorrect == Spec => []TypeOK
BY InvAlways, PTL DEF Inv

\* FAT32 is chosen only when every file fits.
LEMMA InvFits == Inv => Fat32Fits
BY PackedMeaning DEF Inv, TypeOK, Fat32Fits, is_fat32_compat

\* And is ruled out for nothing else.
LEMMA InvOffered == Inv => Fat32Offered
BY PackedMeaning DEF Inv, TypeOK, Fat32Offered, is_fat32_compat

\* FAT32 is chosen only for an image that fits, for any number of large files.
THEOREM Fat32ChosenOnlyWhenItFits == Spec => []Fat32Fits
BY InvAlways, InvFits, PTL

\* FAT32 is ruled out for no image that fits, for any number of large files.
THEOREM Fat32ChosenWheneverItFits == Spec => []Fat32Offered
BY InvAlways, InvOffered, PTL

\* An image passes the last gate exactly when something on it can be booted.
THEOREM GateIsExact == Spec => []SupportedIfBootable
<1>1. Inv => SupportedIfBootable
  BY DEF Inv, SupportedIfBootable, is_dd_only, is_supported
<1> QED
  BY <1>1, InvAlways, PTL

\* The Windows predicates agree with each other.
THEOREM WindowsPredicatesAgree == Spec => []WindowsAgrees
<1>1. Inv => WindowsAgrees
  <2> SUFFICES ASSUME Inv PROVE WindowsAgrees
    OBVIOUS
  <2>1. /\ report.has_bootmgr_efi <=> EFI_BOOTMGR \in report.has_efi
        /\ report.win_version \in {0, 6, 10, 11}
    BY DEF Inv, TypeOK, Report
  <2>2. has_win7_efi(report) => has_wintogo(report) /\ ~has_regular_efi(report)
    <3>1. EFI_BOOTMGR \notin EFI_REGULAR_MASK
      BY DEF EFI_BOOTMGR, EFI_REGULAR_MASK
    <3> QED
      BY <2>1, <3>1 DEF has_win7_efi, has_wintogo, has_bootmgr, is_efi_bootable, has_regular_efi
  <2>3. is_windows_11(report) => is_windows_1x(report)
    BY <2>1 DEF is_windows_11, is_windows_1x
  <2>4. is_windows_1x(report) => has_windows(report) /\ is_efi_bootable(report)
    BY <2>1 DEF is_windows_1x, has_windows, has_bootmgr, is_efi_bootable
  <2>5. has_windows(report) => ~has_persistence(report)
    BY DEF has_persistence
  <2>6. has_wintogo(report) => is_bios_bootable(report) /\ is_supported(report)
    BY DEF has_wintogo, is_bios_bootable, is_supported
  <2> QED
    BY <2>2, <2>3, <2>4, <2>5, <2>6 DEF WindowsAgrees
<1> QED
  BY <1>1, InvAlways, PTL

\* Every step keeps what has been filled in, and what has been counted.
LEMMA StepKeeps ==
  ASSUME Inv, [Next]_reportVars
  PROVE  /\ report.needs_ntfs => report'.needs_ntfs
         /\ otherBigFiles' = 0 => otherBigFiles = 0
         /\ firstIsBig => firstIsBig'
         /\ has_syslinux(report) \/ has_grub(report) => has_syslinux(report') \/ has_grub(report')
<1>1. /\ report \in Report /\ otherBigFiles \in Nat /\ firstIsBig \in BOOLEAN
      /\ report.has_grub4dos \in BOOLEAN /\ report.needs_ntfs \in BOOLEAN
  BY DEF Inv, TypeOK, Report
<1>2. ASSUME NEW fact \in Fact, Find(fact)
      PROVE  /\ UNCHANGED <<firstIsBig, otherBigFiles>>
             /\ \A f \in {"needs_ntfs", "sl_version", "has_grub2", "has_grub4dos"} :
                  report[f] # Default[f] => report'[f] # Default[f]
  <2>1. Changed(report, report', fact)
    BY <1>1, <1>2, FactEffect DEF Find
  <2> QED
    BY <1>2, <2>1 DEF Changed, Default, Find
<1>3. ASSUME FindBigFile \/ (\E big \in BOOLEAN : FindInstallImage(big)) \/ UNCHANGED reportVars
      PROVE  /\ \A f \in {"needs_ntfs", "sl_version", "has_grub2", "has_grub4dos"} : report'[f] = report[f]
             /\ otherBigFiles' >= otherBigFiles
  <2>1. CASE FindBigFile
    <3>1. \A f \in {"needs_ntfs", "sl_version", "has_grub2", "has_grub4dos"} : report'[f] = report[f]
      BY <1>1, <2>1 DEF FindBigFile, Report
    <3>2. otherBigFiles' = otherBigFiles + 1
      BY <2>1 DEF FindBigFile
    <3> QED
      BY <1>1, <3>1, <3>2
  <2>2. CASE \E big \in BOOLEAN : FindInstallImage(big)
    <3>1. \A f \in {"needs_ntfs", "sl_version", "has_grub2", "has_grub4dos"} : report'[f] = report[f]
      BY <1>1, <2>2 DEF FindInstallImage, Report
    <3>2. otherBigFiles' = otherBigFiles + 1 \/ otherBigFiles' = otherBigFiles
      BY <2>2 DEF FindInstallImage
    <3> QED
      BY <1>1, <3>1, <3>2
  <2>3. CASE UNCHANGED reportVars
    BY <1>1, <2>3 DEF reportVars
  <2> QED
    BY <1>3, <2>1, <2>2, <2>3
<1>4. ASSUME FindBigFile \/ (\E big \in BOOLEAN : FindInstallImage(big)) \/ UNCHANGED reportVars
      PROVE  firstIsBig => firstIsBig'
  <2>1. report.wininst_index = 0 => ~firstIsBig
    BY DEF Inv, Packed
  <2> QED
    BY <1>4, <2>1 DEF FindBigFile, FindInstallImage, reportVars
<1>5. \A r \in {report, report'} : has_syslinux(r) \/ has_grub(r) <=>
         r["sl_version"] # 0 \/ r["has_grub2"] # {} \/ r["has_grub4dos"]
  BY DEF has_syslinux, has_grub
<1>8. report'.needs_ntfs \in BOOLEAN /\ report'.has_grub4dos \in BOOLEAN
  <2>1. Inv'
    BY NextInv
  <2> QED
    BY <2>1 DEF Inv, TypeOK, Report
<1>6. CASE \E fact \in Fact : Find(fact)
  <2> DEFINE Kept(f) == report[f] # Default[f] => report'[f] # Default[f]
  <2>1. /\ UNCHANGED <<firstIsBig, otherBigFiles>>
        /\ Kept("needs_ntfs") /\ Kept("sl_version") /\ Kept("has_grub2") /\ Kept("has_grub4dos")
    BY <1>2, <1>6
  <2>2. /\ report["needs_ntfs"] => report'["needs_ntfs"]
        /\ report["has_grub4dos"] => report'["has_grub4dos"]
    BY <1>1, <1>8, <2>1, Defaults
  <2>3. /\ report["sl_version"] # 0 => report'["sl_version"] # 0
        /\ report["has_grub2"] # {} => report'["has_grub2"] # {}
    BY <2>1, Defaults
  <2> QED
    BY <1>5, <2>1, <2>2, <2>3
<1>7. CASE FindBigFile \/ (\E big \in BOOLEAN : FindInstallImage(big)) \/ UNCHANGED reportVars
  BY <1>1, <1>3, <1>4, <1>5, <1>7
<1> QED
  BY <1>6, <1>7 DEF Next

(***************************************************************************)
(* Once FAT32 is ruled out it stays so, but for a GRUB that waits for its  *)
(* FAT driver or is forgotten when the install image is split.             *)
(***************************************************************************)
THEOREM Fat32RuledOutForGood == Spec => Fat32StaysOut
<1> DEFINE Step == \A dual \in BOOLEAN :
       ~is_fat32_compat(report, dual) /\ is_fat32_compat(report', dual) =>
         /\ has_fatless_grub(report) /\ ~report.needs_ntfs /\ otherBigFiles' = 0
         /\ has_fatless_grub(report') => ~firstIsBig /\ firstIsBig' /\ dual
<1>1. ASSUME Inv, Inv', [Next]_reportVars PROVE Step
  <2> SUFFICES ASSUME NEW dual \in BOOLEAN,
                      ~is_fat32_compat(report, dual), is_fat32_compat(report', dual)
               PROVE  /\ has_fatless_grub(report) /\ ~report.needs_ntfs /\ otherBigFiles' = 0
                      /\ has_fatless_grub(report') => ~firstIsBig /\ firstIsBig' /\ dual
    OBVIOUS
  <2>1. otherBigFiles' = 0 /\ (firstIsBig' => dual) /\ ~report'.needs_ntfs
    <3>1. Fat32Fits'
      BY <1>1, InvFits, PTL
    <3> QED
      BY <3>1 DEF Fat32Fits
  <2>2. otherBigFiles = 0 /\ (firstIsBig => dual) /\ ~report.needs_ntfs
    BY <1>1, <2>1, StepKeeps
  <2>3. has_fatless_grub(report)
    BY <1>1, <2>2, InvOffered DEF Fat32Offered
  <2>4. ASSUME has_fatless_grub(report') PROVE ~firstIsBig /\ firstIsBig' /\ dual
    <3>1. report'.has_4gb_file = FOURGB_SPLITTABLE_ONLY /\ dual
      BY <2>4 DEF is_fat32_compat
    <3>2. firstIsBig'
      <4>1. (report.has_4gb_file = FOURGB_SPLITTABLE_ONLY => firstIsBig)'
        BY <1>1, SplitMeansFirst, PTL
      <4> QED
        BY <3>1, <4>1 DEF FOURGB_SPLITTABLE_ONLY
    <3>3. ~firstIsBig
      <4>1. firstIsBig => report.has_4gb_file = FOURGB_SPLITTABLE_ONLY
        BY <1>1, <2>2, PackedMeaning
      <4> QED
        BY <2>2, <3>1, <4>1 DEF is_fat32_compat
    <3> QED
      BY <3>1, <3>2, <3>3
  <2> QED
    BY <2>1, <2>2, <2>3, <2>4
<1>2. Inv /\ Inv' /\ [Next]_reportVars => [Step]_reportVars
  BY <1>1
<1> QED
  BY <1>2, InvAlways, PTL DEF Spec, Fat32StaysOut

\* Persistence is taken back only for another operating system.
THEOREM PersistenceKept == Spec => PersistenceOnlyLostToSystems
<1>1. ASSUME Inv, [Next]_reportVars
      PROVE  has_persistence(report) /\ ~has_persistence(report') =>
               AnotherSystem(report') /\ ~AnotherSystem(report)
  BY <1>1, StepKeeps DEF has_persistence, AnotherSystem
<1> QED
  BY <1>1, InvAlways, PTL DEF Spec, PersistenceOnlyLostToSystems
=============================================================================
