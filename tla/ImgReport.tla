------------------------------ MODULE ImgReport ------------------------------
(***************************************************************************)
(* The image report of core/src/detect/img_report.rs: the facts a scanner  *)
(* finds while it walks an image, and the predicates from which the file   *)
(* system and the boot method of the target are decided.                   *)
(*                                                                         *)
(* The scanner is not in the repository yet.  It is modelled by what the   *)
(* fields of ImgReport are documented to hold: it finds facts in any       *)
(* order, and each fills in one field.  A bit mask is the set of its bits; *)
(* has_4gb_file is kept as the byte it is.                                 *)
(***************************************************************************)
EXTENDS Integers, FiniteSets

CONSTANTS
  MaxFacts,   \* bound: facts found in one image
  MaxFiles    \* bound: files of 4 GiB or more in one image

ASSUME BoundsAssumption == MaxFacts \in Nat /\ MaxFiles \in Nat

\* A bug: a fifth install image, for whose flag the byte has no room.
MAX_WININST_Five == 5

MAX_WININST == 4

EFI_BOOTMGR == 0
EFI_REGULAR_MASK == 1 .. 14
EFI_IMG_ONLY == 15
GRUB2_EFI == 7
GRUB2_FS_FAT == 0
WinPE == {0, 1, 2}   \* WINPE_I386, WINPE_AMD64, WINPE_MININT

\* A bug: the flag of the install image without the count.
FOURGB_SPLITTABLE_ONLY_Flag == 16

FOURGB_SPLITTABLE_ONLY == 17   \* 0x11

VARIABLES
  report,     \* the ImgReport
  \* History: the facts found, and the oversized files by whether they are entry 0.
  found, firstIsBig, otherBigFiles

reportVars == <<report, found, firstIsBig, otherBigFiles>>

Default ==
  [is_iso |-> FALSE, is_dd_bootable |-> "No", disable_iso |-> FALSE,
   has_bootmgr |-> FALSE, has_bootmgr_efi |-> FALSE,
   wininst_index |-> 0, win_version |-> 0, winpe |-> {}, uses_minint |-> FALSE,
   has_efi |-> {}, has_grub2 |-> {}, has_grub2_fs |-> {}, has_grub4dos |-> FALSE,
   sl_version |-> 0, has_kolibrios |-> FALSE, reactos_path |-> "",
   has_4gb_file |-> 0, needs_ntfs |-> FALSE]

-----------------------------------------------------------------------------
(* The predicates.                                                         *)

has_reactos(r) == r.reactos_path # ""
has_grub(r) == r.has_grub2 # {} \/ r.has_grub4dos
has_syslinux(r) == r.sl_version # 0

\* A bug: UEFI-only media are not taken for Windows.
has_bootmgr_BiosOnly(r) == r.has_bootmgr

has_bootmgr(r) == r.has_bootmgr \/ r.has_bootmgr_efi
has_regular_efi(r) == r.has_efi \cap EFI_REGULAR_MASK # {}
has_wininst(r) == r.wininst_index # 0
has_winpe(r) == r.winpe \cap WinPE # {}
has_windows(r) == has_bootmgr(r) \/ r.uses_minint \/ has_winpe(r)
has_win7_efi(r) == r.has_efi = {EFI_BOOTMGR} /\ has_wininst(r)
has_fatless_grub(r) == GRUB2_EFI \in r.has_grub2 /\ GRUB2_FS_FAT \notin r.has_grub2_fs
is_windows_1x(r) == r.has_bootmgr_efi /\ r.win_version >= 10
is_windows_11(r) == r.has_bootmgr_efi /\ r.win_version >= 11
is_efi_bootable(r) == r.has_efi # {}

\* A bug: the smaller operating systems are forgotten.
is_bios_bootable_NoFamily(r) == has_bootmgr(r) \/ has_syslinux(r) \/ has_winpe(r) \/ has_grub(r)

is_bios_bootable(r) ==
  has_bootmgr(r) \/ has_syslinux(r) \/ has_winpe(r) \/ has_grub(r) \/ has_reactos(r) \/ r.has_kolibrios

is_dd_bootable(r) == r.is_dd_bootable \in {"Yes", "Forced"}
is_dd_only(r) == is_dd_bootable(r) /\ (~r.is_iso \/ r.disable_iso)
has_wintogo(r) == has_bootmgr(r) /\ is_efi_bootable(r) /\ has_wininst(r)

\* A bug: the two loaders of a live medium exclude each other.
has_persistence_OneLoader(r) ==
  has_syslinux(r) # has_grub(r) /\ ~(has_windows(r) \/ has_reactos(r) \/ r.has_kolibrios)

has_persistence(r) ==
  (has_syslinux(r) \/ has_grub(r)) /\ ~(has_windows(r) \/ has_reactos(r) \/ r.has_kolibrios)

\* A bug: the packed byte is tested as a mask.
is_fat32_compat_Mask(r, allow_dual_uefi_bios) ==
  LET clean == r.has_4gb_file = 0 /\ ~has_fatless_grub(r)
      splittable ==
        r.has_4gb_file % 2 = 1 /\ (r.has_4gb_file \div 16) % 2 = 1 /\ allow_dual_uefi_bios
  IN  (clean \/ splittable) /\ ~r.needs_ntfs

is_fat32_compat(r, allow_dual_uefi_bios) ==
  LET clean == r.has_4gb_file = 0 /\ ~has_fatless_grub(r)
      splittable == r.has_4gb_file = FOURGB_SPLITTABLE_ONLY /\ allow_dual_uefi_bios
  IN  (clean \/ splittable) /\ ~r.needs_ntfs

is_supported(r) == is_dd_bootable(r) \/ is_bios_bootable(r) \/ is_efi_bootable(r)

-----------------------------------------------------------------------------
(* The scanner.                                                            *)

Masks == {"has_efi", "winpe", "has_grub2", "has_grub2_fs"}

\* What a walk may find, apart from large files and install images.
Says(field, value) == [field |-> field, value |-> value]

BootFact ==
  {Says("has_bootmgr", TRUE), Says("has_bootmgr_efi", TRUE), Says("sl_version", 6),
   Says("has_grub4dos", TRUE), Says("has_kolibrios", TRUE), Says("reactos_path", "found")}
  \cup {Says("is_dd_bootable", b) : b \in {"Yes", "Forced"}}
  \cup {Says("winpe", b) : b \in WinPE}
  \cup {Says("has_efi", b) : b \in {1, 14, EFI_IMG_ONLY}}
  \cup {Says("has_grub2", b) : b \in {0, 1, GRUB2_EFI}}
OtherFact ==
  {Says("is_iso", TRUE), Says("disable_iso", TRUE), Says("uses_minint", TRUE), Says("needs_ntfs", TRUE)}
  \cup {Says("has_grub2_fs", b) : b \in {GRUB2_FS_FAT, 1, 2}}
  \cup {Says("win_version", v) : v \in {6, 10, 11}}
Fact == BootFact \cup OtherFact

Filled(r, field, value) ==
  IF field \in Masks THEN [r EXCEPT ![field] = @ \cup {value}] ELSE [r EXCEPT ![field] = value]

\* bootmgr.efi is the boot manager of a UEFI medium, and bit 0 of has_efi.
WithFact(r, fact) ==
  IF fact = Says("has_bootmgr_efi", TRUE)
    THEN Filled(Filled(r, "has_bootmgr_efi", TRUE), "has_efi", EFI_BOOTMGR)
    ELSE Filled(r, fact.field, fact.value)

\* Bit 15 is for media without any other EFI loader; a marker and a version are found once.
Findable(fact) ==
  /\ fact.field \in {"is_dd_bootable", "win_version"} => report[fact.field] = Default[fact.field]
  /\ fact = Says("has_efi", EFI_IMG_ONLY) => report.has_efi = {}
  /\ fact.field \in {"has_efi", "has_bootmgr_efi"} => EFI_IMG_ONLY \notin report.has_efi

Find(fact) ==
  /\ fact \notin found /\ Cardinality(found) < MaxFacts
  /\ Findable(fact)
  /\ report' = WithFact(report, fact)
  /\ found' = found \cup {fact}
  /\ UNCHANGED <<firstIsBig, otherBigFiles>>

\* The low nibble counts the files of 4 GiB or more, up to 15.
Counted(packed) == IF packed % 16 < 15 THEN packed + 1 ELSE packed

BigFiles == otherBigFiles + (IF firstIsBig THEN 1 ELSE 0)

FindBigFile ==
  /\ BigFiles < MaxFiles
  /\ report' = [report EXCEPT !.has_4gb_file = Counted(@)]
  /\ otherBigFiles' = otherBigFiles + 1
  /\ UNCHANGED <<found, firstIsBig>>

\* 0x10 << i, of which the fifth is more than a byte.
Flag == <<16, 32, 64, 128, 256>>

\* The next entry of wininst_path; further install images are files like any other.
FindInstallImage(big) ==
  LET i == report.wininst_index
  IN  /\ i < MAX_WININST
      /\ big => BigFiles < MaxFiles
      /\ report' = [report EXCEPT
           !.wininst_index = i + 1,
           !.has_4gb_file = IF big THEN Counted(@) + Flag[i + 1] ELSE @]
      /\ firstIsBig' = IF i = 0 THEN big ELSE firstIsBig
      /\ otherBigFiles' = IF big /\ i > 0 THEN otherBigFiles + 1 ELSE otherBigFiles
      /\ UNCHANGED found

Init == report = Default /\ found = {} /\ firstIsBig = FALSE /\ otherBigFiles = 0

Next ==
  \/ \E fact \in Fact : Find(fact)
  \/ FindBigFile
  \/ \E big \in BOOLEAN : FindInstallImage(big)

Spec == Init /\ [][Next]_reportVars

-----------------------------------------------------------------------------
(* Properties.                                                             *)

Report ==
  [is_iso : BOOLEAN, is_dd_bootable : {"No", "Yes", "Forced"}, disable_iso : BOOLEAN,
   has_bootmgr : BOOLEAN, has_bootmgr_efi : BOOLEAN,
   wininst_index : 0 .. MAX_WININST, win_version : {0, 6, 10, 11}, winpe : SUBSET WinPE,
   uses_minint : BOOLEAN, has_efi : SUBSET (0 .. 15), has_grub2 : SUBSET (0 .. 7),
   has_grub2_fs : SUBSET (0 .. 7), has_grub4dos : BOOLEAN, sl_version : {0, 6},
   has_kolibrios : BOOLEAN, reactos_path : {"", "found"},
   has_4gb_file : 0 .. 255, needs_ntfs : BOOLEAN]

(***************************************************************************)
(* Every field has its type: the counter and a flag for each install image *)
(* that is tracked fit in one byte (img_report.rs:13).                     *)
(***************************************************************************)
TypeOK ==
  /\ report \in Report
  /\ found \subseteq Fact
  /\ firstIsBig \in BOOLEAN /\ otherBigFiles \in Nat

(***************************************************************************)
(* FAT32 is chosen only for an image whose files all fit: none is of 4 GiB *)
(* or more, or the only one that is is the install image the split can     *)
(* take apart, and the split was allowed.  The decision is made on one     *)
(* byte in which a saturating counter and four flags are packed.           *)
(***************************************************************************)
Fat32Fits ==
  \A dual \in BOOLEAN : is_fat32_compat(report, dual) =>
    /\ otherBigFiles = 0
    /\ firstIsBig => dual
    /\ ~report.needs_ntfs

\* And the other way round: the packing rules FAT32 out for no medium that would fit.
Fat32Offered ==
  \A dual \in BOOLEAN :
    otherBigFiles = 0 /\ (firstIsBig => dual) /\ ~report.needs_ntfs /\ ~has_fatless_grub(report) =>
      is_fat32_compat(report, dual)

(***************************************************************************)
(* A target chosen against FAT32 stays the right one when more is found,   *)
(* with one exception: an EFI GRUB without a FAT driver vetoes FAT32 only  *)
(* until the driver turns up, or the install image has to be split, a      *)
(* medium the code takes for one without a GRUB (img_report.rs:287).       *)
(***************************************************************************)
Fat32StaysOut ==
  [][\A dual \in BOOLEAN :
       ~is_fat32_compat(report, dual) /\ is_fat32_compat(report', dual) =>
         /\ has_fatless_grub(report) /\ ~report.needs_ntfs /\ otherBigFiles' = 0
         /\ has_fatless_grub(report') => ~firstIsBig /\ firstIsBig' /\ dual]_reportVars

(***************************************************************************)
(* The final gate: an image is supported exactly when something on it can  *)
(* be booted, whatever else was found and in which order.  A version or a  *)
(* file system driver alone is nothing to boot, and an image that is left  *)
(* to raw mode alone passes the gate.                                      *)
(***************************************************************************)
SupportedIfBootable ==
  /\ is_supported(report) <=> found \cap BootFact # {}
  /\ is_dd_only(report) => is_supported(report)

(***************************************************************************)
(* Persistence is offered to live media only, and once offered it is taken *)
(* back for one reason: another operating system turned up.                *)
(***************************************************************************)
AnotherSystem(r) == has_windows(r) \/ has_reactos(r) \/ r.has_kolibrios

PersistenceOnlyLostToSystems ==
  [][has_persistence(report) /\ ~has_persistence(report') =>
       AnotherSystem(report') /\ ~AnotherSystem(report)]_reportVars

(***************************************************************************)
(* The Windows predicates agree, although each tests fields of its own:    *)
(* a Windows 11 medium is a Windows 10 one, is Windows, and has no         *)
(* persistence; one whose UEFI loader must be taken from the install image *)
(* has no other loader, and can become a Windows To Go drive.              *)
(***************************************************************************)
WindowsAgrees ==
  /\ is_windows_11(report) => is_windows_1x(report)
  /\ is_windows_1x(report) => has_windows(report) /\ is_efi_bootable(report)
  /\ has_windows(report) => ~has_persistence(report)
  /\ has_win7_efi(report) => has_wintogo(report) /\ ~has_regular_efi(report)
  /\ has_wintogo(report) => is_bios_bootable(report) /\ is_supported(report)
=============================================================================
