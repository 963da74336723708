# Osedax in TLA+

Osedax is a USB flashing tool written in Rust.  What exists of it today is the part that must be right before a byte is
written: it lists the disks of a Linux machine, judges whether a write to one of them may go ahead, and judges what an
image is.  This directory holds a formal model of that part, the TLC runs that check it, and TLAPS proofs about it.

Line numbers below refer to files under `core/src/` unless a path says otherwise.

## 1. The system

| Component | Code | State | Operations |
| --- | --- | --- | --- |
| Linux enumeration | `device/enumerate/linux.rs`, `device/enumerate/mod.rs`, `device/mod.rs` | none between calls; within one: the mount table read first, an open directory stream, the locals of `build_device`, the `Vec<Device>` | `enumerate()`, `build_device`, `read_mounts`, `mounts_for`, `is_partition_of`, `is_pseudo_device`, `detect_usb`, `detect_virtual`, `unescape_mount` |
| Write guard | `device/safety.rs`, `device/mod.rs` | none; reads the file system through `canonicalize` | `check_write_allowed`, `is_source_drive`, `is_safe_default_target` |
| Signature probes | `detect/magic.rs` | none | a dozen tests of a window of bytes, each of which answers *no* when the window was not read |
| Decision tree | `detect/tree.rs`, `detect/mod.rs` | none | `classify`, `classify_hybrid`, `bsd_warning`, `guess_bsd_flavor`, `inspect`, `is_dd_writable`, `is_streamable` |
| Image report | `detect/img_report.rs` | the fields of `ImgReport` | pure predicates over a report that nothing in the repository fills yet |
| Command line | `cli/src/main.rs` | the lines printed so far, the locals of `list_devices` and `human_size` | `list`, `--version`, `human_size` |
| Graphical front end | `gui/src/main.rs` | none | prints one line |
| Write pipeline, helper process, Windows and BSD enumeration | documentation only (`docs/porting/`) | | not implemented |

**How they interact.**  A front end calls `enumerate()`, shows the Devices, and later hands one of them, an image path and
a size to `check_write_allowed`.  Nothing is held in between: a Device is a copy of what sysfs said, its mount points a
copy of what `/proc/mounts` said before that.  Separately it reads the head of the image and asks `inspect`; when the
answer is a compression wrapper it unwraps it and asks again; an optical-only ISO is warned about, and the name of the file
picks the wording.  The command line is the one front end that exists: it prints the listing and marks the default targets.
The image report will take its place between a scan of the image and the choice of file system; today only its predicates
exist.

**What is hard.**  No thread, lock or message is involved on Osedax's side, and yet nothing it does is atomic.  A Device is
put together from about ten reads of files *by path*, in a directory that the kernel changes at will: a stick is pulled
and another one takes its name; a partition table is re-read and the partitions vanish and come back; a card reader
changes its medium in place; file systems are mounted.  A missing file is not an error but a default, so a disk that is
gone for one read is described differently instead of failing.  The guard then judges that copy.  On the detection side
the tree accepts *any* prefix of an image, and a short prefix is a different question, not an error.

The places where this bites are listed, each at its line, as `hazards` in `PROJECT.json`.

### What makes each component correct

* *Enumeration*: a disk that stays is listed; what is listed was there; no partition or pseudo-device is listed; every
  field of a Device is that of its own node; each mount is attributed to the disk that carries it; the call returns.
* *Guard*: an accepted write would not destroy the image it reads, fits, and spares a system disk unless forced; a refusal
  is the most serious one that applies; `force` buys exactly one thing.
* *Detection*: an answer given on a prefix is not taken back in a way that would have changed what the user was allowed;
  a known length of head settles the answer; an optical-only image is warned about and a writable one is not; the warning
  names the right system, for any file name.
* *Image report*: FAT32 is chosen if and only if the files fit, whatever was found in which order; what is later found
  does not silently overturn a decision; predicates that test different fields do not contradict one another.
* *Command line*: the screen tells the listing and nothing else; the mark of a default target is harmless; sizes are right
  to a tenth and in order; the process ends.

## 2. The modules

```
   DiskNames      BlockLayer (the kernel)                  MagicProbes
        \          /                                            |
       SysfsEnumerate  --implements-->  DiskCensus           DetectTree
        /     |     \                                        /       \
 FlashSession |   ListCommand                    ImageInspector     BsdNames
        \     |     /
         WriteGuard (used by both)          MountTable          ImgReport
```

Each module `M` that is proved about has its proofs in `M_proofs`; the refinement of `DiskCensus` is in
`SysfsEnumerate_proofs`.  `Descent` models no code: it has the order of tuples of numbers in which the termination
properties of `ListCommand` and `BsdNames` are stated, and `Descent_proofs` that this order is well-founded.

**`DiskNames`** holds the string rules of `linux.rs`: `is_pseudo_device`, `is_partition_of`, the `usbN` segment test of
`detect_usb`.  TLC evaluates them on real names, character by character, because that is what they are about
(`nvme0n1` against `nvme0n11`).

**`BlockLayer`** is external: the kernel.  `sysfs[n]` is the directory `/sys/class/block/n` as a function from the
attribute files it has to their contents; a node that is not there has the empty function `Gone`, so "exists" is
membership in a domain and every read of a missing node falls into the code's default.  `Attach`, `Detach`, `Alter`
(write protection or medium changed in place), `Mount` and `Unmount` are its events.  The named assumptions state what
the sysfs ABI promises: `size` is there and numeric, exactly partitions carry a `partition` file.

**`SysfsEnumerate`** is `enumerate()`, one action per read:

| Action | Code |
| --- | --- |
| `ReadMounts` | `linux.rs:20`, `read_mounts` |
| `OpenDir`, `NextEntry`, `ReadDirFails` | `read_dir`, the `for`, and both `?` (`linux.rs:23-25`) |
| `CheckWhole` | `is_whole_disk`, and `is_pseudo_device`, which reads nothing (`linux.rs:27-32`) |
| `ReadSize`, `ReadLogicalBlockSize`, `ReadPhysicalBlockSize`, `ReadRemovable`, `ReadReadOnly`, `ReadModel`, `DetectUsb` | the reads of `build_device`, in its order |
| `DetectVirtualAndPush` | `detect_virtual`, the rest of `build_device`, and `push` |
| `EndOfDir` | the end of the loop, `sort_by`, `Ok` |

The variables `draft` (the locals), `cur` (`name`), `devices`, `listing` (the returned `Vec`) and `mounts` are the code's;
`dirSeen`, `dirKept` and `yielded` are the state of the directory stream under the POSIX contract of `readdir` (an entry
that was there throughout is returned exactly once, one that came or went may or may not be); `quiet` is a history
variable, the nodes the kernel has not touched since the build of their Device began.  `Kernel` may act between any two
reads.

**`DiskCensus`** is what a caller may rely on, without a word about sysfs: a census over an interval.  `SysfsEnumerate`
implements it under the mapping in `Census`, with the directory stream as the interval and the paths of the returned
`Vec` as the answer.

**`MountTable`** follows one mount point from the kernel, which prints it into a line of `/proc/mounts` (`PrintChar`, `Printed`:
external, `seq_path` with the characters it escapes), through `split_whitespace` (`Column`) and `unescape_mount` (`Decode`,
`Copy`, `Return`: the branches of its loop), `parse_octal_byte` being `parses_as_octal` and `OctalValue`.  `at` is a history
variable: where in the line each character of the path begins.  `SysfsEnumerate` takes the rows of the table as decoded.

**`WriteGuard`** is `safety.rs`, with paths as sequences of components and `canonicalize` as a partial function.
**`FlashSession`** composes it with `SysfsEnumerate`: one caller that enumerates, asks the guard about a listed device,
and dismisses the verdict, while the kernel goes on.  The truth a verdict is held against is read from the kernel, not
from the Device: `HostMounts` is the innermost mount above the canonical path of the image.  `past` is a history variable:
the directories each node has had since the last call of `enumerate()` began.

**`MagicProbes`**, **`DetectTree`** are `magic.rs` and `tree.rs`.  An image is the record of what its windows hold; a head
is an image and the number of bytes read of it; every probe keeps its offset and its length test.  **`ImageInspector`** is
the caller the documentation of `tree.rs` asks for: it reads on from length to length, inspects each time, and unwraps a
streamable wrapper.

**`BsdNames`** is `guess_bsd_flavor` on the bytes of a name, with `has_openbsd_iso_name` one round of its loop at a time
(`Find`: a token was found, `NextToken`: `find` returned `None`); `from` is the slice index of the code.  `DetectTree` takes
a name as the set of vendor words in it; `FlavorIsRight` says that the loop finds exactly that set, which ties the two.

**`ImgReport`** is the struct and its predicates.  The scanner that will fill it is external: it finds facts in any order
(`Find`), large files (`FindBigFile`) and install images (`FindInstallImage`), each of which does to the report what the
comment on its field says.  Masks are sets of bits, except `has_4gb_file`, which is the packed byte it is.

**`ListCommand`** composes the process of `cli/src/main.rs` with `SysfsEnumerate`: it dispatches, enumerates, and prints
line by line (`PrintDisk`, `PrintMount`, `NextDisk`), with `human_size` one division at a time (`Divide`), while the kernel
goes on.  It may end by an I/O error, or by the panic of `println!` when the reader of a pipe has gone (`PrintFails`).

Operators whose comment begins with "A bug" are plausible mistakes; no behaviour of the model uses them.  They are what
each property was tried against: with the operator put in the place of the right one, TLC reports the property violated.

## 3. What the runs check

| Run | Configuration | Shows |
| --- | --- | --- |
| `enumerate_safety` | `MCSysfsEnumerate.cfg` | `TypeOK`; `Faithful`: a Device of an undisturbed node is that node's description in every field, whatever happened to others; `ScanComplete`: no disk is lost because another one was skipped, vanished or failed; `ImplementsCensus` |
| `mount_round_trip` | `MCMountTable.cfg` | `NeverOutOfStep`: the decoder never takes a character of a name for part of an escape, or the reverse; `RoundTrip`: a mount point comes back whole if its only blanks are those the kernel escapes |
| `guard_session` | `MCFlashSession.cfg` | `OkIsSound`: what an `Ok` means of the live machine; `SourceNeverMasked`: an image on the target is never reported as something milder; `RefusalHasGrounds`: what a refusal says is true, so that a sibling of a mount point, a disk whose name begins alike, or the root mount refuses nobody; `VerdictWasTrue`: what a verdict is worth about a disk that changed; `ForceBuysSystemOnly`: `force` and smaller images are monotone |
| `list_command` | `MCListCommand.cfg` | `ScreenTellsListing`: the lines are the listing's disks in order, each with its own mounts, however the process ends; `DefaultIsHarmless`: what the mark is worth; `SizeAccurate`, `SizesInOrder`: rounding; `EveryStepCounts`: every step leaves less to do and no kernel event adds to it; `CallReturns`, `ListEnds`: the call and the process end |
| `bsd_names` | `MCBsdNames.cfg` | `AtCharBoundary`: no slice inside a character; `FlavorIsRight`: the loop that jumps from token to token misses none; `EveryRoundCounts`: each round leaves less to search; `NameIsDecided`: it ends |
| `img_report` | `MCImgReport.cfg` | `Fat32Fits`, `Fat32Offered`: the packed byte decides rightly in both directions; `Fat32StaysOut`, `PersistenceOnlyLostToSystems`: what later facts may overturn; `SupportedIfBootable`, `WindowsAgrees`: the predicates against what was found and against one another |
| `inspect_prefixes` | `MCImageInspector.cfg` | `KindsOnlyRise`, `PermissionIsKept`, `HybridIsFinal`: what reading on may change; `SettledAtDetectionHead`: 64 KiB settle the verdict; `WarnedOrWritable` |

Five more runs hold the code against a sentence of its own documentation, and TLC finds each of them violated; section 6
tells what they show.

A verdict is about a copy, and the copy may be stale.  The properties of `guard_session` say what is left of it then.  What
they say of mounts needs no quiet: whatever happened since, to the disk or to other mounts, a file system that was mounted
when the call read the table, and still is, is protected (a table that cannot be read protects nothing, see `doc_mount_names`).  What they say of the disk itself has two halves: of a disk without
an event since its build began it is true now (`OkIsSound`, `RefusalHasGrounds`); of any other, it was true at some time since
the call began and is never older than that (`VerdictWasTrue`).  More cannot be had: the code looks once, and a disk that is
locked or swapped, or a file system that is mounted, after its look is not seen before the next call.

`EveryStepCounts` says more than `ListEnds` does on a bounded machine.  With `MaxEvents` events the kernel falls quiet, and
a call that starts its scan again whenever a disk vanishes (`ReadSize_Rescans`) ends all the same; on a machine whose disks
come and go it might not.  A measure that every step lowers and no event raises leaves no room for such a retry, and TLC
finds `EveryStepCounts` violated by it.

### Bounds, and why they are enough

* `MCSysfsEnumerate`: a disk `sdb` with a partition, in three forms (a stick, locked or not, and an SSD that says it is
  fixed), a fixed disk `sdbb` whose name begins with that of the first, a loop device.  Attributes are absent from some forms, so each default is taken.
  `MaxEvents = 3`: the longest story that tells something new takes three events: the partition goes, the disk goes,
  another disk takes its name, all between two reads of one Device.  The run starts from every population the kernel
  allows.  More nodes add no new relation between a node and the one being read.
* `MCListCommand`: a stick with a partition, in three sizes (one sector, just below 2 MB, just below 1 GB), locked, and once
  as a card in a reader that is not USB; a fixed disk of one of two sizes; `MaxEvents = 2`, so that a disk can leave and come
  back between being read and being printed.  TLC's integers end at 2^31, so no disk has a gigabyte; the proofs of the two
  size properties have no such bound.  `CHECK_DEADLOCK FALSE`, because the process ends.
* `MCBsdNames`: names of up to four pieces out of the tokens, half a token, a digit, a separator and a two-byte character:
  enough for a token that follows another at once, overlaps a false start, or is cut off by the end.
* `MCImgReport`: three facts, so that any two boot families meet and a third fact can overturn what they decided (install
  images and large files come on top); and eighteen large files, because the counter saturates at fifteen and a flag may be
  set after it did.  The proofs have neither bound.
* `MCMountTable`: a slash and up to four more characters, from a space, a backslash, octal digits, the digit 8, a letter
  outside ASCII, and in a second set two blanks that the kernel does not escape.  An escape is four characters, so four are
  enough for a name to hold what looks like one, whole or cut short, after a true one or before it.
  `CHECK_DEADLOCK FALSE`, because a behaviour is one row and ends with it.
* `MCFlashSession`: two namespaces of a fixed disk, `nvme0n1` with the root file system and `nvme0n11` with `/home`, and a
  removable stick with a partition, `MaxEvents = 2` (a detach and an attach, or an unmount and a mount, before, during or
  after either call).  Images: on the stick, in `/home`, on the stick through a link from `/home`, in a sibling of the mount
  point whose name begins like it, and not there at all.  Sizes on both sides of both capacities.
* `MCImageInspector`: every combination of leading bytes, boot signature, seven partition tables, both places of a GPT,
  ext, seven descriptor sequences and El Torito, plus files shorter than a window and wrapped images; read up to every
  boundary of a window and one byte either side of those that matter.  `CHECK_DEADLOCK FALSE`, because a caller that has
  read its file has nothing left to do.

### Fairness

`ListSpec` asks for weak fairness of `Runs`, the steps of the process other than its failures.  It is one thread of
straight-line code and bounded loops that waits for nobody, so its next step is enabled until it is taken.  An I/O error and a
closed pipe are never owed, and the kernel owes nothing: none of these is in the fairness.  `CallReturns` is the same
property of the call within it.  `BsdNames` asks for weak fairness of its one function, for the same reason.

## 4. What is proved

For every set of nodes, hardware and mounts, and for any `MaxEvents`:

| Module | Theorem | States |
| --- | --- | --- |
| `SysfsEnumerate_proofs` | `TypeCorrect` | `Spec => []TypeOK` |
| `SysfsEnumerate_proofs` | `DevicesAreFaithful` | `Spec => []Faithful` |
| `SysfsEnumerate_proofs` | `NoDiskIsLost` | `Spec => []ScanComplete` |
| `SysfsEnumerate_proofs` | `EnumerateImplementsCensus` | `Spec => ImplementsCensus` |
| `SysfsEnumerate_proofs` | `ListingIsDetermined` | `Spec => []SortedOnce`: sorting has exactly one result |
| `SysfsEnumerate_proofs` | `OneDiskPerMount` | a mount source counts for one disk at most, of names of any length |

For every set of mount points of any length:

| Module | Theorem | States |
| --- | --- | --- |
| `MountTable_proofs` | `DecoderInStep` | `Spec => []NeverOutOfStep` |
| `MountTable_proofs` | `MountPointsSurvive` | `Spec => []RoundTrip` |
| `MountTable_proofs` | `RowTypeCorrect` | `Spec => []TypeOK` |

For every set of machines, file systems, images and sizes, and any number of kernel events:

| Module | Theorem | States |
| --- | --- | --- |
| `FlashSession_proofs` | `SessionTypeCorrect` | `SessionSpec => []SessionTypeOK` |
| `FlashSession_proofs` | `VerdictsAreSound` | `SessionSpec => []OkIsSound` |
| `FlashSession_proofs` | `SourceIsNamed` | `SessionSpec => []SourceNeverMasked` |
| `FlashSession_proofs` | `RefusalsAreGrounded` | `SessionSpec => []RefusalHasGrounds` |
| `FlashSession_proofs` | `VerdictsWereTrue` | `SessionSpec => []VerdictWasTrue` |
| `FlashSession_proofs` | `ForceIsNarrow` | `SessionSpec => []ForceBuysSystemOnly` |
| `FlashSession_proofs` | `SessionTakesCensus` | `SessionSpec => ImplementsCensus` |
| `ListCommand_proofs` | `ListTypeCorrect` | `ListSpec => []ListTypeOK` |
| `ListCommand_proofs` | `ScreenTellsTheListing` | `ListSpec => []ScreenTellsListing` |
| `ListCommand_proofs` | `ListTakesCensus` | `ListSpec => ImplementsCensus` |
| `ListCommand_proofs` | `SizesAreAccurate` | `ListSpec => []SizeAccurate` |
| `ListCommand_proofs` | `SizesKeepTheirOrder` | `ListSpec => []SizesInOrder` |
| `ListCommand_proofs` | `DefaultsAreHarmless` | `ListSpec => []DefaultIsHarmless` |
| `ListCommand_proofs` | `NothingIsDoneTwice` | `ListSpec => EveryStepCounts` |
| `ListCommand_proofs` | `OwedIsNatural` | `ListSpec => [](Owed \in [1 .. 8 -> Nat])` |
| `Descent_proofs` | `NoEndlessDescent` | no sequence of `n`-tuples of naturals descends for ever, for any `n` |

For every image of any length and nesting, every name, and every order of facts:

| Module | Theorem | States |
| --- | --- | --- |
| `ImageInspector_proofs` | `InspectorTypeCorrect` | `Spec => []TypeOK` |
| `ImageInspector_proofs` | `WarnedXorWritable` | `Spec => []WarnedOrWritable` |
| `ImageInspector_proofs` | `DetectionHeadSettles` | `Spec => []SettledAtDetectionHead` |
| `ImageInspector_proofs` | `KindsRiseOnly` | `Spec => KindsOnlyRise` |
| `ImageInspector_proofs` | `HybridNeverChanges` | `Spec => HybridIsFinal` |
| `ImageInspector_proofs` | `PermissionsAreKept` | `Spec => PermissionIsKept` |
| `BsdNames_proofs` | `NamesTypeCorrect` | `Spec => []TypeOK` |
| `BsdNames_proofs` | `SlicesAtCharacters` | `Spec => []AtCharBoundary` |
| `BsdNames_proofs` | `FlavorOfEveryName` | `Spec => []FlavorIsRight` |
| `BsdNames_proofs` | `EveryNameIsSearched` | `Spec => EveryRoundCounts` |
| `BsdNames_proofs` | `UnsearchedIsNatural` | `Spec => [](Unsearched \in [1 .. 3 -> Nat])` |
| `ImgReport_proofs` | `ReportTypeCorrect` | `Spec => []TypeOK` |
| `ImgReport_proofs` | `Fat32ChosenOnlyWhenItFits` | `Spec => []Fat32Fits` |
| `ImgReport_proofs` | `Fat32ChosenWheneverItFits` | `Spec => []Fat32Offered` |
| `ImgReport_proofs` | `GateIsExact` | `Spec => []SupportedIfBootable` |
| `ImgReport_proofs` | `WindowsPredicatesAgree` | `Spec => []WindowsAgrees` |
| `ImgReport_proofs` | `Fat32RuledOutForGood` | `Spec => Fat32StaysOut` |
| `ImgReport_proofs` | `PersistenceKept` | `Spec => PersistenceOnlyLostToSystems` |

**Assumptions.**  The named ones of `BlockLayer` (what sysfs promises), two of `SysfsEnumerate`, one of `MountTable`.
`NameScheme` says that `is_partition_of` tells a disk's partitions from every other node and mount source; it is what the
kernel's names must satisfy for the code to be right, TLC evaluates it on every machine of the runs, and `mounts_for` is
correct only because of it (what can be said of the rule without the kernel is `OneDiskPerMount`, below).  `EnumerateAssumption` says that paths are ordered.  `PathsAssumption` says that a mount point
is a sequence of characters that begins with a slash.  `MountPointsAreCanonical` (`FlashSession`) says that the kernel
records a mount point by its canonical path, and that nobody replaces it while it is in use: `is_source_drive` needs it,
because it canonicalizes the mount points it was given.  `LabelsAssumption` (`BsdNames`) says the one thing about UTF-8 that
matters, that a continuation byte never follows an ASCII one.  `FinitenessAssumption` (`ListCommand`), which only the
termination theorems use, says that the nodes are finitely many (the kernel's names have a bounded length) and that a mount
table has an end.  The other modules assume only the types of their constants.

**Faithful** is not inductive: it speaks of finished Devices, and a Device is right because each local was right when the
next was read.  The inductive invariant is `FaithfulInv`:

* `TypeOK`;
* `Books`: Devices are named after entries already returned by the stream and never after the current one, and nothing is
  listed while the scan goes on (so that an entry which restarts the quiet period of its own name cannot vouch for an
  older Device);
* `BuildFaithful`: while `cur` is quiet, it is present, it is no partition once `CheckWhole` was passed, and every local
  already read is the field of its description.  `AfterSize`, `AfterLogical`, ... name the stages at which a local has
  been read;
* `Faithful`.

A kernel step keeps it because the nodes that stay in `quiet` are those whose directory did not change (`KernelSparesQuiet`);
a read keeps it because it sets one local from a directory that did not change (`ReadsKeepFaithful`); and the push turns
the completed locals into the description (`BuiltIsDescribed`), which is where `NameScheme` is used.

**ScanComplete** speaks of entries that were passed; what makes it true of the next one is known only of the entry in hand.
`ScanInv` adds that: `InHand` (past the partition test, the entry is no pseudo-device, and eligible if it never left the
directory) and `StreamClosed` (the record of the stream is empty outside a scan).  The crux is that a node which stayed in
the directory has a `size` and tells truly whether it is a partition (`DirContents`), so that leaving it without a Device
is right (`SkipKeepsScan`).  `ScanComplete` at the end of the directory is the promise of `Answer`, and the refinement
follows step by step: `ReadMounts` drops the old answer, `OpenDir` begins, `ReadDirFails` gives up, the other reads stutter.

**NeverOutOfStep** needs to know where in the line each character of the path begins.  `RowInv` says that the kernel put
them there (`Printing`, `Places`), that a line without a backslash is the path itself (`Unescaped`), that the column is the
line up to a blank (`Cut`, `Blanks`), and that the decoder's index is always at the beginning of a character (`InStep`).
One turn of the loop then decodes one character: an escape is recognised where the kernel made one and only there, because
a backslash of the name is itself escaped.

**OkIsSound** rests on `SessionInv`, which adds three parts to `FaithfulInv` and the types:

* `Snapshot`: the mount points of every Device, finished or listed, are those that `mounts_for` finds for its name in the
  table as it was read; a Device whose disk was swapped has them still.
* `History`: the directory a node has is among those it had since the call began, and each field of a Device that a verdict
  rests on was read from one of them.  `DraftWasTrue` says the same of the locals, stage by stage, because a Device is right
  about its past only if each local was when it was read.  A kernel step only adds to `past` (`MeanwhileKeepsHistory`), a
  read takes what is there now (`CallKeepsDraft`), the push turns the locals into a Device (`PushWasTrue`), and the one step
  that forgets the past is `ReadMounts`, with which the old listing goes too.
* `VerdictStands`: the verdict is what the guard answers about the Device it was asked about.

What `OkIsSound` says of the disk is then `Faithful`.  What it says of the image is a chain that no kernel event can break:
the innermost mount above its canonical path, when it belongs to the disk and was in the table, is among the Device's mount
points (`HostIsSource`), and is a prefix of the canonical path, so `is_source_drive` answers yes.  `SourceNeverMasked` is the
same chain, and `RefusalHasGrounds` its converse: a mount point of a Device is a row of the table that was read, and of the
Device's own disk (`SourceIsMounted`).  `VerdictWasTrue` is `History` and the definition of the guard (`VerdictSays`).

**The size properties** need that `scale` is 1024 to the power `unit`, that the size is below 1024 units only when the loop
has ended, and that rounding is monotone: `tenths` at one scale never decreases with the size, and a size shown in a larger
unit is at least ten tenths of it.  `DefaultIsHarmless` needs that each line printed is that of a Device of the listing, of
which `FaithfulInv` says the rest.

**The sort** of `EndOfDir` is a guard of the model, so it must be shown that it can be met.  `OnePerName` says that no two
Devices of a call are of one node, because `readdir` returns a name once and its Device is pushed only after that.  In such a
set the number of Devices up to `d` is the position of `d` (`Position`): positions are an injection into `1 .. n`, hence a
bijection (`PositionsAreTaken`), its inverse is sorted (`SortExists`), and any sorted `Vec` has each Device at its position
(`SortIsUnique`).

**OneDiskPerMount** is about names as sequences of characters, of any length.  `Extension` says what `is_partition_of` accepts,
character by character.  Two disks that claim one node are prefixes of it, so one name begins with the other; what stands
between the ends of the two names is then figures, or a "p" and figures, and the longer name ends in a figure, behind which
its own partitions need a "p" where the shorter name wants a figure.  What is left over is a disk named after another one with a
bare "p" behind it, which the kernel never makes.  The theorem's hypothesis `Spelled` says that a string is the sequence of its
characters, which is what strings are in TLA+; the provers take them for atoms.

**ScreenTellsListing** counts lines, and is proved by what one more line does to the counts.  `Owner` of a line is the number
of disk lines up to it; a line at the end changes no earlier owner (`OwnersStay`), so it adds one disk without mounts
(`DiskAdded`), one mount to the last disk (`MountAdded`), or nothing (`OtherAdded`).  The invariant `Tally` holds the screen
against the listing and says where the process is: about to print a disk, all disks before it are complete; printing mounts,
the last disk has all its mounts below it but those in `todo`; ended, all are complete.  That a mount is printed once follows
because the number of lines below a disk is the number of paths in them, which each step takes out of `todo`.

**Termination.**  `Owed` counts what the process has left to do, from the outermost loop to the innermost: phases of the
process, phases of the call, names not yet yielded, reads of the build in hand, disks not yet printed, divisions, mounts.
Each step lowers one of the counts and raises only those to its right (`CallLeavesLess`, `PrintingLeavesLess`), and a kernel
event changes none: a node that appears during the scan is one of the finitely many names, and is yielded once.  With
`OwedIsNatural` and `NoEndlessDescent`, the process makes finitely many steps, whatever the kernel does and for any number of
events.  `NoEndlessDescent` narrows a set of tuples to those with the least first number, then the least second, and so on;
what is left after `n` rounds is a tuple below which nothing in the set lies.  `EveryRoundCounts` is the same for
`guess_bsd_flavor`.  Only the step from there to `ListEnds` and `NameIsDecided`, that fairness makes the next step be taken,
needs `ENABLED` and stays with TLC.

**Detection** is a matter of windows.  Each probe is monotone in the length of the head (`ProbesStay`), and settled as soon
as its last window is in it: the leading signatures at 11 bytes (`LeadSettled`), the partition tables and the superblock at
4104 (`HybridSettled`), the descriptors at 65536 (`HeadSettles`).  `Branch` numbers the branch of the tree that is taken; it
rises with the head (`BranchRises`).  An ISO cannot be found before byte 32768, so its hybrid kind is already settled
(`IsoIsFar`, `IsoStays`); a table cannot be found before the leading signatures are settled, so no wrapper or WIM can turn up
in front of it (`TableStaysWritable`).

**FlavorIsRight** needs what the search has already ruled out: no release name begins before `from` for the current token,
and none at all for the token before it.  The crux is that no occurrence is skipped by going on *behind* a token, because
neither token overlaps itself or the digits it needs.

**ImgReport**: the invariant says what the packed byte is made of (`Packed`: the counter of large files, up to fifteen, and
flags below that of the next install image, the first of them set when the first image is large), that `bootmgr.efi` sets
its bit of `has_efi`, and that a report is supported exactly when a bootable fact was found.

**Only model-checked**: the liveness properties `CallReturns`, `ListEnds` and `NameIsDecided` (fairness and `ENABLED` are beyond
the prover).  Every invariant and every action property of the passing runs is a theorem.

## 5. What is abstracted, and what is left out

* `Attach` makes a node appear with its whole directory.  `/proc/mounts` is read in one step, as `read_to_string` of a
  seq_file of that size is.  `canonicalize` and the tests of one `check_write_allowed` are one step: the file system of a
  session is fixed.
* Device paths are node names (the `/dev/` prefix is constant).  `devices` is a set: names in a directory are distinct.
  `mounts` is kept after the call returns, as a history of what it read, so that `Describe` can refer to it.
* Two file systems mounted on one mount point are left out.
* The machines of the runs have no mount below another disk's mount point, other than the root: `is_source_drive` takes any mount above an image
  for its own, so an image on the inner disk is refused as if it were on the outer one.  It is a refusal too many, and the
  properties are about what an acceptance means.
* A row of `/proc/mounts` arrives decoded in `SysfsEnumerate`; the decoding is `MountTable`, on code points: no byte of a
  longer UTF-8 sequence is a backslash, a digit or an ASCII blank.  That one path outside UTF-8 costs the whole table is in
  `SysfsEnumerate`.
* Volume labels are the set of vendor words in them for the tree; how they are found in bytes is `BsdNames`.
* `human_size` divides an `f64`; sizes are multiples of 512 below 2^62, so every quotient is exact and is kept as the size and
  a power of 1024.  `{:.1}` rounds the exact value, ties to even.
* The scanner that fills an `ImgReport`: external, see section 2.  Fields that no predicate reads (`label`, `uses_casper`, ...)
  and `FsType`'s two tests of a name are left out; the version of Windows is its major number.
* Message texts, `Display`, column widths, the usage text, the GUI stub.
* The write pipeline, the privileged helper, decompression, Windows and BSD do not exist in the repository.

## 6. Where code and documentation part

Each is a run with one property that TLC violates, and the counterexample is a behaviour of the code as it is.

| Run | The documentation says | The code does |
| --- | --- | --- |
| `doc_never_partition` | `enumerate/mod.rs:35` "Returns only whole disks (never partitions)" | a partition missing at the test of `partition` and back at the read of `size` is listed |
| `doc_root_disk` | `safety.rs:74` "The root/system disk is already protected by the `is_system` check" | a removable root disk is no system disk, and its root mount is ignored |
| `doc_source_disk` | `safety.rs:18` "physically lives on the target device [...] Never overridable" | a mapped volume is attributed to no disk, so an image on it is not seen |
| `doc_mount_names` | `linux.rs:198` "Linux paths are arbitrary byte sequences" | one path outside UTF-8 empties the mount table |
| `doc_mount_blank` | `linux.rs:198` "a mount path may hold non-ASCII UTF-8" | `split_whitespace` (`linux.rs:153`) ends the column at a blank that only Unicode counts as one, and the rest of the mount point is lost |

Two sentences about lengths are not runs of their own, because the mutant of `SettledAtDetectionHead` shows both to be false:
`magic.rs:7` says that 40 KiB cover every window and `mod.rs:23` that the furthest one is that of El Torito at 34816, but
`has_udf` reads up to byte 65536.  A bridge disc with its UDF descriptor in the fifth place is told apart from a plain ISO
only behind 40 KiB.  64 KiB are exactly enough, with no margin.

One sentence about UDF is not a run either, because one line of the code shows it to be false: `magic.rs:117` says "We walk
descriptors until a terminator or a gap", and the loop below it (`magic.rs:121-129`) stops at an NSR descriptor or at the end of
the head and at nothing else.  It takes an NSR descriptor that an earlier file system left behind the terminator `TEA01`, or
behind a gap, for UDF; without a partition table the image is then optical-only and warned about.  `has_udf` is modelled as
the loop is, and `MCImageInspector` has a sequence of descriptors of both kinds, so the properties of `inspect_prefixes` hold
with them.

## 7. State of the plan

Done: every component that exists as code: enumeration against a live kernel, with its refinement of the census; the path of a
mount point through `/proc/mounts`; the guard in a session; detection on prefixes; names; the image report; the command line.
All their safety properties are proved, and of their termination everything but the fairness argument.

Open:

1. A row of `SysfsEnumerate` that carries what `MountTable` makes of its mount point, so that the guard is asked about a
   mount point cut short.
2. The write pipeline, once it exists: what a verdict is worth when the disk is opened.

### Not modelled

The graphical front end is a stub that prints a line.  Windows and BSD enumeration return `Unsupported`.  The write pipeline,
the privileged helper and decompression are described in `docs/porting/` and have no code.
