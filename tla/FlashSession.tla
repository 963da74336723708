----------------------------- MODULE FlashSession -----------------------------
(***************************************************************************)
(* A caller of osedax-core, as core/src/device/enumerate/mod.rs asks it to *)
(* behave: it takes the devices of enumerate() and, before it would write  *)
(* an image to one of them, asks check_write_allowed().  Between the two   *)
(* calls, as within the first, disks and mounts change.                    *)
(***************************************************************************)
EXTENDS SysfsEnumerate, WriteGuard

CONSTANTS
  FileSystems,  \* the maps from existing paths to canonical ones to start from
  Images,       \* the image paths a user may give
  ImageSizes,   \* the sizes of those images, in bytes
  Backing       \* [OtherDevs -> SUBSET Names]: the disks below a mapped volume

ASSUME SessionAssumption ==
  /\ ImageSizes \subseteq Nat
  /\ Backing \in [OtherDevs -> SUBSET Names]

(***************************************************************************)
(* The kernel records a mount point by its canonical path, and neither the *)
(* path nor what is above it is replaced while something is mounted there. *)
(***************************************************************************)
ASSUME MountPointsAreCanonical ==
  \A f \in FileSystems, m \in MountEntries : canonicalize(f, m.path) = m.path

VARIABLES
  fs,      \* the file system, which no step of the session changes
  attempt, \* the last question to the guard and its verdict
  past     \* History: the directories each node has had since the last call began

sessionVars == <<vars, fs, attempt, past>>

NoAttempt == [verdict |-> "none"]

Check ==
  /\ attempt = NoAttempt
  /\ pc = "returned"
  /\ \E d \in Range(listing), image \in Images, size \in ImageSizes, force \in BOOLEAN :
       attempt' = [device |-> d, image |-> image, size |-> size, force |-> force,
                   verdict |-> check_write_allowed(d, image, size, force, fs)]
  /\ UNCHANGED <<vars, fs, past>>

Dismiss == attempt # NoAttempt /\ attempt' = NoAttempt /\ UNCHANGED <<vars, fs, past>>

Today == [n \in Names |-> {sysfs[n]}]

\* A bug: the devices are refreshed while a verdict about one of them is acted on.
Enumerating_Refresh ==
  Call /\ past' = (IF pc' = "open" THEN Today ELSE past) /\ UNCHANGED <<fs, attempt>>

\* The caller is one thread: it enumerates again only after the last verdict.
Enumerating ==
  /\ Call /\ attempt = NoAttempt
  /\ past' = IF pc' = "open" THEN Today ELSE past
  /\ UNCHANGED <<fs, attempt>>

Meanwhile ==
  /\ Kernel
  /\ past' = [n \in Names |-> past[n] \cup {sysfs'[n]}]
  /\ UNCHANGED <<fs, attempt>>

SessionInit == Init /\ fs \in FileSystems /\ attempt = NoAttempt /\ past = Today
SessionNext == Check \/ Dismiss \/ Enumerating \/ Meanwhile
SessionSpec == SessionInit /\ [][SessionNext]_sessionVars

-----------------------------------------------------------------------------
(* The truth the guard is after, read from the kernel instead.             *)

\* The mount that holds the image: the innermost one above its canonical path.
Above(image) == {m \in mountTab : image \in DOMAIN fs /\ IsPrefix(m.path, fs[image])}
HostMounts(image) ==
  {m \in Above(image) : \A other \in Above(image) : Len(other.path) <= Len(m.path)}

NodesOf(disk) == {disk} \cup PartsOf[disk]

\* The mount was in the table when the call read it.
WasRead(m) == <<m.dev, m.path>> \in mounts

\* What a directory of sysfs says of a disk.
Locked(h) == "ro" \in DOMAIN h /\ h["ro"] = "1"
Removable(h) == "removable" \in DOMAIN h /\ h["removable"] = "1"
Fixed(h) == "device" \in DOMAIN h /\ ~Removable(h)
Holds(h, size) == "size" \in DOMAIN h /\ size <= 512 * h["size"]
Lacks(h, size) == "size" \in DOMAIN h /\ 512 * h["size"] < size

Asked == attempt # NoAttempt

-----------------------------------------------------------------------------
(* Properties.                                                             *)

\* The verdict is one of the guard's, about a device of the listing that was asked about.
SessionTypeOK ==
  /\ fs \in FileSystems
  /\ past \in [Names -> SUBSET NodeDir]
  /\ Asked =>
       /\ attempt.verdict \in WriteRefusal \cup {"Ok"}
       /\ attempt.device \in Range(listing)
       /\ attempt.image \in Images /\ attempt.size \in ImageSizes /\ attempt.force \in BOOLEAN

(***************************************************************************)
(* What an Ok is worth.  When the verdict comes and the disk has not       *)
(* changed since it was described, the node really is a whole disk that    *)
(* can be written and is big enough, and a fixed disk takes force.  And    *)
(* whatever has happened to the disk or to other mounts, the image is not  *)
(* on a file system that was mounted from that disk before the call and    *)
(* still is, unless it is the root file system, which is_source_drive      *)
(* leaves to the system check.                                             *)
(***************************************************************************)
OkIsSound ==
  Asked /\ attempt.verdict = "Ok" =>
    LET disk == attempt.device.path
    IN  /\ disk \in quiet =>
             /\ disk \in present /\ disk \notin Partitions
             /\ ~Locked(sysfs[disk]) /\ Holds(sysfs[disk], attempt.size)
             /\ Fixed(sysfs[disk]) => attempt.force
        /\ \A m \in HostMounts(attempt.image) :
             m.dev \in NodesOf(disk) /\ WasRead(m) => m.path = Root

(***************************************************************************)
(* A refusal is never traded for a milder one: an image on the target is   *)
(* reported as such (after a locked disk only), whatever the sizes, the    *)
(* kind of disk and the force flag say, and whatever has happened to the   *)
(* disk since.                                                             *)
(***************************************************************************)
SourceNeverMasked ==
  Asked =>
    \A m \in HostMounts(attempt.image) :
      m.dev \in NodesOf(attempt.device.path) /\ m.path # Root /\ WasRead(m) =>
        attempt.verdict \in {"SourceOnTarget", "ReadOnly"}

(***************************************************************************)
(* A refusal has grounds: what it says of a disk that did not change is    *)
(* true of it, and what it says of the mounts was true of the table that   *)
(* was read, so that nobody is sent to another disk because of a sibling   *)
(* of a mount point, a partition of another disk whose name begins alike,  *)
(* or the root mount, which is above every image (safety.rs:71).           *)
(***************************************************************************)
RefusalHasGrounds ==
  Asked =>
    LET disk == attempt.device.path
    IN  /\ attempt.verdict = "SourceOnTarget" =>
             \E m \in MountEntries : /\ WasRead(m) /\ m.dev \in NodesOf(disk) /\ m.path # Root
                                     /\ IsPrefix(m.path, canonicalize(fs, attempt.image))
        /\ disk \in quiet =>
             /\ attempt.verdict = "ReadOnly" => Locked(sysfs[disk])
             /\ attempt.verdict = "TooSmall" => Lacks(sysfs[disk], attempt.size)
             /\ attempt.verdict = "SystemDrive" => Fixed(sysfs[disk]) /\ ~attempt.force

(***************************************************************************)
(* What a verdict is worth about a disk that changed under the call or     *)
(* after it: each thing it rests on was so at some time since that call    *)
(* began, never before it.  A disk that could not be written all the       *)
(* while, or was too small for the image, or was fixed, is not accepted;   *)
(* one that could be written all the while is not refused as locked.       *)
(***************************************************************************)
VerdictWasTrue ==
  Asked =>
    LET had == past[attempt.device.path]
    IN  /\ attempt.verdict = "Ok" =>
             /\ \E h \in had : ~Locked(h)
             /\ \E h \in had : Holds(h, attempt.size)
             /\ attempt.force \/ \E h \in had : ~Fixed(h)
        /\ attempt.verdict = "ReadOnly" => \E h \in had : Locked(h)
        /\ attempt.verdict = "TooSmall" => \E h \in had : Lacks(h, attempt.size)
        /\ attempt.verdict = "SystemDrive" =>
             /\ ~attempt.force
             /\ \E h \in had : ~Removable(h)
             /\ \E h \in had : "device" \in DOMAIN h

(***************************************************************************)
(* force buys a fixed disk and nothing else, and a smaller image is never  *)
(* refused where a larger one is accepted: the answers the guard would     *)
(* give about every listed device are ordered.                             *)
(***************************************************************************)
ForceBuysSystemOnly ==
  \A d \in Range(listing), image \in Images, size \in ImageSizes :
    LET plain == check_write_allowed(d, image, size, FALSE, fs)
        forced == check_write_allowed(d, image, size, TRUE, fs)
    IN  /\ plain # forced => plain = "SystemDrive" /\ forced = "Ok"
        /\ forced # "SystemDrive"
        /\ forced = "Ok" => \A less \in ImageSizes : less <= size =>
             check_write_allowed(d, image, less, TRUE, fs) = "Ok"
-----------------------------------------------------------------------------
(* What the documentation says of the guard.                               *)

\* Nothing about this disk, nor about any mount, changed since it was listed.
MountsCurrent == mounts = {<<m.dev, m.path>> : m \in mountTab}
Undisturbed(d) == d.path \in quiet /\ MountsCurrent

(***************************************************************************)
(* safety.rs:74: "The root/system disk is already protected by the         *)
(* `is_system` check": without force, the disk the root file system is on  *)
(* is never accepted.                                                      *)
(***************************************************************************)
RootDiskProtected ==
  Asked /\ Undisturbed(attempt.device) /\ attempt.verdict = "Ok" /\ ~attempt.force =>
    \A m \in mountTab : m.path = Root => m.dev \notin NodesOf(attempt.device.path)

(***************************************************************************)
(* safety.rs:18: SourceOnTarget stands for "The image being written        *)
(* physically lives on the target device", also when a mapped volume lies  *)
(* between the file system and the disk.                                   *)
(***************************************************************************)
SourceDiskRefused ==
  Asked /\ Undisturbed(attempt.device) /\ attempt.verdict = "Ok" =>
    \A m \in HostMounts(attempt.image) :
      m.dev \in OtherDevs => attempt.device.path \notin Backing[m.dev]

(***************************************************************************)
(* linux.rs:198: "Linux paths are arbitrary byte sequences", and losing    *)
(* one would "weaken the source-on-target safety check": the name of one   *)
(* mount point does not decide whether an image on another is protected.   *)
(***************************************************************************)
MountNamesAreBytes ==
  Asked /\ attempt.verdict = "Ok" /\ attempt.device.path \in quiet =>
    \A m \in HostMounts(attempt.image) :
      m.path # Root => m.dev \notin NodesOf(attempt.device.path)
=============================================================================
