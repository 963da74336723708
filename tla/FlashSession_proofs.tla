-------------------------- MODULE FlashSession_proofs --------------------------
(***************************************************************************)
(* What the guard is worth to a caller, for every machine, every mount     *)
(* table, every image and any number of kernel events.                     *)
(***************************************************************************)
EXTENDS FlashSession, SysfsEnumerate_proofs

\* A verdict stands for the listing it was asked about: both are there together.
VerdictStands ==
  Asked => attempt.verdict = check_write_allowed(attempt.device, attempt.image, attempt.size,
                                                 attempt.force, fs)

(***************************************************************************)
(* What is known of every listed Device, however stale it is: its mount    *)
(* points are those of the table that was read, and each field the guard   *)
(* asks for was so in some directory its node had since the call began.    *)
(***************************************************************************)
MountsOf(n) == {p \in MountPoints : \E x \in NodesOf(n) : <<x, p>> \in mounts}

Snapshot ==
  /\ \A d \in Reported : d.mountpoints = MountsOf(d.path)
  /\ \A x \in mounts : \E m \in MountEntries : x = <<m.dev, m.path>>

DraftWasTrue ==
  /\ pc \in AfterSize => \E h \in past[cur] : "size" \in DOMAIN h /\ draft.size = 512 * h["size"]
  /\ pc \in AfterRemovable => \E h \in past[cur] : draft.removable <=> Removable(h)
  /\ pc \in AfterReadOnly => \E h \in past[cur] : draft.read_only <=> Locked(h)

DeviceWasTrue(d) ==
  LET had == past[d.path]
  IN  /\ \E h \in had : "size" \in DOMAIN h /\ d.size = 512 * h["size"]
      /\ \E h \in had : d.is_read_only <=> Locked(h)
      /\ d.is_system => (\E h \in had : ~Removable(h)) /\ (\E h \in had : "device" \in DOMAIN h)
      /\ ~d.is_system => \E h \in had : ~Fixed(h)

History ==
  /\ \A n \in Names : sysfs[n] \in past[n]
  /\ DraftWasTrue
  /\ \A d \in Reported : DeviceWasTrue(d)

SessionInv == FaithfulInv /\ Snapshot /\ History /\ SessionTypeOK /\ VerdictStands

LEMMA VerdictType ==
  ASSUME NEW d, NEW image, NEW size, NEW force, NEW f
  PROVE  check_write_allowed(d, image, size, force, f) \in WriteRefusal \cup {"Ok"}
BY DEF check_write_allowed, WriteRefusal

LEMMA InitSession == SessionInit => SessionInv
<1> SUFFICES ASSUME SessionInit PROVE SessionInv
  OBVIOUS
<1>1. FaithfulInv
  BY InitFaithful DEF SessionInit
<1>2. Reported = {} /\ mounts = {} /\ pc = "idle"
  BY DEF SessionInit, Init, Reported, Range
<1>3. Snapshot
  BY <1>2 DEF Snapshot
<1>4. History
  BY <1>2 DEF History, DraftWasTrue, SessionInit, Today, AfterSize, AfterLogical, AfterPhysical,
              AfterRemovable, AfterReadOnly, Stages
<1>5. past \in [Names -> SUBSET NodeDir]
  BY <1>1 DEF SessionInit, Today, FaithfulInv, TypeOK, KernelTypeOK
<1> QED
  BY <1>1, <1>3, <1>4, <1>5 DEF SessionInit, SessionInv, SessionTypeOK, VerdictStands, Asked

LEMMA SessionStep == [SessionNext]_sessionVars => [Next]_vars
BY DEF SessionNext, sessionVars, Check, Dismiss, Enumerating, Meanwhile, Next

\* A call begins with nothing reported, and then reports only what it has built.
LEMMA CallReports ==
  ASSUME FaithfulInv, Call
  PROVE  /\ UNCHANGED <<sysfs, mountTab>>
         /\ \/ ReadMounts /\ pc' = "open" /\ Reported' = {}
            \/ /\ pc' # "open" /\ mounts' = mounts
               /\ \/ Reported' \subseteq Reported
                  \/ pc = "virtual" /\ Reported' = Reported \cup {Built(detect_virtual(cur))}
<1>1. CASE ReadMounts
  BY <1>1 DEF ReadMounts, kernelVars, Reported, Range
<1>2. CASE ReadDirFails
  BY <1>2 DEF ReadDirFails, kernelVars, Reported
<1>3. CASE DetectVirtualAndPush
  BY <1>3 DEF DetectVirtualAndPush, kernelVars, Reported
<1>4. CASE EndOfDir
  <2>1. Reported' = devices
    BY <1>4 DEF EndOfDir, SortedByPath, Reported
  <2> QED
    BY <1>4, <2>1 DEF EndOfDir, kernelVars, Reported
<1>5. CASE OpenDir \/ NextEntry \/ CheckWhole \/ ReadSize
  BY <1>5 DEF OpenDir, NextEntry, CheckWhole, ReadSize, Skip, kernelVars, Reported
<1>6. CASE \/ ReadLogicalBlockSize \/ ReadPhysicalBlockSize \/ ReadRemovable \/ ReadReadOnly
           \/ ReadModel \/ DetectUsb
  BY <1>6 DEF ReadLogicalBlockSize, ReadPhysicalBlockSize, ReadRemovable, ReadReadOnly, ReadModel,
              DetectUsb, Local, kernelVars, Reported
<1> QED
  BY <1>1, <1>2, <1>3, <1>4, <1>5, <1>6 DEF Call, Read

LEMMA CallKeepsSnapshot ==
  ASSUME FaithfulInv, Snapshot, Call
  PROVE  Snapshot'
<1>1. CASE ReadMounts
  <2>1. Reported' = {}
    BY <1>1 DEF ReadMounts, Reported, Range
  <2>2. \A x \in mounts' : \E m \in mountTab : x = <<m.dev, m.path>>
    BY <1>1 DEF ReadMounts, read_mounts
  <2> QED
    BY <2>1, <2>2 DEF Snapshot, FaithfulInv, TypeOK, KernelTypeOK
<1>2. CASE mounts' = mounts /\ Reported' \subseteq Reported
  BY <1>2 DEF Snapshot, MountsOf
<1>3. CASE mounts' = mounts /\ pc = "virtual" /\ Reported' = Reported \cup {Built(detect_virtual(cur))}
  <2> DEFINE d == Built(detect_virtual(cur))
  <2>1. cur \in Names
    BY <1>3 DEF FaithfulInv, TypeOK, Building, Stages
  <2>2. d.path = cur /\ d.mountpoints = mounts_for(cur, mounts)
    BY DEF Built
  <2>3. mounts_for(cur, mounts) = MountsOf(cur)
    BY <2>1, MountsForDisk DEF FaithfulInv, MountsOf, NodesOf
  <2>4. \A n : MountsOf(n)' = MountsOf(n)
    BY <1>3 DEF MountsOf
  <2> QED
    BY <1>3, <2>2, <2>3, <2>4 DEF Snapshot
<1> QED
  BY <1>1, <1>2, <1>3, CallReports

(***************************************************************************)
(* Each local of a build is read from the directory its node has then.     *)
(***************************************************************************)
LEMMA CallKeepsDraft ==
  ASSUME FaithfulInv, History, Call, past' = past
  PROVE  DraftWasTrue'
<1> USE DEF DraftWasTrue, Stages, AfterSize, AfterLogical, AfterPhysical, AfterRemovable, AfterReadOnly
<1>1. CASE \/ ReadMounts \/ ReadDirFails \/ OpenDir \/ NextEntry \/ CheckWhole
           \/ DetectVirtualAndPush \/ EndOfDir
  BY <1>1 DEF ReadMounts, ReadDirFails, OpenDir, NextEntry, CheckWhole, DetectVirtualAndPush, EndOfDir,
              Skip
<1>2. CASE ReadSize
  <2>1. CASE exists(cur, "size")
    <3>1. cur \in Names /\ sysfs[cur]["size"] \in Nat
      BY <1>2, <2>1, DirContents DEF ReadSize, FaithfulInv, TypeOK, Building
    <3>2. draft'.size = sysfs[cur]["size"] * SectorBytes /\ cur' = cur /\ pc' = "logical"
      BY <1>2, <2>1 DEF ReadSize, FaithfulInv, TypeOK, Draft
    <3>3. draft'.size = 512 * sysfs[cur]["size"]
      BY <3>1, <3>2 DEF SectorBytes
    <3>4. sysfs[cur] \in past[cur] /\ "size" \in DOMAIN sysfs[cur]
      BY <2>1, <3>1 DEF History, exists
    <3> QED
      BY <3>2, <3>3, <3>4
  <2>2. CASE ~exists(cur, "size")
    BY <1>2, <2>2 DEF ReadSize, Skip
  <2> QED
    BY <2>1, <2>2
<1>3. CASE ReadLogicalBlockSize
  BY <1>3 DEF ReadLogicalBlockSize, Local, FaithfulInv, TypeOK, Draft, History
<1>4. CASE ReadPhysicalBlockSize
  BY <1>4 DEF ReadPhysicalBlockSize, Local, FaithfulInv, TypeOK, Draft, History
<1>5. CASE ReadRemovable
  <2>1. cur \in Names /\ cur' = cur /\ pc = "removable" /\ pc' = "ro" /\ draft'.size = draft.size
    BY <1>5 DEF ReadRemovable, Local, FaithfulInv, TypeOK, Building, Draft
  <2>2. draft'.removable <=> Removable(sysfs[cur])
    BY <1>5 DEF ReadRemovable, Local, FaithfulInv, TypeOK, Draft, read_attr, exists, Removable
  <2> QED
    BY <2>1, <2>2 DEF History
<1>6. CASE ReadReadOnly
  <2>1. /\ cur \in Names /\ cur' = cur /\ pc = "ro" /\ pc' = "model"
        /\ draft'.size = draft.size /\ draft'.removable = draft.removable
    BY <1>6 DEF ReadReadOnly, Local, FaithfulInv, TypeOK, Building, Draft
  <2>2. draft'.read_only <=> Locked(sysfs[cur])
    BY <1>6 DEF ReadReadOnly, Local, FaithfulInv, TypeOK, Draft, read_attr, exists, Locked
  <2> QED
    BY <2>1, <2>2 DEF History
<1>7. CASE ReadModel
  BY <1>7 DEF ReadModel, Local, FaithfulInv, TypeOK, Draft, History
<1>8. CASE DetectUsb
  BY <1>8 DEF DetectUsb, Local, FaithfulInv, TypeOK, Draft, History
<1> QED
  BY <1>1, <1>2, <1>3, <1>4, <1>5, <1>6, <1>7, <1>8 DEF Call, Read

\* What is pushed is made of those locals, and of one more read.
LEMMA PushWasTrue ==
  ASSUME FaithfulInv, History, pc = "virtual"
  PROVE  DeviceWasTrue(Built(detect_virtual(cur)))
<1> DEFINE d == Built(detect_virtual(cur))
<1>1. cur \in Names /\ draft.removable \in BOOLEAN /\ draft.read_only \in BOOLEAN
  BY DEF FaithfulInv, TypeOK, Building, Stages, Draft
<1>2. /\ d.path = cur /\ d.size = draft.size /\ d.is_read_only = draft.read_only
      /\ d.is_system = (~draft.removable /\ ~detect_virtual(cur))
  BY DEF Built
<1>3. /\ \E h \in past[cur] : "size" \in DOMAIN h /\ draft.size = 512 * h["size"]
      /\ \E h \in past[cur] : draft.removable <=> Removable(h)
      /\ \E h \in past[cur] : draft.read_only <=> Locked(h)
  BY DEF History, DraftWasTrue, Stages, AfterSize, AfterLogical, AfterPhysical, AfterRemovable,
         AfterReadOnly
<1>4. sysfs[cur] \in past[cur] /\ (detect_virtual(cur) <=> "device" \notin DOMAIN sysfs[cur])
  BY <1>1 DEF History, detect_virtual, exists
<1>5. d.is_system => (\E h \in past[cur] : ~Removable(h)) /\ (\E h \in past[cur] : "device" \in DOMAIN h)
  BY <1>1, <1>2, <1>3, <1>4
<1>6. ~d.is_system => \E h \in past[cur] : ~Fixed(h)
  BY <1>1, <1>2, <1>3, <1>4 DEF Fixed
<1> HIDE DEF d
<1>7. DeviceWasTrue(d)
  BY <1>1, <1>2, <1>3, <1>5, <1>6 DEF DeviceWasTrue
<1> QED
  BY <1>7 DEF d

LEMMA EnumeratingKeepsHistory ==
  ASSUME FaithfulInv, FaithfulInv', History, Enumerating
  PROVE  History'
<1>1. Call /\ past' = IF pc' = "open" THEN Today ELSE past
  BY DEF Enumerating
<1>2. CASE pc' = "open" /\ Reported' = {}
  <2>1. sysfs' = sysfs
    BY <1>1, CallReports
  <2> QED
    BY <1>1, <1>2, <2>1 DEF History, Today, DraftWasTrue, AfterSize, AfterLogical, AfterPhysical,
                            AfterRemovable, AfterReadOnly, Stages
<1>3. CASE pc' # "open"
  <2>1. past' = past /\ sysfs' = sysfs
    BY <1>1, <1>3, CallReports
  <2>2. DraftWasTrue'
    BY <1>1, <2>1, CallKeepsDraft
  <2>3. \A d : DeviceWasTrue(d)' <=> DeviceWasTrue(d)
    BY <2>1 DEF DeviceWasTrue
  <2>4. \A d \in Reported' : d \in Reported \/ (pc = "virtual" /\ d = Built(detect_virtual(cur)))
    BY <1>1, <1>3, CallReports
  <2>5. \A d \in Reported' : DeviceWasTrue(d)
    BY <2>4, PushWasTrue DEF History
  <2> QED
    BY <2>1, <2>2, <2>3, <2>5 DEF History
<1> QED
  BY <1>1, <1>2, <1>3, CallReports

\* A kernel event changes nothing the call has, and the past only grows.
LEMMA MeanwhileKeepsHistory ==
  ASSUME FaithfulInv, FaithfulInv', History, past \in [Names -> SUBSET NodeDir], Meanwhile
  PROVE  History'
<1>1. UNCHANGED callVars
  BY KernelActions DEF Meanwhile
<1>2. \A n \in Names : past[n] \subseteq past'[n] /\ sysfs'[n] \in past'[n]
  BY DEF Meanwhile
<1>3. Reported' = Reported /\ pc' = pc /\ cur' = cur /\ draft' = draft
  BY <1>1 DEF callVars, Reported
<1>4. DraftWasTrue'
  <2>1. pc \in Stages => cur \in Names
    BY DEF FaithfulInv, TypeOK, Building
  <2>2. AfterSize \subseteq Stages /\ AfterRemovable \subseteq Stages /\ AfterReadOnly \subseteq Stages
    BY DEF AfterSize, AfterLogical, AfterPhysical, AfterRemovable, AfterReadOnly
  <2> QED
    BY <1>2, <1>3, <2>1, <2>2 DEF History, DraftWasTrue
<1>5. ASSUME NEW d \in Reported PROVE DeviceWasTrue(d)'
  <2>1. d.path \in Names
    <3>1. listing \in Seq(Device) /\ devices \subseteq Device
      BY DEF FaithfulInv, TypeOK
    <3>2. d \in Device
      BY <3>1 DEF Reported, Range
    <3> QED
      BY <3>2 DEF Device
  <2>2. past[d.path] \subseteq past'[d.path]
    BY <1>2, <2>1
  <2>3. DeviceWasTrue(d)
    BY DEF History
  <2> QED
    BY <2>2, <2>3 DEF DeviceWasTrue
<1> QED
  BY <1>2, <1>3, <1>4, <1>5 DEF History

\* The past is made of directories that the machine has.
LEMMA PastType ==
  ASSUME SessionInv, [SessionNext]_sessionVars, FaithfulInv'
  PROVE  past' \in [Names -> SUBSET NodeDir]
<1>1. sysfs' \in [Names -> NodeDir] /\ sysfs \in [Names -> NodeDir] /\ past \in [Names -> SUBSET NodeDir]
  BY DEF SessionInv, SessionTypeOK, FaithfulInv, TypeOK, KernelTypeOK
<1> QED
  BY <1>1 DEF SessionNext, sessionVars, Check, Dismiss, Enumerating, Meanwhile, Today

LEMMA SameCall ==
  ASSUME Snapshot, History, UNCHANGED <<vars, past>>
  PROVE  Snapshot' /\ History'
<1>1. UNCHANGED <<sysfs, mounts, Reported, pc, cur, draft, past>>
  BY DEF vars, kernelVars, callVars, Reported
<1>2. Snapshot'
  BY <1>1 DEF Snapshot, MountsOf
<1>3. DraftWasTrue'
  BY <1>1 DEF History, DraftWasTrue
<1>4. ASSUME NEW d \in Reported' PROVE DeviceWasTrue(d)'
  <2>1. d \in Reported /\ past' = past
    BY <1>1
  <2>2. DeviceWasTrue(d)
    BY <2>1 DEF History
  <2> QED
    BY <2>1, <2>2 DEF DeviceWasTrue
<1> QED
  <2>1. \A n \in Names : sysfs'[n] \in past'[n]
    BY <1>1 DEF History
  <2> QED
    BY <1>2, <1>3, <1>4, <2>1 DEF History

(***************************************************************************)
(* Each step keeps the invariant: a verdict is about the listing there is, *)
(* because the caller does not enumerate again while it holds one.         *)
(***************************************************************************)
LEMMA NextSession == SessionInv /\ [SessionNext]_sessionVars => SessionInv'
<1> SUFFICES ASSUME SessionInv, [SessionNext]_sessionVars PROVE SessionInv'
  OBVIOUS
<1>1. FaithfulInv /\ FaithfulInv' /\ past' \in [Names -> SUBSET NodeDir]
  BY SessionStep, NextFaithful, PastType DEF SessionInv
<1>2. CASE Check
  <2>1. PICK d \in Range(listing), image \in Images, size \in ImageSizes, force \in BOOLEAN :
          attempt' = [device |-> d, image |-> image, size |-> size, force |-> force,
                      verdict |-> check_write_allowed(d, image, size, force, fs)]
    BY <1>2 DEF Check
  <2>2. UNCHANGED <<vars, fs, past>>
    BY <1>2 DEF Check
  <2>3. /\ attempt'.device = d /\ attempt'.image = image /\ attempt'.size = size
        /\ attempt'.force = force
        /\ attempt'.verdict = check_write_allowed(d, image, size, force, fs)
    BY <2>1
  <2>4. SessionTypeOK'
    BY <1>1, <2>2, <2>3, VerdictType DEF SessionInv, SessionTypeOK, vars, callVars
  <2>5. VerdictStands'
    BY <2>2, <2>3 DEF VerdictStands
  <2>6. Snapshot' /\ History'
    BY <2>2, SameCall DEF SessionInv
  <2> QED
    BY <1>1, <2>4, <2>5, <2>6 DEF SessionInv
<1>3. CASE Dismiss
  <2>1. Snapshot' /\ History'
    BY <1>3, SameCall DEF Dismiss, SessionInv
  <2> QED
    BY <1>1, <1>3, <2>1 DEF Dismiss, SessionInv, SessionTypeOK, VerdictStands, Asked
<1>4. CASE Enumerating
  <2>1. Snapshot' /\ History'
    BY <1>1, <1>4, CallKeepsSnapshot, EnumeratingKeepsHistory DEF SessionInv, Enumerating
  <2> QED
    BY <1>1, <1>4, <2>1 DEF Enumerating, SessionInv, SessionTypeOK, VerdictStands, Asked, NoAttempt
<1>5. CASE Meanwhile
  <2>1. UNCHANGED <<fs, attempt, callVars>>
    BY <1>5, KernelActions DEF Meanwhile
  <2>2. Snapshot'
    BY <2>1 DEF SessionInv, Snapshot, MountsOf, Reported, callVars
  <2>3. History'
    BY <1>1, <1>5, MeanwhileKeepsHistory DEF SessionInv, SessionTypeOK
  <2> QED
    BY <1>1, <2>1, <2>2, <2>3 DEF SessionInv, SessionTypeOK, VerdictStands, Asked, NoAttempt, callVars
<1>6. CASE UNCHANGED sessionVars
  <2>1. Snapshot' /\ History'
    BY <1>6, SameCall DEF SessionInv, sessionVars
  <2> QED
    BY <1>1, <1>6, <2>1 DEF sessionVars, vars, callVars, SessionInv, SessionTypeOK, VerdictStands,
                            Asked, NoAttempt
<1> QED
  BY <1>2, <1>3, <1>4, <1>5, <1>6 DEF SessionNext

LEMMA SessionAlways == SessionSpec => []SessionInv
BY InitSession, NextSession, PTL DEF SessionSpec

\* A verdict is one of the guard's, about a listed device and what was asked.
THEOREM SessionTypeCorrect == SessionSpec => []SessionTypeOK
BY SessionAlways, PTL DEF SessionInv

-----------------------------------------------------------------------------
(***************************************************************************)
(* What a listed device knows of the mounts: a mount that holds the image, *)
(* was read, is of the disk and is not the root makes it the source drive. *)
(***************************************************************************)
LEMMA HostIsSource ==
  ASSUME FaithfulInv, Snapshot, fs \in FileSystems, NEW d \in Range(listing),
         NEW image, NEW m \in HostMounts(image), m.dev \in NodesOf(d.path), m.path # Root, WasRead(m)
  PROVE  is_source_drive(d, image, fs)
<1>1. m \in mountTab /\ image \in DOMAIN fs /\ IsPrefix(m.path, fs[image])
  BY DEF HostMounts, Above
<1>2. m \in MountEntries
  BY <1>1 DEF FaithfulInv, TypeOK, KernelTypeOK
<1>3. <<m.dev, m.path>> \in mounts /\ m.path \in MountPoints
  BY <1>2 DEF WasRead, MountPoints
<1>4. d.mountpoints = MountsOf(d.path)
  BY DEF Snapshot, Reported
<1>5. m.path \in d.mountpoints
  BY <1>3, <1>4 DEF MountsOf
<1>6. canonicalize(fs, m.path) = m.path
  BY <1>2, MountPointsAreCanonical
<1>7. canonicalize(fs, image) = fs[image]
  BY <1>1 DEF canonicalize
<1> QED
  BY <1>1, <1>5, <1>6, <1>7 DEF is_source_drive, starts_with

\* And the other way round: the guard only answers so because of a mount of the disk.
LEMMA SourceIsMounted ==
  ASSUME FaithfulInv, Snapshot, fs \in FileSystems, NEW d \in Range(listing),
         NEW image, is_source_drive(d, image, fs)
  PROVE  \E m \in MountEntries : /\ WasRead(m) /\ m.dev \in NodesOf(d.path) /\ m.path # Root
                                 /\ IsPrefix(m.path, canonicalize(fs, image))
<1>1. PICK mp \in d.mountpoints : mp # Root /\ IsPrefix(canonicalize(fs, mp), canonicalize(fs, image))
  BY DEF is_source_drive, starts_with
<1>2. d.mountpoints = MountsOf(d.path)
  BY DEF Snapshot, Reported
<1>3. PICK x \in NodesOf(d.path) : <<x, mp>> \in mounts
  BY <1>1, <1>2 DEF MountsOf
<1>4. PICK m \in MountEntries : <<x, mp>> = <<m.dev, m.path>>
  BY <1>3 DEF Snapshot
<1>5. canonicalize(fs, m.path) = m.path
  BY MountPointsAreCanonical
<1> QED
  BY <1>1, <1>3, <1>4, <1>5 DEF WasRead

\* An undisturbed device says of its node what the node is.
LEMMA DeviceIsNode ==
  ASSUME FaithfulInv, NEW d \in Range(listing), d.path \in quiet
  PROVE  /\ d.path \in present /\ d.path \notin Partitions
         /\ "size" \in DOMAIN sysfs[d.path] /\ d.size = 512 * sysfs[d.path]["size"]
         /\ d.is_read_only <=> Locked(sysfs[d.path])
         /\ d.is_system <=> Fixed(sysfs[d.path])
<1>1. d = Describe(d.path) /\ d.path \in present /\ d.path \notin Partitions
  BY DEF FaithfulInv, Faithful, Reported
<1>2. PICK n : n = d.path
  OBVIOUS
<1>3. /\ Describe(n).size = 512 * sysfs[n]["size"]
      /\ Describe(n).is_read_only = ("ro" \in DOMAIN sysfs[n] /\ sysfs[n]["ro"] = "1")
      /\ Describe(n).is_system = ("device" \in DOMAIN sysfs[n]
                                  /\ ~("removable" \in DOMAIN sysfs[n] /\ sysfs[n]["removable"] = "1"))
  BY DEF Describe
<1>4. d.size = 512 * sysfs[n]["size"]
  BY <1>1, <1>2, <1>3
<1>5. d.is_read_only <=> Locked(sysfs[n])
  BY <1>1, <1>2, <1>3 DEF Locked
<1>6. d.is_system <=> Fixed(sysfs[n])
  BY <1>1, <1>2, <1>3 DEF Fixed, Removable
<1>7. "size" \in DOMAIN sysfs[n]
  <2>1. n \in Names /\ KernelTypeOK
    BY <1>1, <1>2 DEF present, FaithfulInv, TypeOK
  <2> QED
    BY <1>1, <1>2, <2>1, DirContents DEF exists
<1> QED
  BY <1>1, <1>2, <1>4, <1>5, <1>6, <1>7

LEMMA ListedSize ==
  ASSUME FaithfulInv, NEW d \in Range(listing)
  PROVE  d.size \in Nat
<1>1. listing \in Seq(Device)
  BY DEF FaithfulInv, TypeOK
<1>2. d \in Device
  BY <1>1 DEF Range
<1> QED
  BY <1>2 DEF Device

\* What each verdict says of the Device it was given.
LEMMA VerdictSays ==
  ASSUME SessionInv, Asked, NEW d, d = attempt.device
  PROVE  /\ d \in Range(listing) /\ attempt.size \in Nat /\ attempt.force \in BOOLEAN /\ d.size \in Nat
         /\ attempt.verdict = "Ok" =>
              /\ ~d.is_read_only /\ ~is_source_drive(d, attempt.image, fs)
              /\ ~(d.size < attempt.size) /\ (d.is_system => attempt.force)
         /\ attempt.verdict = "ReadOnly" => d.is_read_only
         /\ attempt.verdict = "SourceOnTarget" => is_source_drive(d, attempt.image, fs)
         /\ attempt.verdict = "TooSmall" => d.size < attempt.size
         /\ attempt.verdict = "SystemDrive" => d.is_system /\ ~attempt.force
<1>1. d \in Range(listing) /\ attempt.size \in Nat /\ attempt.force \in BOOLEAN
  BY SessionAssumption DEF SessionInv, SessionTypeOK
<1>2. d.size \in Nat
  BY <1>1, ListedSize DEF SessionInv
<1>3. attempt.verdict = check_write_allowed(d, attempt.image, attempt.size, attempt.force, fs)
  BY DEF SessionInv, VerdictStands
<1> QED
  BY <1>1, <1>2, <1>3 DEF check_write_allowed

(***************************************************************************)
(* The verdict is sound: an Ok about a disk that did not change is about a *)
(* whole disk that can be written and holds the image, that is fixed only  *)
(* when forced; and an Ok about any disk is about one that the image is    *)
(* not on, as far as the table that was read can tell.                     *)
(***************************************************************************)
THEOREM VerdictsAreSound == SessionSpec => []OkIsSound
<1>1. SessionInv => OkIsSound
  <2> SUFFICES ASSUME SessionInv, Asked, attempt.verdict = "Ok"
               PROVE  LET disk == attempt.device.path
                      IN  /\ disk \in quiet =>
                               /\ disk \in present /\ disk \notin Partitions
                               /\ ~Locked(sysfs[disk]) /\ Holds(sysfs[disk], attempt.size)
                               /\ Fixed(sysfs[disk]) => attempt.force
                          /\ \A m \in HostMounts(attempt.image) :
                               m.dev \in NodesOf(disk) /\ WasRead(m) => m.path = Root
    BY DEF OkIsSound
  <2> DEFINE d == attempt.device
  <2>1. /\ d \in Range(listing) /\ attempt.size \in Nat /\ d.size \in Nat
        /\ ~d.is_read_only /\ ~is_source_drive(d, attempt.image, fs)
        /\ ~(d.size < attempt.size) /\ (d.is_system => attempt.force)
    BY VerdictSays
  <2>2. \A m \in HostMounts(attempt.image) : m.dev \in NodesOf(d.path) /\ WasRead(m) => m.path = Root
    BY <2>1, HostIsSource DEF SessionInv, SessionTypeOK
  <2>3. ASSUME d.path \in quiet
        PROVE  /\ d.path \in present /\ d.path \notin Partitions
               /\ ~Locked(sysfs[d.path]) /\ Holds(sysfs[d.path], attempt.size)
               /\ Fixed(sysfs[d.path]) => attempt.force
    <3>1. /\ d.path \in present /\ d.path \notin Partitions
          /\ "size" \in DOMAIN sysfs[d.path] /\ d.size = 512 * sysfs[d.path]["size"]
          /\ d.is_read_only <=> Locked(sysfs[d.path])
          /\ d.is_system <=> Fixed(sysfs[d.path])
      BY <2>1, <2>3, DeviceIsNode DEF SessionInv
    <3> HIDE DEF d
    <3>2. attempt.size <= 512 * sysfs[d.path]["size"]
      BY <2>1, <3>1
    <3> QED
      BY <2>1, <3>1, <3>2 DEF Holds
  <2> QED
    BY <2>2, <2>3
<1> QED
  BY <1>1, SessionAlways, PTL

\* An image on the target is never answered by a milder refusal, however stale the Device.
THEOREM SourceIsNamed == SessionSpec => []SourceNeverMasked
<1>1. SessionInv => SourceNeverMasked
  <2> SUFFICES ASSUME SessionInv, Asked, NEW m \in HostMounts(attempt.image),
                      m.dev \in NodesOf(attempt.device.path), m.path # Root, WasRead(m)
               PROVE  attempt.verdict \in {"SourceOnTarget", "ReadOnly"}
    BY DEF SourceNeverMasked
  <2>1. is_source_drive(attempt.device, attempt.image, fs)
    BY HostIsSource DEF SessionInv, SessionTypeOK
  <2>2. check_write_allowed(attempt.device, attempt.image, attempt.size, attempt.force, fs)
          \in {"SourceOnTarget", "ReadOnly"}
    BY <2>1 DEF check_write_allowed
  <2> QED
    BY <2>2 DEF SessionInv, VerdictStands
<1> QED
  BY <1>1, SessionAlways, PTL

\* A refusal is true of the disk as it is, if it did not change, and of the table as it was read.
THEOREM RefusalsAreGrounded == SessionSpec => []RefusalHasGrounds
<1>1. SessionInv => RefusalHasGrounds
  <2> SUFFICES ASSUME SessionInv, Asked
               PROVE  LET disk == attempt.device.path
                      IN  /\ attempt.verdict = "SourceOnTarget" =>
                               \E m \in MountEntries :
                                 /\ WasRead(m) /\ m.dev \in NodesOf(disk) /\ m.path # Root
                                 /\ IsPrefix(m.path, canonicalize(fs, attempt.image))
                          /\ disk \in quiet =>
                               /\ attempt.verdict = "ReadOnly" => Locked(sysfs[disk])
                               /\ attempt.verdict = "TooSmall" => Lacks(sysfs[disk], attempt.size)
                               /\ attempt.verdict = "SystemDrive" => Fixed(sysfs[disk]) /\ ~attempt.force
    BY DEF RefusalHasGrounds
  <2> DEFINE d == attempt.device
  <2>1. /\ d \in Range(listing)
        /\ attempt.verdict = "ReadOnly" => d.is_read_only
        /\ attempt.verdict = "SourceOnTarget" => is_source_drive(d, attempt.image, fs)
        /\ attempt.verdict = "TooSmall" => d.size < attempt.size
        /\ attempt.verdict = "SystemDrive" => d.is_system /\ ~attempt.force
    BY VerdictSays
  <2>2. attempt.verdict = "SourceOnTarget" =>
          \E m \in MountEntries : /\ WasRead(m) /\ m.dev \in NodesOf(d.path) /\ m.path # Root
                                  /\ IsPrefix(m.path, canonicalize(fs, attempt.image))
    BY <2>1, SourceIsMounted DEF SessionInv, SessionTypeOK
  <2>3. d.path \in quiet =>
          /\ "size" \in DOMAIN sysfs[d.path] /\ d.size = 512 * sysfs[d.path]["size"]
          /\ d.is_read_only <=> Locked(sysfs[d.path])
          /\ d.is_system <=> Fixed(sysfs[d.path])
    BY <2>1, DeviceIsNode DEF SessionInv
  <2> QED
    BY <2>1, <2>2, <2>3 DEF Lacks
<1> QED
  BY <1>1, SessionAlways, PTL

(***************************************************************************)
(* Whatever the disk went through, what a verdict rests on was so at some  *)
(* time since the call that described it began.                            *)
(***************************************************************************)
THEOREM VerdictsWereTrue == SessionSpec => []VerdictWasTrue
<1>1. SessionInv => VerdictWasTrue
  <2> SUFFICES ASSUME SessionInv, Asked PROVE VerdictWasTrue
    BY DEF VerdictWasTrue
  <2> DEFINE d == attempt.device
             had == past[d.path]
  <2>1. /\ d \in Range(listing) /\ attempt.size \in Nat /\ attempt.force \in BOOLEAN /\ d.size \in Nat
        /\ attempt.verdict = "Ok" =>
             ~d.is_read_only /\ ~(d.size < attempt.size) /\ (d.is_system => attempt.force)
        /\ attempt.verdict = "ReadOnly" => d.is_read_only
        /\ attempt.verdict = "TooSmall" => d.size < attempt.size
        /\ attempt.verdict = "SystemDrive" => d.is_system /\ ~attempt.force
    BY VerdictSays
  <2>2. /\ \E h \in had : "size" \in DOMAIN h /\ d.size = 512 * h["size"]
        /\ \E h \in had : d.is_read_only <=> Locked(h)
        /\ d.is_system => (\E h \in had : ~Removable(h)) /\ (\E h \in had : "device" \in DOMAIN h)
        /\ ~d.is_system => \E h \in had : ~Fixed(h)
    BY <2>1 DEF SessionInv, History, Reported, DeviceWasTrue
  <2> HIDE DEF had, d
  <2>3. PICK h \in had : "size" \in DOMAIN h /\ d.size = 512 * h["size"]
    BY <2>2
  <2>4. /\ ~(d.size < attempt.size) => Holds(h, attempt.size)
        /\ d.size < attempt.size => Lacks(h, attempt.size)
    BY <2>1, <2>3 DEF Holds, Lacks
  <2> QED
    BY <2>1, <2>2, <2>4 DEF VerdictWasTrue, had, d
<1> QED
  BY <1>1, SessionAlways, PTL

(***************************************************************************)
(* The answers of the guard are ordered: force buys a fixed disk and       *)
(* nothing else, and a smaller image fits wherever a larger one does.      *)
(***************************************************************************)
THEOREM ForceIsNarrow == SessionSpec => []ForceBuysSystemOnly
<1>1. SessionInv => ForceBuysSystemOnly
  <2> SUFFICES ASSUME SessionInv, NEW d \in Range(listing), NEW image \in Images, NEW size \in ImageSizes
               PROVE  LET plain == check_write_allowed(d, image, size, FALSE, fs)
                          forced == check_write_allowed(d, image, size, TRUE, fs)
                      IN  /\ plain # forced => plain = "SystemDrive" /\ forced = "Ok"
                          /\ forced # "SystemDrive"
                          /\ forced = "Ok" => \A less \in ImageSizes : less <= size =>
                               check_write_allowed(d, image, less, TRUE, fs) = "Ok"
    BY DEF ForceBuysSystemOnly
  <2>1. d.size \in Nat
    BY ListedSize DEF SessionInv
  <2>2. \A less \in ImageSizes : less \in Nat
    BY SessionAssumption
  <2>3. ASSUME check_write_allowed(d, image, size, TRUE, fs) = "Ok",
               NEW less \in ImageSizes, less <= size
        PROVE  check_write_allowed(d, image, less, TRUE, fs) = "Ok"
    <3>1. ~d.is_read_only /\ ~is_source_drive(d, image, fs) /\ ~(d.size < size)
      BY <2>3 DEF check_write_allowed
    <3>2. ~(d.size < less)
      BY <2>1, <2>2, <2>3, <3>1
    <3> QED
      BY <3>1, <3>2 DEF check_write_allowed
  <2>4. LET plain == check_write_allowed(d, image, size, FALSE, fs)
            forced == check_write_allowed(d, image, size, TRUE, fs)
        IN  /\ plain # forced => plain = "SystemDrive" /\ forced = "Ok"
            /\ forced # "SystemDrive"
    BY DEF check_write_allowed
  <2> QED
    BY <2>3, <2>4
<1> QED
  BY <1>1, SessionAlways, PTL

(***************************************************************************)
(* A caller of the library gets a census as well: the disks the guard can  *)
(* be asked about are those that enumerate() owes.                         *)
(***************************************************************************)
THEOREM SessionTakesCensus == SessionSpec => ImplementsCensus
<1>1. SessionInit => Init
  BY DEF SessionInit
<1> QED
  BY <1>1, SessionStep, InitScan, NextScan, InitCensus, StepCensus, PTL
     DEF SessionSpec, ImplementsCensus, Census!CensusSpec
=============================================================================
