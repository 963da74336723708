------------------------ MODULE SysfsEnumerate_proofs ------------------------
(***************************************************************************)
(* Theorems about SysfsEnumerate, for every machine, every naming of its   *)
(* block nodes that obeys NameScheme, every mount table and any number of  *)
(* kernel events.                                                          *)
(***************************************************************************)
EXTENDS SysfsEnumerate, TLAPS, FiniteSetTheorems, SequenceTheorems

(***************************************************************************)
(* What a directory of sysfs holds.  A node that is there was given one of *)
(* the directories of its hardware; one that is not has no files.          *)
(***************************************************************************)
LEMMA DirContents ==
  ASSUME KernelTypeOK, NEW n \in Names
  PROVE  /\ exists(n, "size") => n \in present
         /\ n \in present =>
              /\ sysfs[n] \in HardwareOf[n] /\ sysfs[n] \in Hardware
              /\ exists(n, "size") /\ sysfs[n]["size"] \in Nat
              /\ exists(n, "partition") <=> n \in Partitions
         /\ \A a \in {"queue/logical_block_size", "queue/physical_block_size"} :
              exists(n, a) => sysfs[n][a] \in Nat
         /\ exists(n, "device/model") => sysfs[n]["device/model"] \in Models
<1> DEFINE h == sysfs[n]
<1>1. h \in HardwareOf[n] \cup {Gone}
  BY DEF KernelTypeOK
<1>2. DOMAIN Gone = {}
  BY DEF Gone
<1>3. CASE h = Gone
  <2>1. DOMAIN sysfs[n] = {}
    BY <1>2, <1>3
  <2> QED
    BY <2>1, <1>3 DEF present, exists
<1>4. CASE h # Gone
  <2>1. h \in HardwareOf[n] /\ h \in Hardware
    BY <1>1, <1>4 DEF Hardware
  <2>2. /\ "size" \in DOMAIN h /\ h["size"] \in Nat
        /\ "partition" \in DOMAIN h <=> n \in Partitions
        /\ \A a \in {"queue/logical_block_size", "queue/physical_block_size"} :
             a \in DOMAIN h => h[a] \in Nat
    BY <2>1, HardwareAssumption
  <2>3. "device/model" \in DOMAIN h => h["device/model"] \in Models
    BY <2>1 DEF Models
  <2> QED
    BY <2>1, <2>2, <2>3, <1>4 DEF present, exists
<1> QED
  BY <1>3, <1>4

\* A value read from a directory has the type of the field it goes to.
LEMMA ReadTypes ==
  ASSUME TypeOK, Building
  PROVE  /\ cur \in Names
         /\ exists(cur, "size") => sysfs[cur]["size"] * SectorBytes \in Nat
         /\ read_attr(cur, "queue/logical_block_size", 512) \in Nat
         /\ read_attr(cur, "queue/physical_block_size", draft.logical_block_size) \in Nat
         /\ read_attr(cur, "device/model", "None") \in Models
<1>1. cur \in Names /\ KernelTypeOK /\ draft.logical_block_size \in Nat
  BY DEF TypeOK, Draft
<1>2. exists(cur, "size") => sysfs[cur]["size"] \in Nat
  BY <1>1, DirContents
<1>3. "None" \in Models
  BY DEF Models
<1>4. /\ exists(cur, "queue/logical_block_size") => sysfs[cur]["queue/logical_block_size"] \in Nat
      /\ exists(cur, "queue/physical_block_size") => sysfs[cur]["queue/physical_block_size"] \in Nat
      /\ exists(cur, "device/model") => sysfs[cur]["device/model"] \in Models
  BY <1>1, DirContents
<1>5. ASSUME NEW attr, NEW default, NEW S, default \in S, exists(cur, attr) => sysfs[cur][attr] \in S
      PROVE  read_attr(cur, attr, default) \in S
  BY <1>5 DEF read_attr
<1>6. read_attr(cur, "queue/logical_block_size", 512) \in Nat
  <2>1. PICK default \in Nat : default = 512
    OBVIOUS
  <2>2. read_attr(cur, "queue/logical_block_size", default) \in Nat
    BY <1>4, <1>5
  <2> QED
    BY <2>1, <2>2
<1>7. read_attr(cur, "queue/physical_block_size", draft.logical_block_size) \in Nat
  BY <1>1, <1>4, <1>5
<1>8. read_attr(cur, "device/model", "None") \in Models
  BY <1>3, <1>4, <1>5
<1>9. exists(cur, "size") => sysfs[cur]["size"] * SectorBytes \in Nat
  BY <1>2 DEF SectorBytes
<1> QED
  BY <1>1, <1>6, <1>7, <1>8, <1>9

\* Every kernel event leaves the kernel's variables in their types.
LEMMA KernelKeepsType ==
  ASSUME KernelTypeOK,
         MountEvent \/ \E n \in Names : Attach(n) \/ Detach(n) \/ Alter(n)
  PROVE  KernelTypeOK'
<1>1. ASSUME NEW n \in Names, NEW dir \in HardwareOf[n] \cup {Gone}, SetDir(n, dir), Event
      PROVE  KernelTypeOK'
  <2>1. dir \in NodeDir
    BY <1>1 DEF NodeDir, Hardware
  <2>2. sysfs' \in [Names -> NodeDir]
    BY <1>1, <2>1 DEF SetDir, KernelTypeOK
  <2>3. \A m \in Names : sysfs'[m] \in HardwareOf[m] \cup {Gone}
    BY <1>1 DEF SetDir, KernelTypeOK
  <2>4. events' \in 0 .. MaxEvents /\ mountTab' \subseteq MountEntries
    BY <1>1, MaxEventsAssumption DEF SetDir, Event, KernelTypeOK
  <2> QED
    BY <2>2, <2>3, <2>4 DEF KernelTypeOK
<1>2. ASSUME MountEvent PROVE KernelTypeOK'
  BY <1>2, MaxEventsAssumption DEF MountEvent, Mount, Unmount, Event, KernelTypeOK
<1> QED
  BY <1>1, <1>2 DEF Attach, Detach, Alter

LEMMA BuiltType ==
  ASSUME TypeOK, Building, NEW v \in BOOLEAN
  PROVE  Built(v) \in Device
<1>1. mounts_for(cur, mounts) \subseteq MountPoints
  BY DEF mounts_for, TypeOK
<1> QED
  BY <1>1 DEF Built, Device, TypeOK, Draft

-----------------------------------------------------------------------------
\* A kernel event of any kind, seen from the call.
LEMMA KernelActions ==
  ASSUME Kernel
  PROVE  /\ UNCHANGED <<callVars, yielded>>
         /\ MountEvent \/ \E n \in Names : Attach(n) \/ Detach(n) \/ Alter(n)
         /\ quiet' \subseteq quiet /\ dirKept' \subseteq dirKept
         /\ dirSeen \subseteq dirSeen' /\ dirSeen' \subseteq dirSeen \cup Names
BY DEF Kernel, MountSeen, AttachSeen, DetachSeen, AlterSeen, dirVars

LEMMA InitTypeOK == Init => TypeOK
<1> SUFFICES ASSUME Init PROVE TypeOK
  OBVIOUS
<1>1. KernelTypeOK
  <2>1. \A n \in Names : sysfs[n] \in HardwareOf[n] \cup {Gone}
    BY DEF Init, KernelInit
  <2>2. mountTab \subseteq MountEntries
    BY MountsAssumption DEF Init, KernelInit
  <2> QED
    BY <2>1, <2>2, MaxEventsAssumption DEF Init, KernelInit, KernelTypeOK
<1>2. draft \in Draft
  BY DEF Init, NewDraft, Draft, Models
<1>3. IsFiniteSet(devices)
  BY FS_EmptySet DEF Init
<1> QED
  BY <1>1, <1>2, <1>3 DEF Init, TypeOK, Building, Stages

(***************************************************************************)
(* No step of the call or of the kernel leaves the types.                  *)
(***************************************************************************)
LEMMA NextTypeOK == TypeOK /\ [Next]_vars => TypeOK'
<1> SUFFICES ASSUME TypeOK, [Next]_vars PROVE TypeOK'
  OBVIOUS
<1> USE DEF TypeOK
<1>0. NewDraft \in Draft
  BY DEF NewDraft, Draft, Models
<1>1. CASE ReadMounts
  <2>1. mounts' \subseteq (Names \cup OtherDevs) \X MountPoints
    BY <1>1, MountsAssumption DEF ReadMounts, read_mounts, MountPoints, KernelTypeOK
  <2>2. IsFiniteSet(devices')
    BY <1>1, FS_EmptySet DEF ReadMounts
  <2> QED
    BY <1>1, <2>1, <2>2 DEF ReadMounts, kernelVars, dirVars, KernelTypeOK, Building, Stages
<1>2. CASE OpenDir
  BY <1>2 DEF OpenDir, present, kernelVars, KernelTypeOK, Building, Stages
<1>3. CASE ReadDirFails
  <2>1. IsFiniteSet(devices')
    BY <1>3, FS_EmptySet DEF ReadDirFails
  <2> QED
    BY <1>3, <2>1 DEF ReadDirFails, kernelVars, KernelTypeOK, Building, Stages
<1>4. CASE NextEntry
  BY <1>4 DEF NextEntry, kernelVars, KernelTypeOK, Building, Stages
<1>5. CASE CheckWhole
  BY <1>0, <1>5 DEF CheckWhole, Skip, kernelVars, dirVars, KernelTypeOK, Building, Stages
<1>6. CASE ReadSize
  <2>1. Building
    BY <1>6 DEF ReadSize, Building, Stages
  <2>2. draft' \in Draft
    BY <1>0, <1>6, <2>1, ReadTypes DEF ReadSize, Skip, Draft
  <2> QED
    BY <1>6, <2>1, <2>2 DEF ReadSize, Skip, kernelVars, dirVars, KernelTypeOK, Building, Stages
<1>7. ASSUME pc \in Stages, pc' \in Stages, draft' \in Draft,
             UNCHANGED <<kernelVars, dirVars, mounts, cur, devices, outcome, listing, quiet>>
      PROVE  TypeOK'
  BY <1>7 DEF kernelVars, dirVars, KernelTypeOK, Building
<1>8. CASE ReadLogicalBlockSize
  <2>1. Building
    BY <1>8 DEF ReadLogicalBlockSize, Local, Building, Stages
  <2>2. draft' \in Draft
    BY <1>8, <2>1, ReadTypes DEF ReadLogicalBlockSize, Local, Draft
  <2> QED
    BY <1>8, <1>7, <2>2 DEF ReadLogicalBlockSize, Local, Stages
<1>9. CASE ReadPhysicalBlockSize
  <2>1. Building
    BY <1>9 DEF ReadPhysicalBlockSize, Local, Building, Stages
  <2>2. draft' \in Draft
    BY <1>9, <2>1, ReadTypes DEF ReadPhysicalBlockSize, Local, Draft
  <2> QED
    BY <1>9, <1>7, <2>2 DEF ReadPhysicalBlockSize, Local, Stages
<1>10. CASE ReadRemovable
  <2>1. draft' \in Draft
    BY <1>10 DEF ReadRemovable, Local, Draft
  <2> QED
    BY <1>10, <1>7, <2>1 DEF ReadRemovable, Local, Stages
<1>11. CASE ReadReadOnly
  <2>1. draft' \in Draft
    BY <1>11 DEF ReadReadOnly, Local, Draft
  <2> QED
    BY <1>11, <1>7, <2>1 DEF ReadReadOnly, Local, Stages
<1>12. CASE ReadModel
  <2>1. Building
    BY <1>12 DEF ReadModel, Local, Building, Stages
  <2>2. draft' \in Draft
    BY <1>12, <2>1, ReadTypes DEF ReadModel, Local, Draft
  <2> QED
    BY <1>12, <1>7, <2>2 DEF ReadModel, Local, Stages
<1>13. CASE DetectUsb
  <2>1. draft' \in Draft
    BY <1>13 DEF DetectUsb, Local, Draft, detect_usb
  <2> QED
    BY <1>13, <1>7, <2>1 DEF DetectUsb, Local, Stages
<1>14. CASE DetectVirtualAndPush
  <2>1. Building
    BY <1>14 DEF DetectVirtualAndPush, Building, Stages
  <2>2. Built(detect_virtual(cur)) \in Device
    BY <2>1, BuiltType DEF detect_virtual
  <2>3. IsFiniteSet(devices')
    BY <1>14, FS_AddElement DEF DetectVirtualAndPush
  <2> QED
    BY <1>0, <1>14, <2>2, <2>3
       DEF DetectVirtualAndPush, kernelVars, dirVars, KernelTypeOK, Building, Stages
<1>15. CASE EndOfDir
  <2>1. Cardinality(devices) \in Nat
    BY FS_CardinalityType
  <2>2. listing' \in Seq(Device)
    BY <1>15, <2>1 DEF EndOfDir
  <2>3. IsFiniteSet(devices')
    BY <1>15, FS_EmptySet DEF EndOfDir
  <2> QED
    BY <1>15, <2>2, <2>3 DEF EndOfDir, kernelVars, KernelTypeOK, Building, Stages
<1>16. CASE Kernel
  <2>1. KernelTypeOK'
    BY <1>16, KernelActions, KernelKeepsType
  <2>2. UNCHANGED <<callVars, yielded>> /\ quiet' \subseteq quiet /\ dirKept' \subseteq dirKept
        /\ dirSeen \subseteq dirSeen' /\ dirSeen' \subseteq dirSeen \cup Names
    BY <1>16, KernelActions
  <2> QED
    BY <2>1, <2>2 DEF callVars, Building
<1>17. CASE UNCHANGED vars
  BY <1>17 DEF vars, kernelVars, callVars, dirVars, KernelTypeOK, Building
<1> QED
  BY <1>1, <1>2, <1>3, <1>4, <1>5, <1>6, <1>8, <1>9, <1>10, <1>11, <1>12, <1>13, <1>14, <1>15,
     <1>16, <1>17
  DEF Next, Call, Read

\* Type correctness of enumerate(): each variable keeps its type, on any machine.
THEOREM TypeCorrect == Spec => []TypeOK
<1>1. Init => TypeOK
  BY InitTypeOK
<1>2. TypeOK /\ [Next]_vars => TypeOK'
  BY NextTypeOK
<1> QED
  BY <1>1, <1>2, PTL DEF Spec

-----------------------------------------------------------------------------
(***************************************************************************)
(* Faithful is not inductive: nothing in it says what the locals of a      *)
(* build in progress are.  BuildFaithful does: as long as the kernel left  *)
(* the node alone, each local already read is the field of the reference.  *)
(* Books keeps the Devices of the call among the names it has passed, so   *)
(* that a name whose build begins has no Device yet.                       *)
(***************************************************************************)
AfterSize == Stages \ {"size"}
AfterLogical == AfterSize \ {"logical"}
AfterPhysical == AfterLogical \ {"physical"}
AfterRemovable == AfterPhysical \ {"removable"}
AfterReadOnly == AfterRemovable \ {"ro"}
AfterModel == AfterReadOnly \ {"model"}
AfterUsb == AfterModel \ {"usb"}

BuildFaithful ==
  cur \in quiet =>
    /\ pc \in Stages => ~exists(cur, "partition")
    /\ pc \in AfterSize => cur \in present /\ draft.size = Describe(cur).size
    /\ pc \in AfterLogical => draft.logical_block_size = Describe(cur).logical_block_size
    /\ pc \in AfterPhysical => draft.physical_block_size = Describe(cur).physical_block_size
    /\ pc \in AfterRemovable => draft.removable = Describe(cur).is_removable
    /\ pc \in AfterReadOnly => draft.read_only = Describe(cur).is_read_only
    /\ pc \in AfterModel => draft.model = Describe(cur).model
    /\ pc \in AfterUsb => draft.is_usb = Describe(cur).is_usb

Books ==
  /\ pc \in {"open"} \/ Scanning => listing = <<>>
  /\ Scanning => Paths(devices) \subseteq yielded
  /\ ~Scanning => devices = {}
  /\ Building => cur \in yielded

FaithfulInv == TypeOK /\ Books /\ BuildFaithful /\ Faithful

\* A node the kernel did not touch is described as before.
LEMMA DescribeStays ==
  ASSUME NEW n, sysfs'[n] = sysfs[n], mounts' = mounts
  PROVE  Describe(n)' = Describe(n)
BY DEF Describe

\* The names that are still quiet after a kernel event are names it did not touch.
LEMMA KernelSparesQuiet ==
  ASSUME KernelTypeOK, quiet \subseteq Names, Kernel
  PROVE  /\ UNCHANGED callVars
         /\ quiet' \subseteq quiet
         /\ \A n \in quiet' : sysfs'[n] = sysfs[n] /\ (n \in present' <=> n \in present)
<1>1. CASE MountSeen
  BY <1>1 DEF MountSeen, MountEvent, Mount, Unmount, present, dirVars
<1>2. ASSUME NEW n \in Names, AttachSeen(n) \/ DetachSeen(n) \/ AlterSeen(n)
      PROVE  /\ UNCHANGED callVars
             /\ quiet' = quiet \ {n}
             /\ \A m \in Names \ {n} : sysfs'[m] = sysfs[m]
  BY <1>2 DEF AttachSeen, DetachSeen, AlterSeen, Attach, Detach, Alter, SetDir, KernelTypeOK
<1> QED
  BY <1>1, <1>2 DEF Kernel, present

\* The mounts of a disk are those of its node and of its partitions: NameScheme.
LEMMA MountsForDisk ==
  ASSUME TypeOK, NEW n \in Names
  PROVE  mounts_for(n, mounts) =
           {p \in MountPoints : \E x \in {n} \cup PartsOf[n] : <<x, p>> \in mounts}
<1> DEFINE M == {p \in MountPoints : \E x \in {n} \cup PartsOf[n] : <<x, p>> \in mounts}
<1>1. \A m \in mounts :
        /\ m = <<m[1], m[2]>> /\ m[2] \in MountPoints
        /\ is_partition_of(n, m[1]) <=> m[1] \in PartsOf[n]
  BY NameScheme DEF TypeOK
<1>2. mounts_for(n, mounts) = {m[2] : m \in {x \in mounts : x[1] \in {n} \cup PartsOf[n]}}
  BY <1>1 DEF mounts_for
<1>3. ASSUME NEW p \in mounts_for(n, mounts) PROVE p \in M
  <2>1. PICK m \in mounts : m[1] \in {n} \cup PartsOf[n] /\ p = m[2]
    BY <1>2, <1>3
  <2>2. <<m[1], p>> \in mounts /\ p \in MountPoints
    BY <1>1, <2>1
  <2> QED
    BY <2>1, <2>2
<1>4. ASSUME NEW p \in M PROVE p \in mounts_for(n, mounts)
  <2>1. PICK x \in {n} \cup PartsOf[n] : <<x, p>> \in mounts
    BY <1>4
  <2> QED
    BY <1>2, <2>1
<1> QED
  BY <1>3, <1>4

\* At the last read of an undisturbed build, the Device made is the reference.
LEMMA BuiltIsDescribed ==
  ASSUME TypeOK, BuildFaithful, pc = "virtual", cur \in quiet
  PROVE  Built(detect_virtual(cur)) = Describe(cur)
<1>0. PICK d : d = Describe(cur)
  OBVIOUS
<1>1. cur \in Names /\ draft \in Draft
  BY DEF TypeOK, Building, Stages
<1>2. /\ draft.size = d.size /\ draft.logical_block_size = d.logical_block_size
      /\ draft.physical_block_size = d.physical_block_size
      /\ draft.removable = d.is_removable /\ draft.read_only = d.is_read_only
      /\ draft.model = d.model /\ draft.is_usb = d.is_usb
  BY <1>0 DEF BuildFaithful, Stages, AfterSize, AfterLogical, AfterPhysical, AfterRemovable,
         AfterReadOnly, AfterModel, AfterUsb
<1>3. (~draft.removable /\ ~detect_virtual(cur)) = d.is_system
  BY <1>0, <1>2 DEF Describe, detect_virtual, exists
<1>4. mounts_for(cur, mounts) = d.mountpoints
  BY <1>0, <1>1, MountsForDisk DEF Describe
<1>5. d.path = cur
  BY <1>0 DEF Describe
<1>6. d = [path |-> d.path, model |-> d.model, size |-> d.size,
           logical_block_size |-> d.logical_block_size,
           physical_block_size |-> d.physical_block_size,
           is_usb |-> d.is_usb, is_removable |-> d.is_removable, is_system |-> d.is_system,
           is_read_only |-> d.is_read_only, mountpoints |-> d.mountpoints]
  BY <1>0 DEF Describe
<1> QED
  BY <1>0, <1>2, <1>3, <1>4, <1>5, <1>6 DEF Built

\* What one read of an attribute leaves alone.
ReadFrame == UNCHANGED <<kernelVars, dirVars, mounts, cur, devices, outcome, listing, quiet>>

LEMMA ReadKeeps ==
  ASSUME FaithfulInv, ReadFrame, Building, Building'
  PROVE  Books' /\ Faithful' /\ Describe(cur)' = Describe(cur)
<1>1. cur \in Names /\ cur' = cur
  BY DEF FaithfulInv, TypeOK, ReadFrame
<1>2. Describe(cur)' = Describe(cur)
  BY DescribeStays, <1>1 DEF ReadFrame, kernelVars
<1>3. Books'
  BY DEF FaithfulInv, Books, ReadFrame, dirVars, Building, Scanning, Paths
<1>4. Faithful'
  <2>1. Reported' = Reported /\ quiet' = quiet /\ present' = present
    BY DEF ReadFrame, kernelVars, Reported, present
  <2>2. \A d \in Reported : Describe(d.path)' = Describe(d.path)
    BY DescribeStays DEF ReadFrame, kernelVars
  <2> QED
    BY <2>1, <2>2 DEF FaithfulInv, Faithful
<1> QED
  BY <1>2, <1>3, <1>4

\* Each read of an attribute makes its local the reference's field, and keeps the others.
LEMMA ReadsKeepFaithful ==
  ASSUME FaithfulInv,
         \/ ReadLogicalBlockSize \/ ReadPhysicalBlockSize \/ ReadRemovable
         \/ ReadReadOnly \/ ReadModel \/ DetectUsb
  PROVE  Books' /\ BuildFaithful' /\ Faithful'
<1>1. CASE ReadLogicalBlockSize
  <2>1. ReadFrame /\ Building /\ Building'
    BY <1>1 DEF ReadLogicalBlockSize, Local, ReadFrame, Building, Stages
  <2>2. Books' /\ Faithful' /\ Describe(cur)' = Describe(cur)
    BY <2>1, ReadKeeps
  <2>3. cur \in quiet => draft'.logical_block_size = Describe(cur).logical_block_size
    BY <1>1 DEF ReadLogicalBlockSize, Local, Describe, read_attr, exists, FaithfulInv, TypeOK, Draft,
           BuildFaithful, Stages, AfterSize, AfterLogical
  <2>4. BuildFaithful'
    BY <1>1, <2>1, <2>2, <2>3
       DEF ReadLogicalBlockSize, Local, ReadFrame, kernelVars, exists, present, FaithfulInv, TypeOK, Draft,
           BuildFaithful, Stages, AfterSize, AfterLogical, AfterPhysical, AfterRemovable,
           AfterReadOnly, AfterModel, AfterUsb
  <2> QED
    BY <2>2, <2>4
<1>2. CASE ReadPhysicalBlockSize
  <2>1. ReadFrame /\ Building /\ Building'
    BY <1>2 DEF ReadPhysicalBlockSize, Local, ReadFrame, Building, Stages
  <2>2. Books' /\ Faithful' /\ Describe(cur)' = Describe(cur)
    BY <2>1, ReadKeeps
  <2>3. cur \in quiet => draft'.physical_block_size = Describe(cur).physical_block_size
    BY <1>2 DEF ReadPhysicalBlockSize, Local, Describe, read_attr, exists, FaithfulInv, TypeOK, Draft,
           BuildFaithful, Stages, AfterSize, AfterLogical
  <2>4. BuildFaithful'
    BY <1>2, <2>1, <2>2, <2>3
       DEF ReadPhysicalBlockSize, Local, ReadFrame, kernelVars, exists, present, FaithfulInv, TypeOK, Draft,
           BuildFaithful, Stages, AfterSize, AfterLogical, AfterPhysical, AfterRemovable,
           AfterReadOnly, AfterModel, AfterUsb
  <2> QED
    BY <2>2, <2>4
<1>3. CASE ReadRemovable
  <2>1. ReadFrame /\ Building /\ Building'
    BY <1>3 DEF ReadRemovable, Local, ReadFrame, Building, Stages
  <2>2. Books' /\ Faithful' /\ Describe(cur)' = Describe(cur)
    BY <2>1, ReadKeeps
  <2>3. cur \in quiet => draft'.removable = Describe(cur).is_removable
    BY <1>3 DEF ReadRemovable, Local, Describe, read_attr, exists, FaithfulInv, TypeOK, Draft,
           BuildFaithful, Stages, AfterSize, AfterLogical
  <2>4. BuildFaithful'
    BY <1>3, <2>1, <2>2, <2>3
       DEF ReadRemovable, Local, ReadFrame, kernelVars, exists, present, FaithfulInv, TypeOK, Draft,
           BuildFaithful, Stages, AfterSize, AfterLogical, AfterPhysical, AfterRemovable,
           AfterReadOnly, AfterModel, AfterUsb
  <2> QED
    BY <2>2, <2>4
<1>4. CASE ReadReadOnly
  <2>1. ReadFrame /\ Building /\ Building'
    BY <1>4 DEF ReadReadOnly, Local, ReadFrame, Building, Stages
  <2>2. Books' /\ Faithful' /\ Describe(cur)' = Describe(cur)
    BY <2>1, ReadKeeps
  <2>3. cur \in quiet => draft'.read_only = Describe(cur).is_read_only
    BY <1>4 DEF ReadReadOnly, Local, Describe, read_attr, exists, FaithfulInv, TypeOK, Draft,
           BuildFaithful, Stages, AfterSize, AfterLogical
  <2>4. BuildFaithful'
    BY <1>4, <2>1, <2>2, <2>3
       DEF ReadReadOnly, Local, ReadFrame, kernelVars, exists, present, FaithfulInv, TypeOK, Draft,
           BuildFaithful, Stages, AfterSize, AfterLogical, AfterPhysical, AfterRemovable,
           AfterReadOnly, AfterModel, AfterUsb
  <2> QED
    BY <2>2, <2>4
<1>5. CASE ReadModel
  <2>1. ReadFrame /\ Building /\ Building'
    BY <1>5 DEF ReadModel, Local, ReadFrame, Building, Stages
  <2>2. Books' /\ Faithful' /\ Describe(cur)' = Describe(cur)
    BY <2>1, ReadKeeps
  <2>3. cur \in quiet => draft'.model = Describe(cur).model
    BY <1>5 DEF ReadModel, Local, Describe, read_attr, exists, FaithfulInv, TypeOK, Draft,
           BuildFaithful, Stages, AfterSize, AfterLogical
  <2>4. BuildFaithful'
    BY <1>5, <2>1, <2>2, <2>3
       DEF ReadModel, Local, ReadFrame, kernelVars, exists, present, FaithfulInv, TypeOK, Draft,
           BuildFaithful, Stages, AfterSize, AfterLogical, AfterPhysical, AfterRemovable,
           AfterReadOnly, AfterModel, AfterUsb
  <2> QED
    BY <2>2, <2>4
<1>6. CASE DetectUsb
  <2>1. ReadFrame /\ Building /\ Building'
    BY <1>6 DEF DetectUsb, Local, ReadFrame, Building, Stages
  <2>2. Books' /\ Faithful' /\ Describe(cur)' = Describe(cur)
    BY <2>1, ReadKeeps
  <2>3. cur \in quiet => draft'.is_usb = Describe(cur).is_usb
    <3> DEFINE usb == exists(cur, "device") /\ \E seg \in sysfs[cur]["device"] : IsUsbSegment(seg)
    <3>1. detect_usb(cur) = usb
      BY DEF detect_usb, read_attr
    <3>2. Describe(cur).is_usb = usb
      BY DEF Describe, exists
    <3>3. draft'.is_usb = detect_usb(cur)
      BY <1>6 DEF DetectUsb, Local, FaithfulInv, TypeOK, Draft
    <3> QED
      BY <3>1, <3>2, <3>3
  <2>4. BuildFaithful'
    BY <1>6, <2>1, <2>2, <2>3
       DEF DetectUsb, Local, ReadFrame, kernelVars, exists, present, FaithfulInv, TypeOK, Draft,
           BuildFaithful, Stages, AfterSize, AfterLogical, AfterPhysical, AfterRemovable,
           AfterReadOnly, AfterModel, AfterUsb
  <2> QED
    BY <2>2, <2>4
<1> QED
  BY <1>1, <1>2, <1>3, <1>4, <1>5, <1>6

LEMMA InitFaithful == Init => FaithfulInv
<1> SUFFICES ASSUME Init PROVE FaithfulInv
  OBVIOUS
<1>1. Reported = {}
  BY DEF Init, Reported, Range
<1> QED
  BY <1>1, InitTypeOK
     DEF Init, FaithfulInv, Books, BuildFaithful, Faithful, Scanning, Building, Stages,
         AfterSize, AfterLogical, AfterPhysical, AfterRemovable, AfterReadOnly, AfterModel, AfterUsb

\* What is listed comes from the Devices of the call, and nothing is listed before.
LEMMA NothingListed ==
  ASSUME listing = <<>>
  PROVE  Reported = devices
BY DEF Reported, Range

\* A node passes the test for whole disks, or its build is left without a Device.
PassOrSkip ==
  /\ UNCHANGED <<kernelVars, dirVars, mounts, outcome, listing, quiet, devices>>
  /\ Building
  /\ \/ pc' = "next" /\ cur' = NoName
     \/ pc' = "size" /\ cur' = cur /\ ~exists(cur, "partition")

LEMMA PassOrSkipKeepsFaithful ==
  ASSUME FaithfulInv, PassOrSkip
  PROVE  Books' /\ BuildFaithful' /\ Faithful'
<1>1. Books'
  BY DEF FaithfulInv, PassOrSkip, Books, dirVars, Paths, Scanning, Building, Stages
<1>2. BuildFaithful'
  BY DEF FaithfulInv, PassOrSkip, kernelVars, exists, BuildFaithful, Stages, AfterSize, AfterLogical,
         AfterPhysical, AfterRemovable, AfterReadOnly, AfterModel, AfterUsb
<1>3. Faithful'
  <2>1. Reported' = Reported /\ quiet' = quiet /\ present' = present
    BY DEF PassOrSkip, Reported, kernelVars, present
  <2>2. \A d \in Reported : Describe(d.path)' = Describe(d.path)
    BY DescribeStays DEF PassOrSkip, kernelVars
  <2> QED
    BY <2>1, <2>2 DEF FaithfulInv, Faithful
<1> QED
  BY <1>1, <1>2, <1>3

LEMMA NextFaithful == FaithfulInv /\ [Next]_vars => FaithfulInv'
<1> SUFFICES ASSUME FaithfulInv, [Next]_vars PROVE FaithfulInv'
  OBVIOUS
<1> USE DEF FaithfulInv
<1>0. TypeOK'
  BY NextTypeOK
<1> SUFFICES Books' /\ BuildFaithful' /\ Faithful'
  BY <1>0
<1>1. CASE ReadMounts
  <2>1. Reported' = {}
    BY <1>1 DEF ReadMounts, Reported, Range
  <2> QED
    BY <1>1, <2>1 DEF ReadMounts, Books, BuildFaithful, Faithful, Scanning, Building, Stages
<1>2. CASE OpenDir
  <2>1. Reported' = {} /\ Reported = {}
    BY <1>2, NothingListed DEF OpenDir, Books, Scanning, Stages, Reported
  <2>2. Books'
    BY <1>2 DEF OpenDir, Books, Paths, Scanning, Building, Stages
  <2>3. BuildFaithful'
    BY <1>2 DEF OpenDir, BuildFaithful, Stages, AfterSize, AfterLogical, AfterPhysical,
                AfterRemovable, AfterReadOnly, AfterModel, AfterUsb
  <2> QED
    BY <2>1, <2>2, <2>3 DEF Faithful
<1>3. CASE ReadDirFails
  BY <1>3 DEF ReadDirFails, Books, BuildFaithful, Faithful, Scanning, Building, Stages
<1>4. CASE NextEntry
  <2>1. PICK n \in dirSeen \ yielded :
          yielded' = yielded \cup {n} /\ cur' = n /\ quiet' = quiet \cup {n}
    BY <1>4 DEF NextEntry
  <2>2. Books'
    BY <1>4, <2>1 DEF NextEntry, Books, Paths, Scanning, Building, Stages
  <2>3. BuildFaithful'
    BY <1>4 DEF NextEntry, BuildFaithful, Stages, AfterSize, AfterLogical, AfterPhysical,
                AfterRemovable, AfterReadOnly, AfterModel, AfterUsb
  <2>4. Faithful'
    <3>1. Reported = devices /\ Reported' = devices
      BY <1>4, NothingListed DEF NextEntry, Books, Scanning, Reported
    <3>2. \A d \in devices : d.path # n
      BY <1>4, <2>1 DEF NextEntry, Books, Paths, Scanning
    <3>3. \A d \in devices : Describe(d.path)' = Describe(d.path)
      BY <1>4, DescribeStays DEF NextEntry, kernelVars
    <3>4. present' = present
      BY <1>4 DEF NextEntry, kernelVars, present
    <3> QED
      BY <2>1, <3>1, <3>2, <3>3, <3>4 DEF Faithful
  <2> QED
    BY <2>2, <2>3, <2>4
<1>6. CASE CheckWhole
  <2>1. PassOrSkip
    BY <1>6 DEF CheckWhole, Skip, is_whole_disk, PassOrSkip, Building
  <2> QED
    BY <2>1, PassOrSkipKeepsFaithful
<1>7. CASE ReadSize
  <2>1. CASE ~exists(cur, "size")
    <3>1. PassOrSkip
      BY <1>7, <2>1 DEF ReadSize, Skip, PassOrSkip, Building, Stages
    <3> QED
      BY <3>1, PassOrSkipKeepsFaithful
  <2>2. CASE exists(cur, "size")
    <3>1. ReadFrame /\ Building /\ Building'
      BY <1>7, <2>2 DEF ReadSize, ReadFrame, Building, Stages
    <3>2. Books' /\ Faithful' /\ Describe(cur)' = Describe(cur)
      BY <3>1, ReadKeeps DEF FaithfulInv
    <3>3. cur \in Names /\ cur \in present /\ sysfs[cur]["size"] \in Nat
      BY <2>2, <3>1, DirContents DEF TypeOK
    <3>4. Describe(cur).size = 512 * sysfs[cur]["size"]
      BY DEF Describe
    <3>5. draft'.size = sysfs[cur]["size"] * 512
      BY <1>7, <2>2 DEF ReadSize, SectorBytes, TypeOK, Draft
    <3>6. draft'.size = Describe(cur).size
      BY <3>3, <3>4, <3>5
    <3>7. BuildFaithful'
      BY <1>7, <2>2, <3>1, <3>2, <3>3, <3>6
         DEF ReadSize, ReadFrame, kernelVars, exists, present, BuildFaithful, Stages, AfterSize,
             AfterLogical, AfterPhysical, AfterRemovable, AfterReadOnly, AfterModel, AfterUsb
    <3> QED
      BY <3>2, <3>7
  <2> QED
    BY <2>1, <2>2
<1>8. ASSUME \/ ReadLogicalBlockSize \/ ReadPhysicalBlockSize \/ ReadRemovable
             \/ ReadReadOnly \/ ReadModel \/ DetectUsb
      PROVE  Books' /\ BuildFaithful' /\ Faithful'
  BY <1>8, ReadsKeepFaithful
<1>9. CASE DetectVirtualAndPush
  <2> DEFINE d == Built(detect_virtual(cur))
  <2>1. pc = "virtual" /\ listing = <<>> /\ listing' = <<>> /\ quiet' = quiet
        /\ devices' = devices \cup {d} /\ d.path = cur /\ cur \in yielded /\ yielded' = yielded
        /\ pc' = "next" /\ cur' = NoName
    BY <1>9 DEF DetectVirtualAndPush, Books, Built, dirVars, Scanning, Building, Stages
  <2>2. Books'
    BY <2>1 DEF Books, Paths, Scanning, Building, Stages
  <2>3. BuildFaithful'
    BY <2>1 DEF BuildFaithful, Stages, AfterSize, AfterLogical, AfterPhysical,
                AfterRemovable, AfterReadOnly, AfterModel, AfterUsb
  <2>4. Faithful'
    <3>1. Reported = devices /\ Reported' = devices \cup {d}
      BY <2>1, NothingListed DEF Reported
    <3>2. cur \in quiet => d = Describe(cur)
      BY <2>1, BuiltIsDescribed
    <3>3. cur \in quiet => cur \in present /\ cur \notin Partitions
      BY <2>1, DirContents DEF TypeOK, BuildFaithful, Building, Stages, AfterSize
    <3>4. present' = present
      BY <1>9 DEF DetectVirtualAndPush, kernelVars, present
    <3>5. \A n : Describe(n)' = Describe(n)
      BY <1>9, DescribeStays DEF DetectVirtualAndPush, kernelVars
    <3> HIDE DEF d
    <3>6. ASSUME NEW e \in Reported', e.path \in quiet'
          PROVE  e.path \in present' /\ e.path \notin Partitions /\ e = Describe(e.path)'
      <4>1. CASE e = d
        BY <2>1, <3>2, <3>3, <3>4, <3>5, <3>6, <4>1
      <4>2. CASE e \in devices
        BY <2>1, <3>1, <3>4, <3>5, <3>6, <4>2 DEF Faithful
      <4> QED
        BY <3>1, <4>1, <4>2
    <3> QED
      BY <3>6 DEF Faithful
  <2> QED
    BY <2>2, <2>3, <2>4
<1>10. CASE EndOfDir
  <2>1. Reported = devices /\ Reported' = devices
    BY <1>10, NothingListed DEF EndOfDir, SortedByPath, Books, Scanning, Reported
  <2>2. quiet' = quiet /\ present' = present /\ \A n : Describe(n)' = Describe(n)
    BY <1>10, DescribeStays DEF EndOfDir, kernelVars, present
  <2>3. Books' /\ BuildFaithful'
    BY <1>10 DEF EndOfDir, Books, BuildFaithful, Scanning, Building, Stages, AfterSize, AfterLogical,
                 AfterPhysical, AfterRemovable, AfterReadOnly, AfterModel, AfterUsb
  <2> QED
    BY <2>1, <2>2, <2>3 DEF Faithful
<1>11. CASE Kernel
  <2>1. /\ UNCHANGED callVars
        /\ quiet' \subseteq quiet /\ yielded' = yielded
        /\ \A n \in quiet' : sysfs'[n] = sysfs[n] /\ (n \in present' <=> n \in present)
    BY <1>11, KernelSparesQuiet, KernelActions DEF TypeOK
  <2>2. Books'
    BY <2>1 DEF callVars, Books, Paths, Scanning, Building
  <2>3. \A n \in quiet' : Describe(n)' = Describe(n)
    BY <2>1, DescribeStays DEF callVars
  <2>4. BuildFaithful'
    BY <2>1, <2>3 DEF callVars, BuildFaithful, exists
  <2>5. Faithful'
    BY <2>1, <2>3 DEF callVars, Faithful, Reported
  <2> QED
    BY <2>2, <2>4, <2>5
<1>12. CASE UNCHANGED vars
  BY <1>12 DEF vars, kernelVars, callVars, dirVars, Books, BuildFaithful, Faithful, Reported, present,
               Describe, exists, Paths, Scanning, Building
<1> QED
  BY <1>1, <1>2, <1>3, <1>4, <1>6, <1>7, <1>8, <1>9, <1>10, <1>11, <1>12 DEF Next, Call, Read

(***************************************************************************)
(* Whatever the kernel does between the reads of enumerate(), a Device of  *)
(* a node it left alone is that node's description, and a whole disk's.    *)
(***************************************************************************)
THEOREM DevicesAreFaithful == Spec => []Faithful
<1>1. Init => FaithfulInv
  BY InitFaithful
<1>2. FaithfulInv /\ [Next]_vars => FaithfulInv'
  BY NextFaithful
<1>3. FaithfulInv => Faithful
  BY DEF FaithfulInv
<1> QED
  BY <1>1, <1>2, <1>3, PTL DEF Spec

-----------------------------------------------------------------------------
(* The census: no disk is lost, and enumerate() implements DiskCensus.     *)

(***************************************************************************)
(* ScanComplete speaks of entries that were passed.  What makes it true of *)
(* the next one is known of the entry in hand: past the partition test it  *)
(* is no pseudo-device, and no partition if it never left the directory.   *)
(***************************************************************************)
InHand ==
  pc \in Stages => cur \notin Pseudo /\ (cur \in dirKept => cur \in Eligible)

StreamClosed == ~Scanning => dirSeen = {} /\ dirKept = {}

ScanInv == FaithfulInv /\ ScanComplete /\ InHand /\ StreamClosed

LEMMA InitScan == Init => ScanInv
<1> SUFFICES ASSUME Init PROVE ScanInv
  OBVIOUS
<1>1. FaithfulInv
  BY InitFaithful
<1> QED
  BY <1>1 DEF Init, ScanInv, ScanComplete, InHand, StreamClosed, Scanning, Stages

\* What a kernel event does to the population, and to the record of the open stream.
LEMMA KernelPopulation ==
  ASSUME KernelTypeOK, Kernel
  PROVE  \/ present' = present /\ dirKept' = dirKept /\ dirSeen' = dirSeen
         \/ \E n \in Names :
              /\ n \notin present /\ present' = present \cup {n} /\ dirKept' = dirKept
              /\ dirSeen' = IF Scanning THEN dirSeen \cup {n} ELSE dirSeen
         \/ \E n \in Names :
              /\ n \in present /\ present' = present \ {n} /\ dirKept' = dirKept \ {n}
              /\ dirSeen' = dirSeen
<1>1. \A n \in Names : \A h \in HardwareOf[n] : h # Gone
  BY HardwareAssumption DEF Gone
<1>2. CASE MountSeen
  BY <1>2 DEF MountSeen, MountEvent, Mount, Unmount, present, dirVars
<1>3. ASSUME NEW n \in Names, AttachSeen(n)
      PROVE  /\ n \notin present /\ present' = present \cup {n} /\ dirKept' = dirKept
             /\ dirSeen' = IF Scanning THEN dirSeen \cup {n} ELSE dirSeen
  BY <1>1, <1>3 DEF AttachSeen, Attach, SetDir, KernelTypeOK, present
<1>4. ASSUME NEW n \in Names, DetachSeen(n)
      PROVE  /\ n \in present /\ present' = present \ {n} /\ dirKept' = dirKept \ {n}
             /\ dirSeen' = dirSeen
  BY <1>4 DEF DetachSeen, Detach, SetDir, KernelTypeOK, present
<1>5. ASSUME NEW n \in Names, AlterSeen(n)
      PROVE  present' = present /\ dirKept' = dirKept /\ dirSeen' = dirSeen
  <2>1. PICK h \in HardwareOf[n] : sysfs' = [sysfs EXCEPT ![n] = h]
    BY <1>5 DEF AlterSeen, Alter, SetDir
  <2>2. sysfs[n] # Gone /\ h # Gone
    BY <1>1, <1>5 DEF AlterSeen, Alter
  <2>3. present' = present
    BY <2>1, <2>2 DEF KernelTypeOK, present
  <2> QED
    BY <1>5, <2>3 DEF AlterSeen, dirVars
<1> QED
  BY <1>2, <1>3, <1>4, <1>5 DEF Kernel

\* A read that stays with its entry leaves the scan as it was.
Stays ==
  /\ UNCHANGED <<kernelVars, dirVars, cur, devices>>
  /\ pc \in Stages /\ pc' \in Stages

LEMMA StaysKeepsScan ==
  ASSUME ScanComplete, InHand, Stays
  PROVE  ScanComplete' /\ InHand' /\ StreamClosed'
BY DEF ScanComplete, InHand, StreamClosed, Stays, dirVars, kernelVars, present, Scanning, Building,
       Paths, Passed

\* An entry left without a Device is none that the census has to count.
LEMMA SkipKeepsScan ==
  ASSUME ScanComplete, Building, pc' = "next", cur \notin dirKept \/ cur \notin Eligible,
         UNCHANGED <<kernelVars, dirVars, devices>>
  PROVE  ScanComplete' /\ InHand' /\ StreamClosed'
<1>1. present' = present /\ dirKept' = dirKept /\ yielded' = yielded /\ devices' = devices
  BY DEF kernelVars, dirVars, present
<1>2. Scanning /\ Scanning' /\ Passed = yielded \ {cur} /\ Passed' = yielded
  BY <1>1 DEF Scanning, Building, Stages, Passed
<1>3. InHand' /\ StreamClosed'
  BY <1>2 DEF InHand, StreamClosed, Stages
<1> QED
  BY <1>1, <1>2, <1>3 DEF ScanComplete, Paths

LEMMA NextScan == ScanInv /\ [Next]_vars => ScanInv'
<1> SUFFICES ASSUME ScanInv, [Next]_vars PROVE ScanInv'
  OBVIOUS
<1> USE DEF ScanInv
<1>0. FaithfulInv'
  BY NextFaithful
<1> SUFFICES ScanComplete' /\ InHand' /\ StreamClosed'
  BY <1>0
<1>1. CASE ReadMounts \/ ReadDirFails \/ EndOfDir
  <2>1. ~Scanning' /\ dirSeen' = {} /\ dirKept' = {} /\ pc' \notin Stages
    BY <1>1 DEF ReadMounts, ReadDirFails, EndOfDir, StreamClosed, Scanning, Stages, dirVars
  <2> QED
    BY <2>1 DEF ScanComplete, InHand, StreamClosed
<1>2. CASE OpenDir
  <2>1. /\ pc' = "next" /\ dirKept' = present /\ yielded' = {} /\ present' = present
        /\ devices' = {}
    BY <1>2 DEF OpenDir, kernelVars, present, FaithfulInv, Books, Scanning, Stages
  <2>2. Passed' = {} /\ Paths(devices)' = {}
    BY <2>1 DEF Passed, Paths
  <2> QED
    BY <2>1, <2>2 DEF ScanComplete, InHand, StreamClosed, Scanning, Stages
<1>3. CASE NextEntry
  <2>1. PICK n \in dirSeen \ yielded : yielded' = yielded \cup {n} /\ cur' = n
    BY <1>3 DEF NextEntry
  <2>2. /\ pc = "next" /\ pc' = "whole" /\ present' = present /\ dirKept' = dirKept
        /\ devices' = devices
    BY <1>3 DEF NextEntry, kernelVars, present
  <2>3. Passed = yielded /\ Passed' = yielded /\ Scanning /\ Scanning'
    BY <2>1, <2>2 DEF Passed, Building, Scanning, Stages
  <2> QED
    BY <2>1, <2>2, <2>3 DEF ScanComplete, InHand, StreamClosed, Stages, Paths
<1>4. CASE CheckWhole
  <2>1. pc = "whole" /\ Building /\ cur \in Names
    BY <1>4 DEF CheckWhole, Building, FaithfulInv, TypeOK
  <2>2. cur \in dirKept => (is_whole_disk(cur) <=> cur \notin Partitions)
    BY <2>1, DirContents
       DEF FaithfulInv, TypeOK, ScanComplete, Scanning, Building, is_whole_disk
  <2>3. CASE is_whole_disk(cur) /\ ~is_pseudo_device(cur)
    <3>1. pc' = "size" /\ UNCHANGED <<kernelVars, dirVars, cur, devices>>
      BY <1>4, <2>3 DEF CheckWhole
    <3>2. cur \notin Pseudo /\ (cur \in dirKept => cur \in Eligible)
      BY <2>1, <2>2, <2>3 DEF Pseudo, Eligible
    <3>3. /\ InHand' /\ Scanning /\ Scanning' /\ Passed' = Passed /\ Paths(devices)' = Paths(devices)
          /\ dirKept' = dirKept /\ present' = present /\ yielded' = yielded
      BY <2>1, <3>1, <3>2
         DEF InHand, Scanning, Building, Stages, Passed, Paths, dirVars, kernelVars, present
    <3> QED
      BY <3>3 DEF ScanComplete, StreamClosed
  <2>4. CASE ~(is_whole_disk(cur) /\ ~is_pseudo_device(cur))
    <3>1. pc' = "next" /\ UNCHANGED <<kernelVars, dirVars, devices>>
      BY <1>4, <2>4 DEF CheckWhole, Skip
    <3>2. cur \notin dirKept \/ cur \notin Eligible
      BY <2>2, <2>4 DEF Eligible
    <3> QED
      BY <2>1, <3>1, <3>2, SkipKeepsScan
  <2> QED
    BY <2>3, <2>4
<1>5. CASE ReadSize
  <2>1. pc = "size" /\ Building /\ cur \in Names
    BY <1>5 DEF ReadSize, Building, Stages, FaithfulInv, TypeOK
  <2>2. CASE exists(cur, "size")
    BY <1>5, <2>2, StaysKeepsScan DEF ReadSize, Stays, Stages
  <2>3. CASE ~exists(cur, "size")
    <3>1. pc' = "next" /\ UNCHANGED <<kernelVars, dirVars, devices>>
      BY <1>5, <2>3 DEF ReadSize, Skip
    <3>2. cur \notin dirKept
      BY <2>1, <2>3, DirContents DEF FaithfulInv, TypeOK, ScanComplete, Scanning, Building
    <3> QED
      BY <2>1, <3>1, <3>2, SkipKeepsScan
  <2> QED
    BY <2>2, <2>3
<1>6. ASSUME \/ ReadLogicalBlockSize \/ ReadPhysicalBlockSize \/ ReadRemovable
             \/ ReadReadOnly \/ ReadModel \/ DetectUsb
      PROVE  ScanComplete' /\ InHand' /\ StreamClosed'
  <2>1. Stays
    BY <1>6 DEF ReadLogicalBlockSize, ReadPhysicalBlockSize, ReadRemovable, ReadReadOnly, ReadModel,
                DetectUsb, Local, Stays, Stages
  <2> QED
    BY <2>1, StaysKeepsScan
<1>7. CASE DetectVirtualAndPush
  <2> DEFINE d == Built(detect_virtual(cur))
  <2>1. pc = "virtual" /\ pc' = "next" /\ devices' = devices \cup {d} /\ d.path = cur
        /\ dirKept' = dirKept /\ yielded' = yielded /\ present' = present
    BY <1>7 DEF DetectVirtualAndPush, Built, dirVars, kernelVars, present
  <2> HIDE DEF d
  <2>2. Paths(devices)' = Paths(devices) \cup {cur}
    BY <2>1 DEF Paths
  <2>3. Scanning /\ Scanning' /\ Building /\ Passed = yielded \ {cur} /\ Passed' = yielded
    BY <2>1 DEF Scanning, Building, Stages, Passed
  <2>4. cur \in yielded /\ cur \notin Pseudo /\ (cur \in dirKept => cur \in Eligible)
    BY <2>1, <2>3 DEF FaithfulInv, Books, InHand, Stages
  <2> QED
    BY <2>1, <2>2, <2>3, <2>4 DEF ScanComplete, InHand, StreamClosed, Stages
<1>8. CASE Kernel
  <2>1. UNCHANGED callVars /\ yielded' = yielded
    BY <1>8, KernelActions
  <2>2. \/ present' = present /\ dirKept' = dirKept /\ dirSeen' = dirSeen
        \/ \E n \in Names : /\ present' = present \cup {n} /\ dirKept' = dirKept
                            /\ dirSeen' = IF Scanning THEN dirSeen \cup {n} ELSE dirSeen
        \/ \E n \in Names : /\ present' = present \ {n} /\ dirKept' = dirKept \ {n}
                            /\ dirSeen' = dirSeen
    BY <1>8, KernelPopulation DEF FaithfulInv, TypeOK
  <2>3. dirKept' \subseteq dirKept /\ (dirKept \subseteq present => dirKept' \subseteq present')
        /\ (~Scanning => dirSeen' = dirSeen)
    BY <2>2
  <2>4. Scanning' = Scanning /\ Passed' = Passed /\ Paths(devices)' = Paths(devices)
        /\ pc' = pc /\ cur' = cur
    BY <2>1 DEF callVars, Scanning, Passed, Building, Paths
  <2> QED
    BY <2>1, <2>3, <2>4 DEF ScanComplete, InHand, StreamClosed
<1>9. CASE UNCHANGED vars
  BY <1>9 DEF vars, kernelVars, callVars, dirVars, ScanComplete, InHand, StreamClosed, Scanning,
              Building, Passed, Paths, present
<1> QED
  BY <1>1, <1>2, <1>3, <1>4, <1>5, <1>6, <1>7, <1>8, <1>9 DEF Next, Call, Read

(***************************************************************************)
(* While the directory is read, every eligible disk that stayed and was    *)
(* passed has its Device, and nothing else that stayed has one: skipping   *)
(* or failing on one entry never costs another its place.                  *)
(***************************************************************************)
THEOREM NoDiskIsLost == Spec => []ScanComplete
<1>1. ScanInv => ScanComplete
  BY DEF ScanInv
<1> QED
  BY <1>1, InitScan, NextScan, PTL DEF Spec

-----------------------------------------------------------------------------
(* The refinement.                                                         *)

LEMMA InitCensus == Init => Census!CensusInit
<1> SUFFICES ASSUME Init PROVE Census!CensusInit
  OBVIOUS
<1>1. ~Scanning /\ Paths(Range(listing)) = {}
  BY DEF Init, Scanning, Stages, Paths, Range
<1> QED
  BY <1>1 DEF Init, Census!CensusInit, present

LEMMA StepCensus == ScanInv /\ ScanInv' /\ [Next]_vars => [Census!CensusNext]_(Census!censusVars)
<1> SUFFICES ASSUME ScanInv, ScanInv', [Next]_vars
             PROVE  Census!CensusNext \/ UNCHANGED Census!censusVars
  OBVIOUS
<1> DEFINE answer == Paths(Range(listing))
<1> USE DEF Census!CensusNext
\* What most steps leave alone, and all a stuttering step needs.
<1>0. ASSUME present' = present, Scanning' = Scanning, dirKept' = dirKept, dirSeen' = dirSeen,
             listing' = listing
      PROVE  UNCHANGED Census!censusVars
  BY <1>0 DEF Census!censusVars, Paths, Range
<1>1. CASE ReadMounts
  <2>1. /\ ~Scanning /\ Scanning' = Scanning /\ present' = present
        /\ UNCHANGED <<dirKept, dirSeen>> /\ listing' = <<>>
    BY <1>1 DEF ReadMounts, Scanning, Stages, dirVars, kernelVars, present
  <2>2. Range(<<>>) = {}
    BY DEF Range
  <2>3. answer' = {}
    BY <2>1, <2>2 DEF Paths
  <2> QED
    BY <2>1, <2>3 DEF Census!Drop
<1>2. CASE OpenDir
  <2>1. /\ ~Scanning /\ Scanning' /\ dirKept' = present /\ dirSeen' = present
        /\ present' = present /\ listing' = listing
    BY <1>2 DEF OpenDir, Scanning, Stages, kernelVars, present
  <2>2. answer' = answer
    BY <2>1 DEF Paths, Range
  <2> QED
    BY <2>1, <2>2 DEF Census!Begin
<1>3. CASE ReadDirFails
  <2>1. /\ ~Scanning' /\ dirKept' = {} /\ dirSeen' = {} /\ present' = present
        /\ listing' = listing /\ pc \in {"open", "next"}
    BY <1>3 DEF ReadDirFails, Scanning, Stages, kernelVars, present
  <2>2. listing' = <<>>
    BY <2>1 DEF ScanInv, FaithfulInv, Books, Scanning
  <2>3. Range(<<>>) = {}
    BY DEF Range
  <2>4. answer' = {}
    BY <2>2, <2>3 DEF Paths
  <2> QED
    BY <2>1, <2>4 DEF Census!GiveUp
<1>4. CASE EndOfDir
  <2>1. /\ pc = "next" /\ dirKept \subseteq yielded
        /\ Scanning /\ ~Scanning' /\ dirKept' = {} /\ dirSeen' = {} /\ present' = present
    BY <1>4 DEF EndOfDir, Scanning, Stages, kernelVars, present
  <2>2. Range(listing') = devices
    BY <1>4 DEF EndOfDir, SortedByPath
  <2>3. answer' = Paths(devices)
    <3>1. Range(listing)' = devices
      BY <2>2 DEF Range
    <3> QED
      BY <3>1 DEF Paths
  <2>4. Passed = yielded
    BY <2>1 DEF Passed, Building, Stages
  <2>5. yielded \subseteq dirSeen
    BY DEF ScanInv, FaithfulInv, TypeOK
  <2>6. /\ dirKept \cap Eligible \subseteq Paths(devices)
        /\ Paths(devices) \subseteq dirSeen \ Pseudo
        /\ Paths(devices) \cap dirKept \subseteq Eligible
    BY <2>1, <2>4, <2>5 DEF ScanInv, ScanComplete
  <2> QED
    BY <2>1, <2>3, <2>6 DEF Census!Answer
<1>5. ASSUME \/ NextEntry \/ CheckWhole \/ ReadSize \/ ReadLogicalBlockSize \/ ReadPhysicalBlockSize
             \/ ReadRemovable \/ ReadReadOnly \/ ReadModel \/ DetectUsb \/ DetectVirtualAndPush
      PROVE  UNCHANGED Census!censusVars
  <2>1. UNCHANGED <<kernelVars, dirSeen, dirKept, listing>>
    BY <1>5 DEF NextEntry, CheckWhole, Skip, ReadSize, ReadLogicalBlockSize, ReadPhysicalBlockSize,
                ReadRemovable, ReadReadOnly, ReadModel, DetectUsb, Local, DetectVirtualAndPush,
                dirVars
  <2>2. Scanning /\ Scanning'
    BY <1>5 DEF NextEntry, CheckWhole, Skip, ReadSize, ReadLogicalBlockSize, ReadPhysicalBlockSize,
                ReadRemovable, ReadReadOnly, ReadModel, DetectUsb, Local, DetectVirtualAndPush,
                Scanning, Stages
  <2> QED
    BY <1>0, <2>1, <2>2 DEF kernelVars, present
<1>6. CASE Kernel
  <2>1. UNCHANGED <<pc, listing>>
    BY <1>6, KernelActions DEF callVars
  <2>2. Scanning' = Scanning /\ answer' = answer
    BY <2>1 DEF Scanning, Paths, Range
  <2>3. KernelTypeOK
    BY DEF ScanInv, FaithfulInv, TypeOK
  <2>4. CASE present' = present /\ dirKept' = dirKept /\ dirSeen' = dirSeen
    BY <1>0, <2>1, <2>2, <2>4
  <2>5. ASSUME NEW n \in Names, n \notin present, present' = present \cup {n}, dirKept' = dirKept,
               dirSeen' = IF Scanning THEN dirSeen \cup {n} ELSE dirSeen
        PROVE  Census!Appear(n)
    BY <2>2, <2>5 DEF Census!Appear
  <2>6. ASSUME NEW n \in Names, n \in present, present' = present \ {n}, dirKept' = dirKept \ {n},
               dirSeen' = dirSeen
        PROVE  Census!Vanish(n)
    BY <2>2, <2>6 DEF Census!Vanish
  <2> QED
    BY <1>6, <2>3, <2>4, <2>5, <2>6, KernelPopulation
<1>7. CASE UNCHANGED vars
  BY <1>0, <1>7 DEF vars, kernelVars, callVars, dirVars, present, Scanning
<1> QED
  BY <1>1, <1>2, <1>3, <1>4, <1>5, <1>6, <1>7 DEF Next, Call, Read

(***************************************************************************)
(* enumerate() keeps the promise of a census: from opendir to the end of   *)
(* the directory, the Vec it returns holds every eligible disk that was    *)
(* there throughout, nothing that never was there, and nothing that stayed *)
(* without being a whole disk; an error returns no disk at all.            *)
(***************************************************************************)
THEOREM EnumerateImplementsCensus == Spec => ImplementsCensus
<1> QED
  BY InitScan, NextScan, InitCensus, StepCensus, PTL
     DEF Spec, ImplementsCensus, Census!CensusSpec

-----------------------------------------------------------------------------
(***************************************************************************)
(* devices.sort_by(path), for any finite set of Devices no two of which    *)
(* are of the same node: the Devices up to d in the order are as many as   *)
(* the position of d.                                                      *)
(***************************************************************************)
Distinct(S) == \A d, e \in S : d.path = e.path => d = e
UpTo(d, S) == {e \in S : PathRank[e.path] <= PathRank[d.path]}
Position(d, S) == Cardinality(UpTo(d, S))

LEMMA Ranks ==
  ASSUME NEW S \in SUBSET Device, Distinct(S)
  PROVE  /\ \A d \in S : PathRank[d.path] \in Nat
         /\ \A d, e \in S : PathRank[d.path] = PathRank[e.path] => d = e
BY EnumerateAssumption DEF Device, Distinct

LEMMA Positions ==
  ASSUME NEW S \in SUBSET Device, IsFiniteSet(S), Distinct(S)
  PROVE  /\ \A d \in S : Position(d, S) \in 1 .. Cardinality(S)
         /\ \A d, e \in S : PathRank[d.path] < PathRank[e.path] => Position(d, S) < Position(e, S)
<1>1. ASSUME NEW d \in S
      PROVE  /\ UpTo(d, S) \in SUBSET S /\ d \in UpTo(d, S)
             /\ IsFiniteSet(UpTo(d, S)) /\ Position(d, S) \in 1 .. Cardinality(S)
  <2>1. UpTo(d, S) \in SUBSET S /\ d \in UpTo(d, S)
    BY Ranks DEF UpTo
  <2>2. IsFiniteSet(UpTo(d, S)) /\ Cardinality(UpTo(d, S)) <= Cardinality(S)
    BY <2>1, FS_Subset
  <2>3. Cardinality(UpTo(d, S)) \in Nat /\ Cardinality(S) \in Nat /\ Cardinality(UpTo(d, S)) # 0
    BY <2>1, <2>2, FS_CardinalityType, FS_EmptySet
  <2> QED
    BY <2>1, <2>2, <2>3 DEF Position
<1>2. ASSUME NEW d \in S, NEW e \in S, PathRank[d.path] < PathRank[e.path]
      PROVE  Position(d, S) < Position(e, S)
  <2>1. PathRank[d.path] \in Nat /\ PathRank[e.path] \in Nat
    BY Ranks
  <2>2. UpTo(d, S) \in SUBSET UpTo(e, S)
    <3>1. \A x \in S : PathRank[x.path] \in Nat
      BY Ranks
    <3> QED
      BY <1>2, <2>1, <3>1 DEF UpTo
  <2>3. e \in UpTo(e, S) /\ e \notin UpTo(d, S)
    BY <1>1, <1>2, <2>1 DEF UpTo
  <2>4. IsFiniteSet(UpTo(e, S)) /\ Position(d, S) \in Nat /\ Position(e, S) \in Nat
    BY <1>1
  <2>5. Position(d, S) <= Position(e, S) /\ Position(d, S) # Position(e, S)
    BY <2>2, <2>3, <2>4, FS_Subset DEF Position
  <2> QED
    BY <2>4, <2>5
<1> QED
  BY <1>1, <1>2

\* Every position is taken, and by one Device.
LEMMA PositionsAreTaken ==
  ASSUME NEW S \in SUBSET Device, IsFiniteSet(S), Distinct(S)
  PROVE  /\ \A d, e \in S : Position(d, S) = Position(e, S) => d = e
         /\ \A i \in 1 .. Cardinality(S) : \E d \in S : Position(d, S) = i
<1> DEFINE n == Cardinality(S)
           pos == [d \in S |-> Position(d, S)]
<1>0. n \in Nat
  BY FS_CardinalityType
<1>1. \A d, e \in S : Position(d, S) = Position(e, S) => d = e
  <2> SUFFICES ASSUME NEW d \in S, NEW e \in S, Position(d, S) = Position(e, S), d # e
               PROVE  FALSE
    OBVIOUS
  <2>1. PathRank[d.path] < PathRank[e.path] \/ PathRank[e.path] < PathRank[d.path]
    <3>1. PathRank[d.path] \in Nat /\ PathRank[e.path] \in Nat /\ PathRank[d.path] # PathRank[e.path]
      BY Ranks
    <3> QED
      BY <3>1
  <2>2. Position(d, S) < Position(e, S) \/ Position(e, S) < Position(d, S)
    BY <2>1, Positions
  <2>3. Position(d, S) \in Nat /\ Position(e, S) \in Nat
    BY Positions
  <2> QED
    BY <2>2, <2>3
<1>2. pos \in [S -> 1 .. n]
  BY Positions
<1>3. pos \in Injection(S, 1 .. n)
  BY <1>1, <1>2 DEF Injection, IsInjective
<1>4. IsFiniteSet(1 .. n) /\ Cardinality(1 .. n) = n
  BY <1>0, FS_Interval
<1>5. pos \in Surjection(S, 1 .. n)
  <2> HIDE DEF pos
  <2> QED
    BY <1>3, <1>4, FS_Injection
<1>6. \A i \in 1 .. n : \E d \in S : pos[d] = i
  BY <1>5 DEF Surjection
<1> QED
  BY <1>1, <1>6

\* Sorting always gives a Vec.
LEMMA SortExists ==
  ASSUME NEW S \in SUBSET Device, IsFiniteSet(S), Distinct(S)
  PROVE  \E s \in [1 .. Cardinality(S) -> S] : SortedByPath(s, S)
<1> DEFINE n == Cardinality(S)
           s == [i \in 1 .. n |-> CHOOSE d \in S : Position(d, S) = i]
<1>1. \A i \in 1 .. n : s[i] \in S /\ Position(s[i], S) = i
  BY PositionsAreTaken
<1>2. s \in [1 .. n -> S] /\ DOMAIN s = 1 .. n
  BY <1>1
<1>3. n \in Nat
  BY FS_CardinalityType
<1> HIDE DEF s, n
<1>4. Range(s) = S
  <2>1. \A d \in S : Position(d, S) \in 1 .. n
    BY Positions DEF n
  <2>2. \A d \in S : s[Position(d, S)] = d
    BY <1>1, <2>1, PositionsAreTaken
  <2> QED
    BY <1>2, <2>1, <2>2 DEF Range
<1>5. ASSUME NEW i \in 1 .. n, NEW j \in 1 .. n, i < j
      PROVE  PathRank[s[i].path] < PathRank[s[j].path]
  <2>1. s[i] \in S /\ s[j] \in S /\ Position(s[i], S) = i /\ Position(s[j], S) = j
    BY <1>1
  <2>2. PathRank[s[i].path] \in Nat /\ PathRank[s[j].path] \in Nat
    BY <2>1, Ranks
  <2>3. PathRank[s[i].path] # PathRank[s[j].path]
    BY <1>5, <2>1, Ranks
  <2>4. ~(PathRank[s[j].path] < PathRank[s[i].path])
    BY <1>3, <1>5, <2>1, Positions
  <2> QED
    BY <2>2, <2>3, <2>4
<1> QED
  BY <1>2, <1>4, <1>5 DEF SortedByPath, n

\* And only one: in any sorted Vec, a Device is at its position.
LEMMA SortIsUnique ==
  ASSUME NEW S \in SUBSET Device, IsFiniteSet(S), Distinct(S),
         NEW s \in [1 .. Cardinality(S) -> S], SortedByPath(s, S),
         NEW i \in 1 .. Cardinality(S)
  PROVE  Position(s[i], S) = i
<1> DEFINE n == Cardinality(S)
           first == [j \in 1 .. i |-> s[j]]
<1>1. n \in Nat /\ i \in Nat /\ i <= n /\ DOMAIN s = 1 .. n
  BY FS_CardinalityType
<1>2. \A j \in 1 .. n : s[j] \in S /\ PathRank[s[j].path] \in Nat
  BY Ranks
<1>3. \A j, k \in 1 .. n : j < k => PathRank[s[j].path] < PathRank[s[k].path]
  BY <1>1 DEF SortedByPath
<1>4. \A d \in S : \E j \in 1 .. n : d = s[j]
  BY <1>1 DEF SortedByPath, Range
<1> HIDE DEF n
<1>5. \A j \in 1 .. i : j \in 1 .. n
  BY <1>1
<1>6. first \in [1 .. i -> UpTo(s[i], S)]
  <2>1. ASSUME NEW j \in 1 .. i PROVE s[j] \in UpTo(s[i], S)
    <3>1. j \in 1 .. n /\ i \in 1 .. n /\ (j < i \/ j = i)
      BY <1>1
    <3>2. PathRank[s[j].path] <= PathRank[s[i].path]
      BY <1>2, <1>3, <3>1
    <3> QED
      BY <1>2, <3>1, <3>2 DEF UpTo
  <2> QED
    BY <2>1
<1>7. \A d \in UpTo(s[i], S) : \E j \in 1 .. i : first[j] = d
  <2> SUFFICES ASSUME NEW d \in UpTo(s[i], S) PROVE \E j \in 1 .. i : s[j] = d
    OBVIOUS
  <2>1. PICK j \in 1 .. n : d = s[j]
    BY <1>4 DEF UpTo
  <2>2. i \in 1 .. n /\ PathRank[s[j].path] <= PathRank[s[i].path]
    BY <1>1, <2>1 DEF UpTo
  <2>3. ~(i < j)
    BY <1>2, <1>3, <2>2
  <2>4. j \in 1 .. i
    BY <1>1, <2>3
  <2> QED
    BY <2>1, <2>4
<1>8. \A j, k \in 1 .. i : first[j] = first[k] => j = k
  <2> SUFFICES ASSUME NEW j \in 1 .. i, NEW k \in 1 .. i, s[j] = s[k], j # k PROVE FALSE
    OBVIOUS
  <2>1. j \in 1 .. n /\ k \in 1 .. n /\ (j < k \/ k < j)
    BY <1>5
  <2> QED
    BY <1>2, <1>3, <2>1
<1> HIDE DEF first
<1>9. first \in Bijection(1 .. i, UpTo(s[i], S))
  BY <1>6, <1>7, <1>8 DEF Bijection, Injection, Surjection, IsInjective
<1>10. Cardinality(UpTo(s[i], S)) = i
  BY <1>1, <1>9, FS_CountingElements DEF ExistsBijection
<1> QED
  BY <1>10 DEF Position

LEMMA SortedAlike ==
  ASSUME NEW S \in SUBSET Device, IsFiniteSet(S), Distinct(S),
         NEW s \in [1 .. Cardinality(S) -> S], SortedByPath(s, S),
         NEW t \in [1 .. Cardinality(S) -> S], SortedByPath(t, S)
  PROVE  t = s
<1>1. ASSUME NEW i \in 1 .. Cardinality(S) PROVE t[i] = s[i]
  <2>1. t[i] \in S /\ s[i] \in S
    OBVIOUS
  <2>2. Position(t[i], S) = i /\ Position(s[i], S) = i
    BY SortIsUnique
  <2> QED
    BY <2>1, <2>2, PositionsAreTaken
<1>2. /\ t = [i \in 1 .. Cardinality(S) |-> t[i]]
      /\ s = [i \in 1 .. Cardinality(S) |-> s[i]]
  OBVIOUS
<1>3. [i \in 1 .. Cardinality(S) |-> t[i]] = [i \in 1 .. Cardinality(S) |-> s[i]]
  BY <1>1
<1> QED
  BY <1>2, <1>3

(***************************************************************************)
(* A name is built once in a call: its Device is pushed after read_dir has *)
(* returned it, which happens once, so no two Devices share a path.        *)
(***************************************************************************)
OnePerName == Distinct(devices) /\ (Building => cur \notin Paths(devices))

SortedOnce ==
  \E s \in [1 .. Cardinality(devices) -> devices] :
    /\ SortedByPath(s, devices)
    /\ \A t \in [1 .. Cardinality(devices) -> devices] : SortedByPath(t, devices) => t = s

LEMMA NextOnePerName == FaithfulInv /\ FaithfulInv' /\ OnePerName /\ [Next]_vars => OnePerName'
<1> SUFFICES ASSUME FaithfulInv, FaithfulInv', OnePerName, [Next]_vars PROVE OnePerName'
  OBVIOUS
<1>1. CASE devices' = {}
  BY <1>1 DEF OnePerName, Distinct, Paths
<1>2. CASE UNCHANGED <<devices, cur>> /\ (Building' => Building)
  BY <1>2 DEF OnePerName, Distinct, Paths
<1>3. CASE devices' = devices /\ ~Building'
  BY <1>3 DEF OnePerName, Distinct, Paths
<1>4. CASE ReadMounts \/ ReadDirFails \/ EndOfDir
  BY <1>1, <1>4 DEF ReadMounts, ReadDirFails, EndOfDir
<1>5. CASE OpenDir
  BY <1>3, <1>5 DEF OpenDir, Building, Stages
<1>6. CASE NextEntry
  <2>1. PICK n \in dirSeen \ yielded : cur' = n /\ devices' = devices /\ pc = "next"
    BY <1>6 DEF NextEntry
  <2>2. Paths(devices) \subseteq yielded
    BY <2>1 DEF FaithfulInv, Books, Scanning
  <2> QED
    BY <2>1, <2>2 DEF OnePerName, Distinct, Paths
<1>7. CASE CheckWhole \/ ReadSize
  <2>1. Building
    BY <1>7 DEF CheckWhole, ReadSize, Building, Stages
  <2>2. UNCHANGED <<cur, devices>> \/ (devices' = devices /\ pc' = "next")
    BY <1>7 DEF CheckWhole, ReadSize, Skip
  <2> QED
    BY <1>2, <1>3, <2>1, <2>2 DEF Building, Stages
<1>8. CASE \/ ReadLogicalBlockSize \/ ReadPhysicalBlockSize \/ ReadRemovable
           \/ ReadReadOnly \/ ReadModel \/ DetectUsb
  <2>1. Building /\ UNCHANGED <<cur, devices>>
    BY <1>8 DEF ReadLogicalBlockSize, ReadPhysicalBlockSize, ReadRemovable, ReadReadOnly, ReadModel,
                DetectUsb, Local, Building, Stages
  <2> QED
    BY <1>2, <2>1
<1>9. CASE DetectVirtualAndPush
  <2> DEFINE d == Built(detect_virtual(cur))
  <2>1. pc = "virtual" /\ pc' = "next" /\ devices' = devices \cup {d} /\ d.path = cur
    BY <1>9 DEF DetectVirtualAndPush, Built
  <2> HIDE DEF d
  <2>2. \A e \in devices : e.path # cur
    BY <2>1 DEF OnePerName, Building, Stages, Paths
  <2> QED
    BY <2>1, <2>2 DEF OnePerName, Distinct, Building, Stages
<1>10. CASE Kernel \/ UNCHANGED vars
  <2>1. UNCHANGED callVars
    BY <1>10, KernelActions DEF vars
  <2> QED
    BY <1>2, <2>1 DEF callVars, Building
<1> QED
  BY <1>4, <1>5, <1>6, <1>7, <1>8, <1>9, <1>10 DEF Next, Call, Read

(***************************************************************************)
(* Whatever order the directory has, and whenever its end is reached, the  *)
(* sort has exactly one result: the end of the scan is never a dead end,   *)
(* and the listing is a function of the Devices found.                     *)
(***************************************************************************)
THEOREM ListingIsDetermined == Spec => []SortedOnce
<1>1. Init => OnePerName
  BY DEF Init, OnePerName, Distinct, Building, Stages
<1>2. Spec => []FaithfulInv
  BY InitFaithful, NextFaithful, PTL DEF Spec
<1>3. FaithfulInv /\ OnePerName => SortedOnce
  <2> SUFFICES ASSUME FaithfulInv, OnePerName PROVE SortedOnce
    OBVIOUS
  <2>1. devices \in SUBSET Device /\ IsFiniteSet(devices) /\ Distinct(devices)
    BY DEF FaithfulInv, TypeOK, OnePerName
  <2>2. PICK s \in [1 .. Cardinality(devices) -> devices] : SortedByPath(s, devices)
    BY <2>1, SortExists
  <2>3. ASSUME NEW t \in [1 .. Cardinality(devices) -> devices], SortedByPath(t, devices)
        PROVE  t = s
    BY <2>1, <2>2, <2>3, SortedAlike
  <2> QED
    BY <2>2, <2>3 DEF SortedOnce
<1> QED
  BY <1>1, <1>2, <1>3, NextOnePerName, PTL DEF Spec
-----------------------------------------------------------------------------
(***************************************************************************)
(* The rule for the names of partitions, character by character.  A string *)
(* is the sequence of its characters: Spelled says so of the strings the   *)
(* rule has in it, for any set Char of characters with figures Figure and  *)
(* a letter P.                                                             *)
(***************************************************************************)
Spelled(Char, Figure, P) ==
  /\ Figure \subseteq Char /\ P \in Char \ Figure
  /\ Digit = {c \in Seq(Char) : Len(c) = 1 /\ c[1] \in Figure}
  /\ "p" \in Seq(Char) /\ Len("p") = 1 /\ "p"[1] = P
  /\ "" = <<>>

\* What a partition's name is, character by character.
Extends(d, x, Figure, P) ==
  LET from == IF d[Len(d)] \in Figure THEN Len(d) + 2 ELSE Len(d) + 1
  IN  /\ \A i \in 1 .. Len(d) : x[i] = d[i]
      /\ d[Len(d)] \in Figure => x[Len(d) + 1] = P
      /\ from <= Len(x)
      /\ \A i \in from .. Len(x) : x[i] \in Figure

LEMMA Substring ==
  ASSUME NEW Char, NEW s \in Seq(Char), NEW m \in Nat, m > 0, NEW n \in Nat, n <= Len(s)
  PROVE  /\ SubSeq(s, m, n) \in Seq(Char)
         /\ Len(SubSeq(s, m, n)) = IF m <= n THEN n - m + 1 ELSE 0
         /\ \A i \in Nat : 0 < i /\ m + i - 1 <= n => SubSeq(s, m, n)[i] = s[m + i - 1]
OBVIOUS

LEMMA Prefix ==
  ASSUME NEW Char, NEW s \in Seq(Char), NEW t \in Seq(Char)
  PROVE  IsPrefix(s, t) <=> Len(s) <= Len(t) /\ \A i \in 1 .. Len(s) : t[i] = s[i]
<1>1. Len(s) \in Nat /\ Len(t) \in Nat
  OBVIOUS
<1>2. ASSUME IsPrefix(s, t)
      PROVE  Len(s) <= Len(t) /\ \A i \in 1 .. Len(s) : t[i] = s[i]
  <2>1. Len(s) <= Len(t) /\ SubSeq(s, 1, Len(s)) = SubSeq(t, 1, Len(s))
    BY <1>2 DEF IsPrefix
  <2>2. ASSUME NEW i \in 1 .. Len(s) PROVE t[i] = s[i]
    <3>1. SubSeq(s, 1, Len(s))[i] = s[i] /\ SubSeq(t, 1, Len(s))[i] = t[i]
      BY <1>1, <2>1, Substring
    <3> QED
      BY <2>1, <3>1
  <2> QED
    BY <2>1, <2>2
<1>3. ASSUME Len(s) <= Len(t), \A i \in 1 .. Len(s) : t[i] = s[i]
      PROVE  IsPrefix(s, t)
  <2>1. SubSeq(s, 1, Len(s)) = SubSeq(t, 1, Len(s))
    BY <1>1, <1>3
  <2> QED
    BY <1>3, <2>1 DEF IsPrefix
<1> QED
  BY <1>2, <1>3

LEMMA OneCharacter ==
  ASSUME NEW Char, NEW Figure, NEW P, Spelled(Char, Figure, P),
         NEW s \in Seq(Char), NEW i \in 1 .. Len(s)
  PROVE  CharAt(s, i) \in Digit <=> s[i] \in Figure
<1>1. SubSeq(s, i, i) \in Seq(Char) /\ Len(SubSeq(s, i, i)) = 1 /\ SubSeq(s, i, i)[1] = s[i]
  BY Substring
<1> QED
  BY <1>1 DEF CharAt, Spelled

LEMMA Letters ==
  ASSUME NEW Char, NEW Figure, NEW P, Spelled(Char, Figure, P), NEW s \in Seq(Char)
  PROVE  /\ AllDigits(s) <=> \A i \in 1 .. Len(s) : s[i] \in Figure
         /\ s # <<>> => (EndsInDigit(s) <=> s[Len(s)] \in Figure)
         /\ IsPrefix("p", s) <=> s # <<>> /\ s[1] = P
         /\ s # "" <=> Len(s) > 0
<1>1. Len(s) \in Nat /\ (s # <<>> <=> Len(s) > 0)
  OBVIOUS
<1>2. AllDigits(s) <=> \A i \in 1 .. Len(s) : s[i] \in Figure
  BY OneCharacter DEF AllDigits
<1>3. s # <<>> => (EndsInDigit(s) <=> s[Len(s)] \in Figure)
  BY <1>1, OneCharacter DEF EndsInDigit
<1>4. "p" \in Seq(Char) /\ Len("p") = 1 /\ "p"[1] = P
  BY DEF Spelled
<1>5. IsPrefix("p", s) <=> Len("p") <= Len(s) /\ \A i \in 1 .. Len("p") : s[i] = "p"[i]
  BY <1>4, Prefix
<1>6. IsPrefix("p", s) <=> s # <<>> /\ s[1] = P
  BY <1>1, <1>4, <1>5
<1> QED
  BY <1>1, <1>2, <1>3, <1>6 DEF Spelled

LEMMA Extension ==
  ASSUME NEW Char, NEW Figure, NEW P, Spelled(Char, Figure, P),
         NEW d \in Seq(Char), d # <<>>, NEW x \in Seq(Char)
  PROVE  is_partition_of(d, x) <=> Len(d) <= Len(x) /\ Extends(d, x, Figure, P)
<1> DEFINE n == Len(d)
           rest == After(x, n)
           number == IF EndsInDigit(d) THEN After(rest, 1) ELSE rest
           from == IF d[n] \in Figure THEN n + 2 ELSE n + 1
<1>1. n \in Nat /\ n > 0 /\ Len(x) \in Nat
  OBVIOUS
<1>p. is_partition_of(d, x) <=>
        IsPrefix(d, x) /\ (EndsInDigit(d) => IsPrefix("p", rest)) /\ number # "" /\ AllDigits(number)
  BY DEF is_partition_of
<1>e. Extends(d, x, Figure, P) <=>
        /\ \A i \in 1 .. n : x[i] = d[i]
        /\ d[n] \in Figure => x[n + 1] = P
        /\ from <= Len(x)
        /\ \A i \in from .. Len(x) : x[i] \in Figure
  BY DEF Extends
<1>2. IsPrefix(d, x) <=> n <= Len(x) /\ \A i \in 1 .. n : x[i] = d[i]
  BY Prefix
<1>3. EndsInDigit(d) <=> d[n] \in Figure
  BY Letters
<1>4. CASE ~(n <= Len(x))
  <2> HIDE DEF rest, number, from
  <2> QED
    BY <1>2, <1>4, <1>p
<1>5. CASE n <= Len(x)
  <2>1. /\ rest \in Seq(Char) /\ Len(rest) = Len(x) - n
        /\ \A i \in 1 .. Len(rest) : rest[i] = x[n + i]
    BY <1>1, <1>5 DEF After
  <2>2. CASE d[n] \notin Figure
    <3>1. number = rest
      BY <1>3, <2>2
    <3>2. rest # "" <=> Len(rest) > 0
      <4> HIDE DEF rest
      <4> QED
        BY <2>1, Letters
    <3>3. AllDigits(number) <=> \A i \in 1 .. Len(rest) : x[n + i] \in Figure
      <4>1. AllDigits(rest) <=> \A i \in 1 .. Len(rest) : rest[i] \in Figure
        <5> HIDE DEF rest
        <5> QED
          BY <2>1, Letters
      <4> HIDE DEF rest, number, n
      <4> QED
        BY <2>1, <3>1, <4>1
    <3>4. (\A i \in 1 .. Len(rest) : x[n + i] \in Figure) <=> \A i \in from .. Len(x) : x[i] \in Figure
      <4>1. \A i \in n + 1 .. Len(x) : i - n \in 1 .. Len(rest) /\ n + (i - n) = i
        BY <1>1, <2>1
      <4>2. \A i \in 1 .. Len(rest) : n + i \in n + 1 .. Len(x)
        BY <1>1, <2>1
      <4> HIDE DEF n, rest
      <4> QED
        BY <2>2, <4>1, <4>2
    <3>5. from = n + 1
      BY <2>2
    <3> HIDE DEF rest, number, from
    <3>6. number # "" <=> from <= Len(x)
      <4>1. Len(rest) > 0 <=> from <= Len(x)
        <5> HIDE DEF rest, from
        <5> QED
          BY <1>1, <2>1, <3>5
      <4> HIDE DEF rest, number, from
      <4> QED
        BY <3>1, <3>2, <4>1, Zenon
    <3>7. AllDigits(number) <=> \A i \in from .. Len(x) : x[i] \in Figure
      BY <3>3, <3>4
    <3> QED
      BY <1>2, <1>3, <1>5, <1>p, <1>e, <2>2, <3>6, <3>7
  <2>3. CASE d[n] \in Figure
    <3>1. number = After(rest, 1)
      BY <1>3, <2>3
    <3>2. IsPrefix("p", rest) <=> n + 1 <= Len(x) /\ x[n + 1] = P
      <4>1. IsPrefix("p", rest) <=> rest # <<>> /\ rest[1] = P
        <5> HIDE DEF rest
        <5> QED
          BY <2>1, Letters
      <4> HIDE DEF rest, n
      <4>2. rest # <<>> <=> Len(rest) > 0
        BY <2>1
      <4> QED
        BY <1>1, <1>5, <2>1, <4>1, <4>2
    <3>3. CASE n + 1 <= Len(x)
      <4>1. /\ number \in Seq(Char) /\ Len(number) = Len(x) - n - 1
            /\ \A i \in 1 .. Len(number) : number[i] = x[n + 1 + i]
        <5> HIDE DEF rest
        <5> QED
          BY <1>1, <2>1, <3>1, <3>3 DEF After
      <4>2. number # "" <=> Len(number) > 0
        <5> HIDE DEF number
        <5> QED
          BY <4>1, Letters
      <4>3. AllDigits(number) <=> \A i \in 1 .. Len(number) : x[n + 1 + i] \in Figure
        <5>1. AllDigits(number) <=> \A i \in 1 .. Len(number) : number[i] \in Figure
          <6> HIDE DEF number
          <6> QED
            BY <4>1, Letters
        <5> HIDE DEF number, n
        <5> QED
          BY <4>1, <5>1
      <4>4. (\A i \in 1 .. Len(number) : x[n + 1 + i] \in Figure)
              <=> \A i \in from .. Len(x) : x[i] \in Figure
        <5>1. \A i \in n + 2 .. Len(x) : i - n - 1 \in 1 .. Len(number) /\ n + 1 + (i - n - 1) = i
          BY <1>1, <4>1
        <5>2. \A i \in 1 .. Len(number) : n + 1 + i \in n + 2 .. Len(x)
          BY <1>1, <4>1
        <5> HIDE DEF n, number
        <5> QED
          BY <2>3, <5>1, <5>2
      <4>5. from = n + 2
        BY <2>3
      <4> HIDE DEF rest, number, from
      <4>6. number # "" <=> from <= Len(x)
        <5>1. Len(number) > 0 <=> from <= Len(x)
          BY <1>1, <3>3, <4>1, <4>5
        <5> QED
          BY <4>2, <5>1, Zenon
      <4>7. AllDigits(number) <=> \A i \in from .. Len(x) : x[i] \in Figure
        BY <4>3, <4>4
      <4>8. IsPrefix("p", rest) <=> x[n + 1] = P
        BY <3>2, <3>3
      <4> QED
        BY <1>2, <1>3, <1>5, <1>p, <1>e, <2>3, <4>6, <4>7, <4>8
    <3>4. CASE ~(n + 1 <= Len(x))
      <4>1. from = n + 2
        BY <2>3
      <4>2. ~IsPrefix("p", rest) /\ ~(from <= Len(x))
        BY <1>1, <3>2, <3>4, <4>1
      <4> HIDE DEF rest, number, from
      <4> QED
        BY <4>2, <1>3, <1>p, <1>e, <2>3
    <3> QED
      BY <3>3, <3>4
  <2> QED
    BY <2>2, <2>3
<1> QED
  BY <1>4, <1>5

\* The shorter of two owners, when one name extends both.
LEMMA TwoOwners ==
  ASSUME NEW Char, NEW Figure, NEW P, Spelled(Char, Figure, P),
         NEW d \in Seq(Char), d # <<>>, NEW e \in Seq(Char), e # <<>>, NEW x \in Seq(Char),
         is_partition_of(d, x), is_partition_of(e, x), Len(d) <= Len(e)
  PROVE  e = d \/ e = d \o "p"
<1> DEFINE n == Len(d)
           m == Len(e)
<1>1. n \in Nat /\ n > 0 /\ m \in Nat /\ Len(x) \in Nat /\ n <= m /\ m <= Len(x)
  BY Extension
<1>2. Extends(d, x, Figure, P) /\ Extends(e, x, Figure, P)
  BY Extension
<1>3. P \notin Figure /\ "p" \in Seq(Char) /\ Len("p") = 1 /\ "p"[1] = P
  BY DEF Spelled
<1>4. /\ \A i \in 1 .. n : x[i] = d[i]
      /\ \A i \in 1 .. m : x[i] = e[i]
  BY <1>2 DEF Extends
<1>5. \A i \in 1 .. n : e[i] = d[i]
  <2>1. \A i \in 1 .. n : i \in 1 .. m
    BY <1>1
  <2> HIDE DEF n, m
  <2> QED
    BY <1>4, <2>1
<1>6. x[m] = e[m]
  <2> HIDE DEF m
  <2> QED
    BY <1>1, <1>4
<1>7. CASE n = m
  <2>1. Len(e) = Len(d) /\ \A i \in 1 .. Len(d) : e[i] = d[i]
    BY <1>5, <1>7
  <2> QED
    BY <2>1
<1>8. CASE n < m /\ d[n] \notin Figure
  <2>1. \A i \in n + 1 .. Len(x) : x[i] \in Figure
    BY <1>2, <1>8 DEF Extends
  <2>2. e[m] \in Figure
    BY <1>1, <1>6, <1>8, <2>1
  <2>3. x[m + 1] = P /\ m + 2 <= Len(x)
    BY <1>2, <2>2 DEF Extends
  <2>4. m + 1 \in n + 1 .. Len(x)
    BY <1>1, <1>8, <2>3
  <2> QED
    BY <1>3, <2>1, <2>3, <2>4
<1>9. CASE n + 1 < m /\ d[n] \in Figure
  <2>1. \A i \in n + 2 .. Len(x) : x[i] \in Figure
    BY <1>2, <1>9 DEF Extends
  <2>2. m \in n + 2 .. Len(x)
    BY <1>1, <1>9
  <2>3. e[m] \in Figure
    <3> HIDE DEF m, n
    <3> QED
      BY <1>6, <2>1, <2>2
  <2>4. x[m + 1] = P /\ m + 2 <= Len(x)
    BY <1>2, <2>3 DEF Extends
  <2>5. m + 1 \in n + 2 .. Len(x)
    BY <1>1, <1>9, <2>4
  <2> QED
    BY <1>3, <2>1, <2>4, <2>5
<1>10. CASE n + 1 = m /\ d[n] \in Figure
  <2>1. e[m] = P
    <3>1. x[n + 1] = P
      BY <1>2, <1>10 DEF Extends
    <3> QED
      BY <1>6, <1>10, <3>1
  <2>2. /\ d \o "p" \in Seq(Char) /\ Len(d \o "p") = n + 1
        /\ \A i \in 1 .. n : (d \o "p")[i] = d[i]
        /\ (d \o "p")[n + 1] = "p"[1]
    <3> DEFINE c == d \o "p"
    <3>1. /\ c \in Seq(Char) /\ Len(c) = Len(d) + Len("p")
          /\ \A i \in 1 .. Len(d) + Len("p") :
                c[i] = IF i <= Len(d) THEN d[i] ELSE "p"[i - Len(d)]
      BY <1>3, ConcatProperties
    <3> HIDE DEF c
    <3> QED
      BY <1>1, <1>3, <3>1 DEF c
  <2>3. \A i \in 1 .. m : e[i] = (d \o "p")[i]
    <3>1. \A i \in 1 .. m : i \in 1 .. n \/ i = n + 1
      BY <1>1, <1>10
    <3> HIDE DEF n, m
    <3> QED
      BY <1>3, <1>5, <1>10, <2>1, <2>2, <3>1
  <2>4. ASSUME NEW s \in Seq(Char), NEW t \in Seq(Char), Len(s) = Len(t),
               \A i \in 1 .. Len(s) : s[i] = t[i]
        PROVE  s = t
    BY <2>4
  <2> QED
    BY <1>10, <2>2, <2>3, <2>4
<1> QED
  BY <1>1, <1>7, <1>8, <1>9, <1>10

(***************************************************************************)
(* The test mounts_for makes of a row.  A row counts for one disk at most: *)
(* neither a longer number (nvme0n1 and nvme0n12) nor a longer name (sda   *)
(* and sdaa) lets a disk claim what is another's.  Only a disk whose name  *)
(* is the other's followed by "p" would, and the kernel names none so.     *)
(***************************************************************************)
Counted(d, x) == x = d \/ is_partition_of(d, x)

THEOREM OneDiskPerMount ==
  ASSUME NEW Char, NEW Figure, NEW P, Spelled(Char, Figure, P),
         NEW d \in Seq(Char) \ {<<>>}, NEW e \in Seq(Char) \ {<<>>}, NEW x \in Seq(Char),
         d # e \o "p", e # d \o "p", ~is_partition_of(d, e), ~is_partition_of(e, d),
         Counted(d, x), Counted(e, x)
  PROVE  d = e
<1>1. CASE x = d \/ x = e
  BY <1>1 DEF Counted
<1>2. CASE is_partition_of(d, x) /\ is_partition_of(e, x)
  <2>1. Len(d) <= Len(e) \/ Len(e) <= Len(d)
    OBVIOUS
  <2> QED
    BY <1>2, <2>1, TwoOwners
<1> QED
  BY <1>1, <1>2 DEF Counted
=============================================================================
