------------------------------ MODULE WriteGuard ------------------------------
(***************************************************************************)
(* The write-safety guard of core/src/device/safety.rs.                    *)
(*                                                                         *)
(* A path is the sequence of its components, the first of which is "/" in  *)
(* an absolute one, so Path::starts_with is the prefix order.  A file      *)
(* system fs maps every path that exists, as the process may spell it, to  *)
(* its canonical path.                                                     *)
(***************************************************************************)
EXTENDS SequencesExt

Root == <<"/">>

\* fs::canonicalize(p).unwrap_or(p)
canonicalize(fs, p) == IF p \in DOMAIN fs THEN fs[p] ELSE p

starts_with(p, base) == IsPrefix(base, p)

\* A bug: the image path is compared as the user spelt it.
is_source_drive_AsGiven(device, image, fs) ==
  \E mp \in device.mountpoints : mp # Root /\ starts_with(image, canonicalize(fs, mp))

\* A bug: the root mount counts like any other.
is_source_drive_RootToo(device, image, fs) ==
  \E mp \in device.mountpoints : starts_with(canonicalize(fs, image), canonicalize(fs, mp))

is_source_drive(device, image, fs) ==
  \E mp \in device.mountpoints :
    /\ mp # Root
    /\ starts_with(canonicalize(fs, image), canonicalize(fs, mp))

\* A bug: the cheap size test is done before the file system is consulted.
check_write_allowed_SizeFirst(device, image, image_size, force, fs) ==
  IF device.is_read_only THEN "ReadOnly"
  ELSE IF device.size < image_size THEN "TooSmall"
  ELSE IF is_source_drive(device, image, fs) THEN "SourceOnTarget"
  ELSE IF device.is_system /\ ~force THEN "SystemDrive"
  ELSE "Ok"

\* A bug: force waives every refusal that is about what would be lost.
check_write_allowed_ForceWaives(device, image, image_size, force, fs) ==
  IF device.is_read_only THEN "ReadOnly"
  ELSE IF is_source_drive(device, image, fs) /\ ~force THEN "SourceOnTarget"
  ELSE IF device.size < image_size THEN "TooSmall"
  ELSE IF device.is_system /\ ~force THEN "SystemDrive"
  ELSE "Ok"

\* The first test that fails names the refusal.
check_write_allowed(device, image, image_size, force, fs) ==
  IF device.is_read_only THEN "ReadOnly"
  ELSE IF is_source_drive(device, image, fs) THEN "SourceOnTarget"
  ELSE IF device.size < image_size THEN "TooSmall"
  ELSE IF device.is_system /\ ~force THEN "SystemDrive"
  ELSE "Ok"

WriteRefusal == {"ReadOnly", "SourceOnTarget", "TooSmall", "SystemDrive"}

\* A bug: a write-protected disk is suggested as a target.
is_safe_default_target_Locked(device) ==
  device.is_usb /\ device.is_removable /\ ~device.is_system

is_safe_default_target(device) ==
  device.is_usb /\ device.is_removable /\ ~device.is_system /\ ~device.is_read_only
=============================================================================
