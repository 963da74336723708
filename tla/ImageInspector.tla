---------------------------- MODULE ImageInspector ----------------------------
(***************************************************************************)
(* A caller of core/src/detect, as its documentation asks it to behave: it *)
(* reads the head of an image piece by piece and inspects what it has.  A  *)
(* compressed image is unwrapped, and the inner one inspected in its turn. *)
(*                                                                         *)
(* The tree is asked with a head of any length: a file may be shorter than *)
(* the windows, and a read from a pipe or a decompressor may stop anywhere.*)
(***************************************************************************)
EXTENDS DetectTree, Sequences

CONSTANTS
  Files,    \* sequences of images: a file, and what each compressed layer holds
  Labels,   \* the name_and_labels
  Lengths   \* the lengths of head a read may stop at

\* "How much of an image head the tree needs", 40 KiB; as the length that a caller
\* reads it would be a bug, since sixteen descriptors reach to byte 65536.
HEAD_LEN == 40 * 1024

\* What a caller is asked to read.
DETECTION_HEAD_LEN == 64 * 1024

ASSUME FilesAssumption ==
  /\ \A f \in Files : f \in Seq(Image) /\ f # <<>>
  /\ Labels \subseteq SUBSET VendorWord
  /\ Lengths \subseteq Nat

VARIABLES
  layers,   \* the image being inspected, then the ones inside it
  label,    \* its name_and_label
  len,      \* how much of its head was read
  verdict   \* inspect() of that head

inspectorVars == <<layers, label, len, verdict>>

image == Head(layers)
HeadOf(img, n) == [img |-> img, len |-> n]

\* How much of an image can be read at most.
Least(m, n) == IF m <= n THEN m ELSE n

Init ==
  /\ layers \in Files
  /\ label \in Labels
  /\ len = 0
  /\ verdict = inspect(HeadOf(image, 0), label)

ReadMore ==
  /\ \E n \in Lengths : len < Least(n, image.size) /\ len' = Least(n, image.size)
  /\ verdict' = inspect(HeadOf(image, len'), label)
  /\ UNCHANGED <<layers, label>>

\* Compression::is_streamable: a 7z archive cannot be read as a stream.
is_streamable(c) == c # "SevenZip"

\* A bug: the inner image is taken to be read as far as the wrapper was.
Unwrap_KeepsLen ==
  /\ verdict.kind.tag = "Compressed"
  /\ is_streamable(verdict.kind.compression)
  /\ Len(layers) > 1
  /\ layers' = Tail(layers)
  /\ verdict' = inspect(HeadOf(Head(layers'), 0), label)
  /\ UNCHANGED <<label, len>>

Unwrap ==
  /\ verdict.kind.tag = "Compressed"
  /\ is_streamable(verdict.kind.compression)
  /\ Len(layers) > 1
  /\ layers' = Tail(layers)
  /\ len' = 0
  /\ verdict' = inspect(HeadOf(Head(layers'), 0), label)
  /\ UNCHANGED label

Next == ReadMore \/ Unwrap

Spec == Init /\ [][Next]_inspectorVars

-----------------------------------------------------------------------------
(* Properties.                                                             *)

\* Every variable has its type; the verdict is always that of the head read so far.
TypeOK ==
  /\ layers \in Seq(Image) /\ layers # <<>>
  /\ label \subseteq VendorWord
  /\ len \in 0 .. image.size
  /\ verdict \in Verdict /\ verdict = inspect(HeadOf(image, len), label)

(***************************************************************************)
(* Reading on can only put a more specific signature in front of a less    *)
(* specific one: no probe that answered yes is lost, or overruled by one   *)
(* further down the tree.                                                  *)
(***************************************************************************)
Rank(kind) ==
  CASE kind.tag = "Unknown" -> 0
    [] kind.tag = "BareFilesystem" -> IF kind.hint = "Ext" THEN 1 ELSE IF kind.hint = "Fat" THEN 2 ELSE 3
    [] kind.tag = "DiskImage" -> IF kind.gpt THEN 5 ELSE 4
    [] kind.tag = "Wim" -> 6
    [] kind.tag = "Iso" -> 7
    [] kind.tag = "Compressed" -> 8

SameImage == layers' = layers

KindsOnlyRise == [][SameImage => Rank(verdict.kind) <= Rank(verdict'.kind)]_inspectorVars

(***************************************************************************)
(* What a caller was told it may do stays true when it reads on, with one  *)
(* exception.  An image with a partition table stays writable whatever     *)
(* optical file system turns up behind the table; only a bare boot sector  *)
(* or superblock may turn out to be the system area of an ISO without a    *)
(* partition table, and then the warning comes with it.                    *)
(***************************************************************************)
PermissionIsKept ==
  [][SameImage /\ is_dd_writable(verdict) /\ ~is_dd_writable(verdict') =>
       /\ verdict.kind.tag = "BareFilesystem"
       /\ verdict'.kind.tag = "Iso" /\ verdict'.bsd_warning # "None"]_inspectorVars

(***************************************************************************)
(* The hybrid branch looks at the first 4 KiB only, and an ISO is found    *)
(* 32 KiB further on: an ISO is never announced as optical-only, and its   *)
(* user warned, because its partition table was not yet read.              *)
(***************************************************************************)
HybridIsFinal ==
  [][SameImage /\ verdict.kind.tag = "Iso" =>
       verdict'.kind.hybrid = verdict.kind.hybrid]_inspectorVars

\* An ISO is written raw or warned about, never both, and nothing else is warned about.
WarnedOrWritable ==
  /\ verdict.kind.tag = "Iso" => (is_dd_writable(verdict) <=> verdict.bsd_warning = "None")
  /\ verdict.bsd_warning # "None" => verdict.kind.tag = "Iso"

\* A head of DETECTION_HEAD_LEN bytes settles the verdict, however long the image is.
SettledBy(n) == len >= n => verdict = inspect(HeadOf(image, image.size), label)

SettledAtDetectionHead == SettledBy(DETECTION_HEAD_LEN)
=============================================================================
