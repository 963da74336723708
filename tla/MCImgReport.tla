----------------------------- MODULE MCImgReport -----------------------------
(***************************************************************************)
(* Any three facts, with more large files than the nibble can count.       *)
(***************************************************************************)
EXTENDS ImgReport
=============================================================================
