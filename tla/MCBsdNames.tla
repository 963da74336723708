----------------------------- MODULE MCBsdNames -----------------------------
(***************************************************************************)
(* Names put together from the pieces that matter to the search: tokens,   *)
(* halves of one, digits, a character of two bytes, vendor words.          *)
(***************************************************************************)
EXTENDS BsdNames

eAcute == <<195, 169>>
Upper(w) == [i \in DOMAIN w |-> w[i] - 32]

\* Pieces a search for a token can go wrong on, and words that end it.
ScanPieces == {cd, install, Upper(cd), SubSeq(cd, 1, 1), <<55>>, eAcute, <<47>>}
WordPieces == {netbsd, Upper(openbsd), freebsd, dfly, dragonfly}
Pieces == ScanPieces \cup WordPieces

\* Names of up to four pieces, and of two that may be words.
Short(P) == P \cup {<<>>}
MCLabels ==
  {a \o b \o c \o d : a, b, c, d \in Short(ScanPieces)} \cup {a \o b : a, b \in Pieces}
=============================================================================
