--------------------------- MODULE MountTable_proofs ---------------------------
(***************************************************************************)
(* For every mount point: the decoder of linux.rs is never out of step     *)
(* with the kernel's printing, and a mount point without a blank that only *)
(* Unicode counts as one is read back whole.                               *)
(***************************************************************************)
EXTENDS MountTable, TLAPS, SequenceTheorems

(***************************************************************************)
(* What the kernel prints for an escaped character is a backslash and the  *)
(* three octal digits of the character, none of which is a blank.          *)
(***************************************************************************)
LEMMA MangleEscaped ==
  ASSUME NEW c \in Escaped
  PROVE  /\ mangle(c) \in Seq(Nat)
         /\ Len(mangle(c)) = 4
         /\ mangle(c)[1] = Backslash
         /\ \A k \in 2 .. 4 : mangle(c)[k] \in OctalDigit
         /\ OctalValue(<<mangle(c)[2], mangle(c)[3], mangle(c)[4]>>) = c
         /\ \A k \in 1 .. 4 : mangle(c)[k] \notin White
<1> DEFINE a == c \div 64
           b == (c \div 8) % 8
           d == c % 8
<1>1. c \in Nat /\ c <= 255
  BY DEF Escaped, Backslash
<1>2. a \in 0 .. 3 /\ b \in 0 .. 7 /\ d \in 0 .. 7 /\ 64 * a + 8 * b + d = c
  <2>1. CASE c = 9
    BY <2>1
  <2>2. CASE c = 10
    BY <2>2
  <2>3. CASE c = 32
    BY <2>3
  <2>4. CASE c = Backslash
    BY <2>4 DEF Backslash
  <2> QED
    BY <2>1, <2>2, <2>3, <2>4 DEF Escaped
<1>3. mangle(c) = <<Backslash, Digit(a), Digit(b), Digit(d)>>
  BY DEF mangle
<1> HIDE DEF a, b, d
<1>4. Digit(a) \in OctalDigit /\ Digit(b) \in OctalDigit /\ Digit(d) \in OctalDigit
  BY <1>2 DEF Digit, OctalDigit
<1>5. OctalValue(<<Digit(a), Digit(b), Digit(d)>>) = c
  BY <1>2 DEF OctalValue, Digit
<1>6. \A n \in OctalDigit : n \in Nat /\ n \notin White
  BY DEF OctalDigit, White
<1>7. Backslash \in Nat /\ Backslash \notin White
  BY DEF Backslash, White
<1> QED
  BY <1>3, <1>4, <1>5, <1>6, <1>7

-----------------------------------------------------------------------------
(* The inductive invariant.                                                *)

\* The characters of path that were printed are found in field at their places.
Printing ==
  /\ Len(at) \in 1 .. Len(path) + 1
  /\ at[1] = 1 /\ at[Len(at)] = Len(field) + 1
  /\ \A j, l \in 1 .. Len(at) : j < l => at[j] < at[l]
  /\ pc # "print" => Len(at) = Len(path) + 1

Places ==
  \A j \in 1 .. Len(at) - 1 :
    IF path[j] \in Escaped
      THEN /\ at[j + 1] = at[j] + 4
           /\ \A m \in 1 .. 4 : field[at[j] + m - 1] = mangle(path[j])[m]
      ELSE /\ at[j + 1] = at[j] + 1
           /\ field[at[j]] = path[j]

\* Up to the first backslash of field, if there is one, nothing was escaped.
Unescaped ==
  /\ (\A q \in 1 .. Len(field) : field[q] # Backslash) => Len(at) = Len(field) + 1
  /\ \A p \in 1 .. Len(field) :
       (\A q \in 1 .. p : field[q] # Backslash) => p <= Len(path) /\ field[p] = path[p]

\* A blank in field is one of path's own, since no escape has one.
Blanks == NoBlank => \A p \in 1 .. Len(field) : field[p] \notin White

\* mnt is the column that begins field.
Cut ==
  /\ Len(mnt) <= Len(field)
  /\ \A p \in 1 .. Len(mnt) : mnt[p] = field[p] /\ mnt[p] \notin White
  /\ pc \in {"unescape", "done"} /\ Len(mnt) < Len(field) => field[Len(mnt) + 1] \in White

\* The decoder stands where the next character of path begins.
InStep == pc = "unescape" => Len(out) + 1 \in 1 .. Len(at) /\ i = at[Len(out) + 1]

RowInv ==
  TypeOK /\ Printing /\ Places /\ Unescaped /\ Blanks /\ Cut /\ InStep /\ NeverOutOfStep /\ RoundTrip

LEMMA InitRow == Init => RowInv
<1> SUFFICES ASSUME Init PROVE RowInv
  OBVIOUS
<1>1. path \in Seq(Nat) /\ path # <<>> /\ Len(path) \in Nat
  BY PathsAssumption DEF Init
<1>2. Len(at) = 1 /\ at[1] = 1 /\ Len(field) = 0 /\ Len(mnt) = 0 /\ Len(out) = 0
  BY DEF Init
<1>3. TypeOK
  BY <1>1, <1>2 DEF Init, TypeOK
<1> QED
  BY <1>1, <1>2, <1>3
     DEF Init, RowInv, Printing, Places, Unescaped, Blanks, Cut, InStep, NeverOutOfStep, RoundTrip

\* What the kernel appends, and where.
LEMMA Mangled ==
  ASSUME NEW c \in Nat
  PROVE  /\ mangle(c) \in Seq(Nat)
         /\ Len(mangle(c)) = IF c \in Escaped THEN 4 ELSE 1
         /\ c \notin Escaped => mangle(c)[1] = c
<1>1. CASE c \in Escaped
  BY <1>1, MangleEscaped
<1>2. CASE c \notin Escaped
  BY <1>2 DEF mangle
<1> QED
  BY <1>1, <1>2

LEMMA PrintKeeps == RowInv /\ PrintChar => RowInv'
<1> SUFFICES ASSUME RowInv, PrintChar PROVE RowInv'
  OBVIOUS
<1> DEFINE n == Len(at)
           f == Len(field)
           c == path[n]
           w == Len(mangle(c))
<1>1. path \in Seq(Nat) /\ field \in Seq(Nat) /\ at \in Seq(Nat)
  BY PathsAssumption DEF RowInv, TypeOK
<1>2. n \in Nat /\ n >= 1 /\ n <= Len(path) /\ Len(path) \in Nat /\ f \in Nat
  BY <1>1, LenProperties DEF RowInv, Printing, PrintChar
<1>3. c \in Nat /\ \A j \in 1 .. n : at[j] \in Nat
  BY <1>1, <1>2, ElementOfSeq
<1>4. field' = field \o mangle(c) /\ at' = Append(at, Len(field') + 1)
      /\ UNCHANGED <<path, pc, mnt, i, out>> /\ pc = "print"
  BY DEF PrintChar
<1>5. mangle(c) \in Seq(Nat) /\ w = IF c \in Escaped THEN 4 ELSE 1
  BY <1>3, Mangled
<1>6. /\ field' \in Seq(Nat) /\ Len(field') = f + w
      /\ \A p \in 1 .. f : field'[p] = field[p]
      /\ \A m \in 1 .. w : field'[f + m] = mangle(c)[m]
  <2>1. /\ field' \in Seq(Nat) /\ Len(field') = f + w
        /\ \A p \in 1 .. f + w : field'[p] = IF p <= f THEN field[p] ELSE mangle(c)[p - f]
    BY <1>1, <1>4, <1>5, ConcatProperties
  <2> HIDE DEF f, w, c
  <2>2. w \in Nat
    BY <1>5
  <2>3. \A m \in 1 .. w : f + m \in 1 .. f + w /\ ~(f + m <= f) /\ (f + m) - f = m
    BY <1>2, <2>2
  <2>4. \A p \in 1 .. f : p \in 1 .. f + w /\ p <= f
    BY <1>2, <2>2
  <2> QED
    BY <2>1, <2>3, <2>4
<1>7. /\ at' \in Seq(Nat) /\ Len(at') = n + 1
      /\ \A j \in 1 .. n : at'[j] = at[j]
      /\ at'[n + 1] = f + w + 1
  BY <1>1, <1>2, <1>4, <1>5, <1>6, AppendProperties
<1>8. /\ at[1] = 1 /\ at[n] = f + 1
      /\ \A j, l \in 1 .. n : j < l => at[j] < at[l]
  BY DEF RowInv, Printing
<1>9. n = Len(at) /\ f = Len(field) /\ c = path[n]
  OBVIOUS
<1> HIDE DEF n, f, c, w
<1>10. w \in {1, 4}
  BY <1>5
<1>11. TypeOK'
  BY <1>4, <1>6, <1>7 DEF RowInv, TypeOK
<1>12. Printing'
  <2>1. \A j \in 1 .. n : at[j] <= f + 1
    <3> SUFFICES ASSUME NEW j \in 1 .. n PROVE at[j] <= f + 1
      OBVIOUS
    <3>1. CASE j = n
      BY <1>2, <1>8, <3>1
    <3>2. CASE j < n
      <4>1. at[j] < at[n] /\ at[j] \in Nat
        BY <1>2, <1>3, <1>8, <3>2
      <4> QED
        BY <1>2, <1>8, <4>1
    <3> QED
      BY <1>2, <3>1, <3>2
  <2>2. ASSUME NEW j \in 1 .. n + 1, NEW l \in 1 .. n + 1, j < l
        PROVE  at'[j] < at'[l]
    <3>1. j \in 1 .. n /\ at'[j] = at[j] /\ at[j] \in Nat
      BY <1>2, <1>3, <1>7, <2>2
    <3>2. CASE l \in 1 .. n
      BY <1>7, <1>8, <2>2, <3>1, <3>2
    <3>3. CASE l = n + 1
      BY <1>2, <1>7, <1>10, <2>1, <3>1, <3>3
    <3> QED
      BY <1>2, <3>2, <3>3
  <2>3. Len(at') \in 1 .. Len(path) + 1 /\ at'[1] = 1 /\ at'[Len(at')] = Len(field') + 1
    BY <1>2, <1>6, <1>7, <1>8
  <2> QED
    BY <1>4, <1>7, <2>2, <2>3 DEF Printing
<1>13. Places'
  <2>1. ASSUME NEW j \in 1 .. n - 1
        PROVE  IF path[j] \in Escaped
                 THEN /\ at'[j + 1] = at'[j] + 4
                      /\ \A m \in 1 .. 4 : field'[at'[j] + m - 1] = mangle(path[j])[m]
                 ELSE /\ at'[j + 1] = at'[j] + 1
                      /\ field'[at'[j]] = path[j]
    <3>1. j \in 1 .. n /\ j + 1 \in 1 .. n /\ (j + 1 < n \/ j + 1 = n)
      BY <1>2
    <3>2. at[j] \in Nat /\ at[j + 1] \in Nat /\ at[j + 1] <= f + 1
      <4>1. n \in 1 .. n
        BY <1>2
      <4>2. at[j + 1] < at[n] \/ at[j + 1] = at[n]
        BY <1>8, <3>1, <4>1
      <4> QED
        BY <1>2, <1>3, <1>8, <3>1, <4>2
    <3>3. at[j] >= 1
      <4>1. 1 \in 1 .. n /\ (j = 1 \/ 1 < j)
        BY <1>2
      <4> QED
        BY <1>8, <3>1, <3>2, <4>1
    <3>4. at'[j] = at[j] /\ at'[j + 1] = at[j + 1]
      BY <1>7, <3>1
    <3>5. CASE path[j] \in Escaped
      <4>1. at[j + 1] = at[j] + 4 /\ \A m \in 1 .. 4 : field[at[j] + m - 1] = mangle(path[j])[m]
        BY <1>9, <3>5 DEF RowInv, Places
      <4>2. at[j] + 4 <= f + 1
        BY <3>2, <4>1
      <4>3. \A m \in 1 .. 4 : at[j] + m - 1 \in 1 .. f
        BY <1>2, <3>2, <3>3, <4>2
      <4> QED
        BY <1>6, <3>4, <3>5, <4>1, <4>3
    <3>6. CASE path[j] \notin Escaped
      <4>1. at[j + 1] = at[j] + 1 /\ field[at[j]] = path[j]
        BY <1>9, <3>6 DEF RowInv, Places
      <4>2. at[j] \in 1 .. f
        BY <1>2, <3>2, <3>3, <4>1
      <4> QED
        BY <1>6, <3>4, <3>6, <4>1, <4>2
    <3> QED
      BY <3>5, <3>6
  <2>2. IF path[n] \in Escaped
          THEN /\ at'[n + 1] = at'[n] + 4
               /\ \A m \in 1 .. 4 : field'[at'[n] + m - 1] = mangle(path[n])[m]
          ELSE /\ at'[n + 1] = at'[n] + 1
               /\ field'[at'[n]] = path[n]
    <3>1. at'[n] = f + 1 /\ at'[n + 1] = f + w + 1
      BY <1>2, <1>7, <1>8
    <3>2. CASE c \in Escaped
      <4>1. w = 4 /\ at'[n + 1] = at'[n] + 4
        BY <1>2, <1>5, <3>1, <3>2
      <4>2. \A m \in 1 .. 4 : at'[n] + m - 1 = f + m
        BY <1>2, <3>1
      <4> QED
        BY <1>6, <1>9, <3>2, <4>1, <4>2
    <3>3. CASE c \notin Escaped
      <4>1. w = 1 /\ at'[n + 1] = at'[n] + 1 /\ mangle(c)[1] = c
        BY <1>2, <1>3, <1>5, <3>1, <3>3, Mangled
      <4>2. field'[f + 1] = c
        BY <1>6, <4>1
      <4> QED
        BY <1>9, <3>1, <3>3, <4>1, <4>2
    <3> QED
      BY <1>9, <3>2, <3>3
  <2>3. \A j \in 1 .. Len(at') - 1 : j \in 1 .. n - 1 \/ j = n
    BY <1>2, <1>7
  <2>4. path' = path
    BY <1>4
  <2> QED
    BY <2>1, <2>2, <2>3, <2>4 DEF Places
<1>14. Unescaped'
  <2>1. ASSUME field'[f + 1] # Backslash
        PROVE  w = 1 /\ field'[f + 1] = c
    <3>1. 1 \in 1 .. w
      BY <1>10
    <3>2. field'[f + 1] = mangle(c)[1]
      BY <1>6, <3>1
    <3>3. c \notin Escaped
      BY <2>1, <3>2, MangleEscaped
    <3> QED
      BY <1>3, <1>5, <3>2, <3>3, Mangled
  <2>2. \A q \in 1 .. f : q \in 1 .. f + w
    BY <1>2, <1>10
  <2>3. f + 1 \in 1 .. f + w
    BY <1>2, <1>10
  <2>4. ASSUME \A q \in 1 .. f + w : field'[q] # Backslash
        PROVE  n = f + 1 /\ w = 1
    <3>1. \A q \in 1 .. f : field[q] # Backslash
      BY <1>6, <2>2, <2>4
    <3> QED
      BY <1>9, <2>1, <2>3, <2>4, <3>1 DEF RowInv, Unescaped
  <2>5. ASSUME NEW p \in 1 .. f + w, \A q \in 1 .. p : field'[q] # Backslash
        PROVE  p <= Len(path) /\ field'[p] = path[p]
    <3>1. CASE p <= f
      <4>1. p \in 1 .. f /\ \A q \in 1 .. p : q \in 1 .. f
        BY <1>2, <1>10, <3>1
      <4>2. field'[p] = field[p] /\ \A q \in 1 .. p : field[q] # Backslash
        BY <1>6, <2>5, <4>1
      <4> QED
        BY <1>9, <4>1, <4>2 DEF RowInv, Unescaped
    <3>2. CASE ~(p <= f)
      <4>1. f + 1 \in 1 .. p /\ \A q \in 1 .. f : q \in 1 .. p
        BY <1>2, <1>10, <3>2
      <4>2. w = 1 /\ field'[f + 1] = c
        BY <2>1, <2>5, <4>1
      <4>3. p = f + 1
        BY <1>2, <3>2, <4>2
      <4>4. \A q \in 1 .. f : field[q] # Backslash
        BY <1>6, <2>5, <4>1
      <4>5. n = f + 1
        BY <1>9, <4>4 DEF RowInv, Unescaped
      <4> QED
        BY <1>2, <1>9, <4>2, <4>3, <4>5
    <3> QED
      BY <3>1, <3>2
  <2>6. path' = path
    BY <1>4
  <2>7. (\A q \in 1 .. f + w : field'[q] # Backslash) => n + 1 = f + w + 1
    BY <1>2, <2>4
  <2> QED
    BY <1>6, <1>7, <2>5, <2>6, <2>7 DEF Unescaped
<1>15. Blanks'
  <2> SUFFICES ASSUME NoBlank, NEW p \in 1 .. f + w
               PROVE  field'[p] \notin White
    BY <1>4, <1>6 DEF Blanks, NoBlank
  <2>1. CASE p <= f
    <3>1. p \in 1 .. f
      BY <1>2, <1>10, <2>1
    <3> QED
      BY <1>6, <1>9, <3>1 DEF RowInv, Blanks
  <2>2. CASE ~(p <= f)
    <3> DEFINE m == p - f
    <3>1. m \in 1 .. w /\ p = f + m
      BY <1>2, <1>10, <2>2
    <3> HIDE DEF m
    <3>2. mangle(c)[m] \notin White
      <4>1. CASE c \in Escaped
        BY <1>5, <3>1, <4>1, MangleEscaped
      <4>2. CASE c \notin Escaped
        <5>1. n \in DOMAIN path
          BY <1>1, <1>2
        <5>2. c \notin White
          BY <1>9, <4>2, <5>1 DEF NoBlank
        <5>3. m = 1 /\ mangle(c)[1] = c
          BY <1>3, <1>5, <3>1, <4>2, Mangled
        <5> QED
          BY <5>2, <5>3
      <4> QED
        BY <4>1, <4>2
    <3> QED
      BY <1>6, <3>1, <3>2
  <2> QED
    BY <2>1, <2>2
<1>16. Cut'
  <2>1. Len(mnt) <= f /\ \A p \in 1 .. Len(mnt) : mnt[p] = field[p] /\ mnt[p] \notin White
    BY <1>9 DEF RowInv, Cut
  <2>2. Len(mnt) \in Nat
    BY LenProperties DEF RowInv, TypeOK
  <2>3. \A p \in 1 .. Len(mnt) : p \in 1 .. f
    BY <1>2, <2>1, <2>2
  <2>4. Len(mnt) <= f + w
    BY <1>2, <1>10, <2>1, <2>2
  <2> QED
    BY <1>4, <1>6, <2>1, <2>3, <2>4 DEF Cut
<1>17. InStep' /\ NeverOutOfStep' /\ RoundTrip'
  BY <1>4 DEF RowInv, InStep, NeverOutOfStep, RoundTrip
<1> QED
  BY <1>11, <1>12, <1>13, <1>14, <1>15, <1>16, <1>17 DEF RowInv

\* Whatever is not printing leaves what was printed alone.
Printout == Printing /\ Places /\ Unescaped /\ Blanks

LEMMA PrintoutStays ==
  ASSUME Printout, UNCHANGED <<path, field, at>>, pc' = "print" => pc = "print" \/ Len(at) = Len(path) + 1,
         pc' # "print" => Len(at) = Len(path) + 1
  PROVE  Printout'
BY DEF Printout, Printing, Places, Unescaped, Blanks, NoBlank

LEMMA ColumnKeeps == RowInv /\ Column => RowInv'
<1> SUFFICES ASSUME RowInv, Column PROVE RowInv'
  OBVIOUS
<1> DEFINE f == Len(field)
           t == Len(mnt')
<1>1. path \in Seq(Nat) /\ field \in Seq(Nat) /\ at \in Seq(Nat) /\ f \in Nat
  BY PathsAssumption, LenProperties DEF RowInv, TypeOK
<1>2. pc = "columns" /\ UNCHANGED <<path, field, at>> /\ i' = 1
  BY DEF Column
<1>3. Printout' /\ Len(at) = Len(path) + 1
  BY <1>2, PrintoutStays DEF RowInv, Printing, Printout, Column
<1>4. /\ mnt' \in Seq(Nat) /\ t \in Nat /\ t <= f
      /\ \A p \in 1 .. t : mnt'[p] = field[p]
  <2>1. PICK k \in 0 .. f : mnt' = SubSeq(field, 1, k)
    BY DEF Column
  <2>2. 1 \in 1 .. f + 1 /\ k \in 0 .. f
    BY <1>1
  <2> QED
    BY <1>1, <2>1, <2>2, SubSeqProperties
<1>5. /\ \A p \in 1 .. t : mnt'[p] \notin White
      /\ t < f => field[t + 1] \in White
  BY <1>4, LenProperties DEF Column, IsColumn
<1>6. CASE pc' = "unescape" /\ out' = <<>>
  <2>1. TypeOK'
    BY <1>2, <1>4, <1>6 DEF RowInv, TypeOK
  <2>2. Cut'
    BY <1>2, <1>4, <1>5 DEF Cut
  <2>3. Len(out') = 0
    BY <1>6
  <2>4. InStep'
    BY <1>2, <1>3, <2>3 DEF Printout, Printing, InStep
  <2>5. NeverOutOfStep' /\ RoundTrip'
    BY <1>1, <1>2, <1>6, <2>3, LenProperties DEF NeverOutOfStep, RoundTrip
  <2> QED
    BY <1>3, <2>1, <2>2, <2>4, <2>5 DEF RowInv, Printout
<1>7. CASE pc' = "done" /\ out' = mnt' /\ ~\E p \in 1 .. t : mnt'[p] = Backslash
  <2>1. TypeOK'
    BY <1>2, <1>4, <1>7 DEF RowInv, TypeOK
  <2>2. Cut'
    BY <1>2, <1>4, <1>5 DEF Cut
  <2>3. \A k \in 1 .. t : k <= Len(path) /\ mnt'[k] = path[k]
    <3> SUFFICES ASSUME NEW k \in 1 .. t PROVE k <= Len(path) /\ mnt'[k] = path[k]
      OBVIOUS
    <3>1. k \in 1 .. f /\ mnt'[k] = field[k] /\ \A q \in 1 .. k : q \in 1 .. t
      BY <1>1, <1>4
    <3>2. \A q \in 1 .. k : field[q] # Backslash
      BY <1>4, <1>7, <3>1
    <3> QED
      BY <3>1, <3>2 DEF RowInv, Unescaped
  <2>4. Len(path) \in Nat /\ Len(out') = t /\ DOMAIN out' = 1 .. t
    BY <1>1, <1>4, <1>7, LenProperties
  <2>5. t <= Len(path)
    <3>1. t = 0 \/ t \in 1 .. t
      BY <1>4
    <3> QED
      BY <2>3, <2>4, <3>1
  <2>6. NeverOutOfStep'
    BY <1>2, <1>7, <2>3, <2>4, <2>5 DEF NeverOutOfStep
  <2>7. ASSUME NoBlank PROVE out' = path
    <3>1. t = f
      <4>1. t + 1 \in 1 .. f => field[t + 1] \notin White
        BY <2>7 DEF RowInv, Blanks
      <4> QED
        BY <1>1, <1>4, <1>5, <4>1
    <3>2. \A q \in 1 .. f : field[q] # Backslash
      BY <1>4, <1>7, <3>1
    <3>3. Len(path) = t
      BY <1>1, <1>3, <2>4, <3>1, <3>2 DEF RowInv, Unescaped
    <3>4. out' \in Seq(Nat)
      BY <1>4, <1>7
    <3> HIDE DEF f, t
    <3> QED
      BY <1>1, <1>7, <2>3, <2>4, <3>3, <3>4, SeqEqual
  <2>8. RoundTrip'
    BY <1>2, <2>7 DEF RoundTrip, NoBlank
  <2> QED
    BY <1>3, <1>7, <2>1, <2>2, <2>6, <2>8 DEF RowInv, Printout, InStep
<1> QED
  BY <1>4, <1>6, <1>7, LenProperties DEF Column

(***************************************************************************)
(* The heart of the matter: where the decoder stands, an escape is         *)
(* recognised exactly if the kernel escaped the character, all of it is in *)
(* the column, and it decodes to that character.                           *)
(***************************************************************************)
LEMMA AtNextCharacter ==
  ASSUME RowInv, pc = "unescape", i <= Len(mnt),
         NEW l, l = Len(out) + 1
  PROVE  /\ l \in 1 .. Len(at) - 1 /\ l <= Len(path) /\ path[l] \in Nat
         /\ at[l + 1] \in Nat
         /\ \/ AtEscape /\ OctalValue(Triple) = path[l] /\ at[l + 1] = i + 4 /\ i + 4 <= Len(mnt) + 1
            \/ ~AtEscape /\ mnt[i] = path[l] /\ at[l + 1] = i + 1
<1> DEFINE f == Len(field)
           n == Len(at)
           s == Len(mnt)
<1>1. path \in Seq(Nat) /\ field \in Seq(Nat) /\ at \in Seq(Nat) /\ mnt \in Seq(Nat) /\ out \in Seq(Nat)
  BY PathsAssumption DEF RowInv, TypeOK
<1>2. f \in Nat /\ n \in Nat /\ s \in Nat /\ Len(path) \in Nat /\ Len(out) \in Nat
  BY <1>1, LenProperties
<1>3. n = Len(path) + 1 /\ at[n] = f + 1 /\ \A j, k \in 1 .. n : j < k => at[j] < at[k]
  BY DEF RowInv, Printing
<1>4. \A j \in 1 .. n : at[j] \in Nat
  BY <1>1, ElementOfSeq
<1>5. l \in 1 .. n /\ i = at[l] /\ i \in Nat /\ i >= 1 /\ i <= s
  BY <1>2, <1>4 DEF RowInv, InStep, TypeOK
<1>6. /\ s <= f /\ \A p \in 1 .. s : mnt[p] = field[p]
      /\ s < f => field[s + 1] \in White
  BY DEF RowInv, Cut
<1>7. /\ path[l] \in Escaped => at[l + 1] = at[l] + 4
                               /\ \A m \in 1 .. 4 : field[at[l] + m - 1] = mangle(path[l])[m]
      /\ path[l] \notin Escaped => at[l + 1] = at[l] + 1 /\ field[at[l]] = path[l]
  <2>1. l # n
    BY <1>2, <1>3, <1>5, <1>6
  <2>2. l \in 1 .. n - 1
    BY <1>2, <1>5, <2>1
  <2> QED
    BY <2>2 DEF RowInv, Places
<1> HIDE DEF f, n, s
<1>8. l \in 1 .. n - 1 /\ l \in 1 .. Len(path) /\ l + 1 \in 1 .. n /\ n \in 1 .. n
  BY <1>2, <1>3, <1>5, <1>6
<1>9. path[l] \in Nat /\ at[l + 1] \in Nat
  BY <1>1, <1>4, <1>8, ElementOfSeq
<1>10. at[l + 1] <= f + 1
  <2>1. l + 1 < n \/ l + 1 = n
    BY <1>2, <1>8
  <2> QED
    BY <1>2, <1>3, <1>8, <1>9, <2>1
<1>11. CASE path[l] \in Escaped
  <2>1. \A m \in 1 .. 4 : field[i + m - 1] = mangle(path[l])[m] /\ field[i + m - 1] \notin White
    BY <1>5, <1>7, <1>11, MangleEscaped
  <2>2. i + 4 <= f + 1 /\ at[l + 1] = i + 4
    BY <1>5, <1>7, <1>10, <1>11
  <2>3. i + 4 <= s + 1
    <3>1. s \in Nat /\ f \in Nat /\ i \in Nat /\ i <= s /\ i + 4 <= f + 1
      BY <1>2, <1>5, <2>2
    <3>2. ASSUME s < i + 3 PROVE FALSE
      <4>1. s + 1 = i + 1 \/ s + 1 = i + 2 \/ s + 1 = i + 3
        BY <3>1, <3>2
      <4>2. s < f
        BY <3>1, <3>2
      <4>3. \A m \in 1 .. 4 : field[i + m - 1] \notin White
        BY <2>1
      <4>4. i + 2 - 1 = i + 1 /\ i + 3 - 1 = i + 2 /\ i + 4 - 1 = i + 3
        BY <3>1
      <4> QED
        BY <1>6, <4>1, <4>2, <4>3, <4>4
    <3> QED
      BY <3>1, <3>2
  <2>4. /\ i \in 1 .. s /\ i + 1 \in 1 .. s /\ i + 2 \in 1 .. s /\ i + 3 \in 1 .. s
        /\ i + 1 - 1 = i /\ i + 2 - 1 = i + 1 /\ i + 3 - 1 = i + 2 /\ i + 4 - 1 = i + 3
    <3>1. s \in Nat /\ i \in Nat /\ i >= 1
      BY <1>2, <1>5
    <3> QED
      BY <2>3, <3>1
  <2>5. /\ mnt[i] = mangle(path[l])[1] /\ mnt[i + 1] = mangle(path[l])[2]
        /\ mnt[i + 2] = mangle(path[l])[3] /\ mnt[i + 3] = mangle(path[l])[4]
    BY <1>6, <2>1, <2>4
  <2>6. Triple = <<mangle(path[l])[2], mangle(path[l])[3], mangle(path[l])[4]>>
    BY <2>5 DEF Triple
  <2>7. OctalValue(Triple) = path[l] /\ mnt[i] = Backslash
    BY <1>11, <2>5, <2>6, MangleEscaped
  <2>8. path[l] <= 255
    BY <1>11 DEF Escaped, Backslash
  <2>9. \A k \in 1 .. 3 : Triple[k] \in OctalDigit
    <3>1. mangle(path[l])[2] \in OctalDigit /\ mangle(path[l])[3] \in OctalDigit
          /\ mangle(path[l])[4] \in OctalDigit
      <4>1. \A k \in 2 .. 4 : mangle(path[l])[k] \in OctalDigit
        BY <1>11, MangleEscaped
      <4> QED
        BY <4>1
    <3> QED
      BY <2>6, <3>1
  <2>10. AtEscape
    BY <1>2, <1>5, <2>3, <2>7, <2>8, <2>9 DEF AtEscape, parses_as_octal, s
  <2> QED
    BY <1>8, <1>9, <2>2, <2>3, <2>7, <2>10 DEF n, s
<1>12. CASE path[l] \notin Escaped
  <2>1. i \in 1 .. s
    BY <1>2, <1>5
  <2>2. mnt[i] = path[l] /\ at[l + 1] = i + 1
    BY <1>5, <1>6, <1>7, <1>12, <2>1
  <2>3. ~AtEscape
    BY <1>12, <2>2 DEF AtEscape, Escaped
  <2> QED
    BY <1>8, <1>9, <2>2, <2>3 DEF n
<1> QED
  BY <1>11, <1>12

\* One turn of the loop decodes one character of path.
LEMMA TurnKeeps ==
  ASSUME RowInv, Decode \/ Copy
  PROVE  RowInv'
<1> DEFINE l == Len(out) + 1
<1>1. /\ pc = "unescape" /\ i <= Len(mnt) /\ UNCHANGED <<path, field, pc, mnt, at>>
  BY DEF Decode, Copy
<1>2. path \in Seq(Nat) /\ mnt \in Seq(Nat) /\ out \in Seq(Nat) /\ Len(out) \in Nat /\ Len(mnt) \in Nat
  BY PathsAssumption, LenProperties DEF RowInv, TypeOK
<1>3. /\ l \in 1 .. Len(at) - 1 /\ l <= Len(path) /\ path[l] \in Nat /\ at[l + 1] \in Nat
      /\ \/ AtEscape /\ OctalValue(Triple) = path[l] /\ at[l + 1] = i + 4 /\ i + 4 <= Len(mnt) + 1
         \/ ~AtEscape /\ mnt[i] = path[l] /\ at[l + 1] = i + 1
  BY <1>1, AtNextCharacter
<1>4. out' = Append(out, path[l]) /\ i' = at[l + 1]
  BY <1>3 DEF Decode, Copy
<1>5. i' \in 1 .. Len(mnt) + 1
  <2>1. i \in Nat
    BY <1>2 DEF RowInv, TypeOK
  <2> QED
    BY <1>1, <1>2, <1>3, <1>4, <2>1
<1>6. /\ out' \in Seq(Nat) /\ Len(out') = l /\ DOMAIN out' = 1 .. l
      /\ \A k \in 1 .. Len(out) : out'[k] = out[k]
      /\ out'[l] = path[l]
  BY <1>2, <1>3, <1>4, AppendProperties, LenProperties
<1>7. Printout'
  BY <1>1, PrintoutStays DEF RowInv, Printing, Printout
<1>8. TypeOK'
  BY <1>1, <1>5, <1>6 DEF RowInv, TypeOK
<1>9. Cut'
  BY <1>1 DEF RowInv, Cut
<1>10. InStep'
  <2>1. l + 1 \in 1 .. Len(at)
    BY <1>2, <1>3, LenProperties DEF RowInv, TypeOK
  <2> QED
    BY <1>1, <1>4, <1>6, <2>1 DEF InStep
<1>11. NeverOutOfStep'
  <2>1. \A k \in 1 .. Len(out) : out[k] = path[k]
    BY <1>2, LenProperties DEF RowInv, NeverOutOfStep
  <2>2. \A k \in 1 .. l : k \in 1 .. Len(out) \/ k = l
    BY <1>2
  <2> QED
    BY <1>1, <1>3, <1>6, <2>1, <2>2 DEF NeverOutOfStep
<1>12. RoundTrip'
  BY <1>1 DEF RoundTrip
<1> QED
  BY <1>7, <1>8, <1>9, <1>10, <1>11, <1>12 DEF RowInv, Printout

LEMMA ReturnKeeps == RowInv /\ Return => RowInv'
<1> SUFFICES ASSUME RowInv, Return PROVE RowInv'
  OBVIOUS
<1>1. pc = "unescape" /\ i > Len(mnt) /\ pc' = "done" /\ UNCHANGED <<path, field, mnt, i, out, at>>
  BY DEF Return
<1>2. Printout' /\ Len(at) = Len(path) + 1
  BY <1>1, PrintoutStays DEF RowInv, Printing, Printout
<1>3. TypeOK' /\ Cut' /\ InStep' /\ NeverOutOfStep'
  BY <1>1 DEF RowInv, TypeOK, Cut, InStep, NeverOutOfStep
<1>4. ASSUME NoBlank PROVE out = path
  <2>1. /\ path \in Seq(Nat) /\ field \in Seq(Nat) /\ at \in Seq(Nat) /\ out \in Seq(Nat)
        /\ Len(field) \in Nat /\ Len(mnt) \in Nat /\ Len(path) \in Nat /\ Len(out) \in Nat
    BY PathsAssumption, LenProperties DEF RowInv, TypeOK
  <2>2. Len(mnt) = Len(field)
    <3>1. Len(mnt) <= Len(field) /\ (Len(mnt) < Len(field) => field[Len(mnt) + 1] \in White)
      BY <1>1 DEF RowInv, Cut
    <3>2. \A p \in 1 .. Len(field) : field[p] \notin White
      BY <1>4 DEF RowInv, Blanks
    <3>3. Len(mnt) < Len(field) => Len(mnt) + 1 \in 1 .. Len(field)
      BY <2>1
    <3> QED
      BY <2>1, <3>1, <3>2, <3>3
  <2>3. Len(out) + 1 \in 1 .. Len(at) /\ at[Len(out) + 1] > Len(field)
    BY <1>1, <2>2 DEF RowInv, InStep
  <2>4. Len(out) + 1 = Len(at)
    <3>1. at[Len(at)] = Len(field) + 1 /\ \A j, k \in 1 .. Len(at) : j < k => at[j] < at[k]
      BY DEF RowInv, Printing
    <3>2. Len(at) \in 1 .. Len(at) /\ at[Len(out) + 1] \in Nat
      BY <1>2, <2>1, <2>3, ElementOfSeq
    <3>3. Len(out) + 1 < Len(at) \/ Len(out) + 1 = Len(at)
      BY <1>2, <2>1, <2>3
    <3>4. CASE Len(out) + 1 < Len(at)
      <4>1. at[Len(out) + 1] < Len(field) + 1
        BY <2>3, <3>1, <3>2, <3>4
      <4> QED
        BY <2>1, <2>3, <3>2, <4>1
    <3> QED
      BY <3>3, <3>4
  <2>5. Len(out) = Len(path)
    BY <1>2, <2>1, <2>4
  <2>6. \A k \in 1 .. Len(out) : out[k] = path[k]
    BY <2>1, LenProperties DEF RowInv, NeverOutOfStep
  <2> QED
    BY <2>1, <2>5, <2>6, SeqEqual
<1>5. RoundTrip'
  BY <1>1, <1>4 DEF RoundTrip, NoBlank
<1> QED
  BY <1>2, <1>3, <1>5 DEF RowInv, Printout

LEMMA NextRow == RowInv /\ [Next]_rowVars => RowInv'
<1> SUFFICES ASSUME RowInv, [Next]_rowVars PROVE RowInv'
  OBVIOUS
<1>1. CASE Printed
  <2>1. Printout'
    <3>1. Len(at) = Len(path) + 1
      <4>1. Len(path) \in Nat
        BY PathsAssumption, LenProperties DEF RowInv, TypeOK
      <4> QED
        BY <1>1, <4>1 DEF Printed, RowInv, Printing
    <3> QED
      BY <1>1, <3>1, PrintoutStays DEF Printed, RowInv, Printout
  <2> QED
    BY <1>1, <2>1
       DEF Printed, RowInv, Printout, TypeOK, Cut, InStep, NeverOutOfStep, RoundTrip
<1>2. CASE UNCHANGED rowVars
  <2>1. Printout'
    BY <1>2, PrintoutStays DEF rowVars, RowInv, Printing, Printout
  <2> QED
    BY <1>2, <2>1 DEF rowVars, RowInv, Printout, TypeOK, Cut, InStep, NeverOutOfStep, RoundTrip, NoBlank
<1> QED
  BY <1>1, <1>2, PrintKeeps, ColumnKeeps, TurnKeeps, ReturnKeeps DEF Next

\* The invariant holds in every state of every row.
LEMMA RowAlways == Spec => []RowInv
<1> QED
  BY InitRow, NextRow, PTL DEF Spec

\* Whatever the mount point, the column and the decoder's index stay within their bounds.
THEOREM RowTypeCorrect == Spec => []TypeOK
<1>1. RowInv => TypeOK
  BY DEF RowInv
<1> QED
  BY <1>1, RowAlways, PTL

\* For every mount point, what is decoded at any time is the beginning of it.
THEOREM DecoderInStep == Spec => []NeverOutOfStep
<1>1. RowInv => NeverOutOfStep
  BY DEF RowInv
<1> QED
  BY <1>1, RowAlways, PTL

\* Every mount point without a blank that only Unicode counts as one is read back whole.
THEOREM MountPointsSurvive == Spec => []RoundTrip
<1>1. RowInv => RoundTrip
  BY DEF RowInv
<1> QED
  BY <1>1, RowAlways, PTL
=============================================================================
