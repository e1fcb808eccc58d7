--------------------------- MODULE MaskCodec_proofs ---------------------------
(***************************************************************************)
(* Proofs about MaskCodec, for pictures of any size and any mask.          *)
(***************************************************************************)
EXTENDS MaskCodec, TLAPS, WellFoundedInduction, SequenceTheorems

-----------------------------------------------------------------------------
(* Pixels and their numbers.                                                  *)

\* A picture has pixels.
LEMMA SizeIsPositive ==
  ASSUME TypeOK
  PROVE  Size \in Nat /\ Size > 0
BY DEF TypeOK, Size

\* Row order: a cell has a number, and the number names the cell.
LEMMA CellOfNumber ==
  ASSUME NEW w \in Nat \ {0}, NEW row \in Nat, NEW col \in 0 .. w - 1
  PROVE  Cell(row * w + col, w) = [row |-> row, col |-> col]
<1> DEFINE p == row * w + col
<1>1. p \in Nat
  OBVIOUS
<1>2. p \div w = row
  OBVIOUS
<1>3. p % w = col
  OBVIOUS
<1> QED
  BY <1>2, <1>3 DEF Cell

\* The numbers of the cells are below the size.
LEMMA NumberInRange ==
  ASSUME NEW h \in Nat \ {0}, NEW w \in Nat \ {0}, NEW row \in 0 .. h - 1, NEW col \in 0 .. w - 1
  PROVE  row * w + col \in 0 .. h * w - 1
<1>1. row * w + w <= h * w
  OBVIOUS
<1> QED
  BY <1>1

\* The numbers below the size name all cells.
LEMMA AllCells ==
  ASSUME NEW h \in Nat \ {0}, NEW w \in Nat \ {0}
  PROVE  Cells(h, w) \subseteq Paint(0, h * w, w)
<1> SUFFICES ASSUME NEW c \in Cells(h, w) PROVE c \in Paint(0, h * w, w)
  OBVIOUS
<1> DEFINE p == c.row * w + c.col
<1>1. c.row \in 0 .. h - 1 /\ c.col \in 0 .. w - 1 /\ c = [row |-> c.row, col |-> c.col]
  BY DEF Cells
<1>2. p \in 0 .. h * w - 1
  BY <1>1, NumberInRange
<1>3. Cell(p, w) = c
  BY <1>1, CellOfNumber
<1> QED
  BY <1>2, <1>3 DEF Paint

\* One turn of the decoder paints what comes next.
LEMMA PaintMore ==
  ASSUME NEW from \in Nat, NEW to \in Nat, from <= to, NEW w
  PROVE  Paint(0, to, w) = Paint(0, from, w) \union Paint(from, to, w)
<1>1. 0 .. to - 1 = (0 .. from - 1) \union (from .. to - 1)
  OBVIOUS
<1> QED
  BY <1>1 DEF Paint

\* A run of ones is in the mask, a run of zeros outside.
LEMMA RunIsInOrOut ==
  ASSUME NEW from, NEW to, NEW val \in {0, 1}, AllAre(from, to, val)
  PROVE  mask \intersect Paint(from, to, width) = IF val = 1 THEN Paint(from, to, width) ELSE {}
BY DEF AllAre, Paint, Pixel

-----------------------------------------------------------------------------
(* Least and greatest members.                                                *)

\* A set of numbers that is not empty has a least one.
LEMMA LeastMember ==
  ASSUME NEW S \in SUBSET Nat, S # {}
  PROVE  Min(S) \in S /\ \A y \in S : Min(S) <= y
<1> DEFINE below == OpToRel(<, Nat)
<1>1. PICK x \in S : \A y \in S : ~ (<<y, x>> \in below)
  BY NatLessThanWellFounded, WFMin
<1>2. \A y \in S : <<y, x>> \in below <=> y < x
  BY DEF OpToRel
<1>3. \A y \in S : ~ (y < x)
  BY <1>1, <1>2
<1>4. \A y \in S : x <= y
  BY <1>3
<1> QED
  BY <1>4 DEF Min

\* One that is bounded has a greatest one.
LEMMA GreatestMember ==
  ASSUME NEW n \in Nat, NEW S \in SUBSET (0 .. n), S # {}
  PROVE  Max(S) \in S /\ \A y \in S : y <= Max(S)
<1> DEFINE T == {n - x : x \in S}
<1>1. T \in SUBSET Nat /\ T # {}
  <2>1. \A x \in S : n - x \in Nat
    OBVIOUS
  <2> QED
    BY <2>1
<1>2. Min(T) \in T /\ \A y \in T : Min(T) <= y
  BY <1>1, LeastMember
<1>3. PICK x \in S : Min(T) = n - x
  BY <1>2
<1>4. \A y \in S : n - y \in T
  OBVIOUS
<1>5. \A y \in S : y <= x
  BY <1>2, <1>3, <1>4
<1> QED
  BY <1>5 DEF Max

-----------------------------------------------------------------------------
(* Every action keeps the invariant.                                          *)

LEMMA InitIInv == Init => IInv
<1> SUFFICES ASSUME Init PROVE IInv
  OBVIOUS
<1>1. height \in Nat \ {0} /\ width \in Nat \ {0}
  BY SizeAssumption DEF Init
<1>2. Size \in Nat
  BY <1>1 DEF Size
<1>3. TypeOK
  BY <1>1, <1>2 DEF Init, TypeOK
<1>4. RunsInv /\ CurrentInv
  BY DEF Init, RunsInv, CurrentInv, AllAre
<1>5. DecoderInv
  BY DEF Init, DecoderInv, Paint
<1> QED
  BY <1>3, <1>4, <1>5 DEF IInv

\* What is said of the picture alone stays.
LEMMA PictureStays ==
  ASSUME UNCHANGED picture
  PROVE  /\ Size' = Size /\ Box' = Box
         /\ \A p : Pixel(p)' = Pixel(p)
         /\ Cells(height, width)' = Cells(height, width)
BY DEF picture, Size, Box, Pixel, Cell, Cells

\* The encoder does not touch the decoder, which waits for it.
LEMMA DecoderWaits ==
  ASSUME IInv, bbox = <<>>, UNCHANGED <<picture, decoder>>,
         starts' = starts \/ \E p \in Nat : starts' = Append(starts, p)
  PROVE  DecoderInv'
<1>1. k = 0 /\ idx = starts[1] /\ Len(starts) >= 1 /\ starts \in Seq(0 .. Size)
  BY DEF IInv, TypeOK, RunsInv, DecoderInv
<1>2. starts'[1] = starts[1]
  BY <1>1
<1> QED
  BY <1>1, <1>2 DEF IInv, DecoderInv, Paint, Cell, picture, decoder

LEMMA SamePixelStep == IInv /\ SamePixel => IInv'
<1> SUFFICES ASSUME IInv, SamePixel PROVE IInv'
  OBVIOUS
<1>1. /\ pos < Size /\ Pixel(pos) = current_val
      /\ current_count' = current_count + 1 /\ pos' = pos + 1
      /\ UNCHANGED <<picture, current_val, counts, bbox, starts, decoder>>
  BY DEF SamePixel
<1>2. bbox = <<>>
  BY <1>1, SizeIsPositive DEF IInv, TypeOK, CurrentInv
<1>3. TypeOK'
  BY <1>1, PictureStays, SizeIsPositive DEF IInv, TypeOK, picture, decoder
<1>4. RunsInv'
  BY <1>1, PictureStays DEF IInv, RunsInv, AllAre
<1>5. CurrentInv'
  <2>1. starts[Len(starts)] \in Nat /\ pos \in Nat
    BY SizeIsPositive DEF IInv, TypeOK, RunsInv
  <2>2. AllAre(starts[Len(starts)], pos + 1, current_val)
    BY <1>1, <1>2, <2>1 DEF IInv, CurrentInv, AllAre
  <2>3. pos + 1 = starts[Len(starts)] + (current_count + 1) /\ current_count + 1 # 0
    BY <1>2, <2>1 DEF IInv, TypeOK, CurrentInv
  <2> QED
    BY <1>1, <1>2, <2>2, <2>3, PictureStays DEF IInv, CurrentInv, AllAre
<1>6. DecoderInv'
  BY <1>1, <1>2, DecoderWaits
<1> QED
  BY <1>3, <1>4, <1>5, <1>6 DEF IInv

\* A run ends where the encoder is: what RunsInv says of it.
LEMMA RunEnds ==
  ASSUME IInv, bbox = <<>>, UNCHANGED picture,
         counts' = Append(counts, current_count), starts' = Append(starts, pos)
  PROVE  /\ RunsInv'
         /\ counts' \in Seq(Nat) /\ starts' \in Seq(0 .. Size)
         /\ Len(counts') = Len(counts) + 1 /\ counts' # <<>>
         /\ starts'[Len(starts')] = pos
<1> DEFINE n == Len(counts) + 1
<1>1. /\ counts \in Seq(Nat) /\ starts \in Seq(0 .. Size) /\ Size \in Nat
      /\ current_count \in Nat /\ pos \in 0 .. Size /\ n \in Nat \ {0} /\ Len(starts) = n
  BY SizeIsPositive DEF IInv, TypeOK, RunsInv
<1>2. /\ counts' \in Seq(Nat) /\ starts' \in Seq(0 .. Size)
      /\ Len(counts') = n /\ Len(starts') = n + 1
      /\ counts'[n] = current_count /\ starts'[n + 1] = pos
      /\ \A j \in 1 .. n - 1 : counts'[j] = counts[j]
      /\ \A j \in 1 .. n : starts'[j] = starts[j]
  BY <1>1
<1>3. /\ current_count = 0 => n = 1
      /\ pos = starts[n] + current_count
      /\ AllAre(starts[n], pos, (n - 1) % 2)
  BY <1>1 DEF IInv, CurrentInv
<1>4. ASSUME NEW j \in 1 .. n
      PROVE  /\ counts'[j] = 0 => j = 1
             /\ starts'[j + 1] = starts'[j] + counts'[j]
             /\ AllAre(starts'[j], starts'[j + 1], (j - 1) % 2)
  <2>1. CASE j = n
    BY <1>2, <1>3, <2>1
  <2>2. CASE j # n
    <3>1. j \in 1 .. Len(counts) /\ j \in 1 .. n - 1 /\ j + 1 \in 1 .. n
      BY <1>1, <2>2
    <3>2. counts'[j] = counts[j] /\ starts'[j] = starts[j] /\ starts'[j + 1] = starts[j + 1]
      BY <1>2, <3>1
    <3>3. /\ counts[j] = 0 => j = 1
          /\ starts[j + 1] = starts[j] + counts[j]
          /\ AllAre(starts[j], starts[j + 1], (j - 1) % 2)
      BY <3>1 DEF IInv, RunsInv
    <3> QED
      BY <3>2, <3>3
  <2> QED
    BY <2>1, <2>2
<1>5. starts'[1] = 0
  BY <1>1, <1>2 DEF IInv, RunsInv
<1>6. RunsInv'
  BY <1>2, <1>4, <1>5, PictureStays DEF RunsInv, AllAre
<1> QED
  BY <1>1, <1>2, <1>6

LEMMA OtherPixelStep == IInv /\ OtherPixel => IInv'
<1> SUFFICES ASSUME IInv, OtherPixel PROVE IInv'
  OBVIOUS
<1>1. /\ pos < Size /\ Pixel(pos) # current_val
      /\ counts' = Append(counts, current_count) /\ starts' = Append(starts, pos)
      /\ current_val' = 1 - current_val /\ current_count' = 1 /\ pos' = pos + 1
      /\ UNCHANGED <<picture, bbox, decoder>>
  BY DEF OtherPixel
<1>2. bbox = <<>>
  BY <1>1, SizeIsPositive DEF IInv, TypeOK, CurrentInv
<1>3. k = 0 /\ pos \in Nat
  BY <1>2, SizeIsPositive DEF IInv, TypeOK, DecoderInv
<1>4. TypeOK'
  BY <1>1, <1>2, <1>3, RunEnds, PictureStays, SizeIsPositive DEF IInv, TypeOK, picture, decoder
<1>5. CurrentInv'
  <2>1. Pixel(pos) = 1 - current_val
    BY <1>1 DEF IInv, TypeOK, Pixel
  <2>2. AllAre(pos, pos + 1, 1 - current_val)
    BY <1>3, <2>1 DEF AllAre
  <2>3. 1 - current_val = (Len(counts) + 1) % 2
    <3>1. current_val = Len(counts) % 2 /\ Len(counts) \in Nat
      BY <1>2 DEF IInv, TypeOK, CurrentInv
    <3> QED
      BY <3>1
  <2> QED
    BY <1>1, <1>2, <2>2, <2>3, RunEnds, PictureStays DEF CurrentInv, AllAre
<1>6. DecoderInv'
  BY <1>1, <1>2, <1>3, DecoderWaits
<1> QED
  BY <1>1, <1>2, <1>4, <1>5, <1>6, RunEnds DEF IInv

LEMMA LastRunStep == IInv /\ LastRun => IInv'
<1> SUFFICES ASSUME IInv, LastRun PROVE IInv'
  OBVIOUS
<1>1. /\ pos = Size /\ bbox = <<>> /\ bbox' = Box
      /\ counts' = Append(counts, current_count) /\ starts' = Append(starts, pos)
      /\ UNCHANGED <<picture, pos, current_val, current_count, decoder>>
  BY DEF LastRun
<1>2. k = 0 /\ pos \in Nat
  BY <1>1, SizeIsPositive DEF IInv, TypeOK, DecoderInv
<1>3. Box # <<>>
  BY DEF Box
<1>4. TypeOK'
  BY <1>1, <1>2, RunEnds, PictureStays, SizeIsPositive DEF IInv, TypeOK, picture, decoder
<1>5. CurrentInv'
  <2>1. current_val = Len(counts) % 2 /\ Len(counts) \in Nat
    BY <1>1 DEF IInv, TypeOK, CurrentInv
  <2> QED
    BY <1>1, <1>3, <2>1, RunEnds, PictureStays DEF CurrentInv
<1>6. DecoderInv'
  BY <1>1, <1>2, DecoderWaits, <1>3 DEF DecoderInv
<1> QED
  BY <1>1, <1>4, <1>5, <1>6, RunEnds DEF IInv

\* A turn of the decoder stops where the next run begins, never at the size.
LEMMA TurnEnds ==
  ASSUME IInv, DrawRun
  PROVE  /\ k \in 0 .. Len(counts) - 1
         /\ idx = starts[k + 1] /\ idx' = starts[k + 2]
         /\ idx \in Nat /\ idx' \in 0 .. Size /\ idx <= idx'
         /\ k' = k + 1
         /\ painted' = IF k % 2 = 1 THEN painted \union Paint(idx, idx', width) ELSE painted
         /\ AllAre(idx, idx', k % 2)
<1>1. /\ k \in 0 .. Len(counts) - 1 /\ Len(counts) \in Nat /\ Size \in Nat
      /\ counts \in Seq(Nat) /\ starts \in Seq(0 .. Size) /\ Len(starts) = Len(counts) + 1
  BY SizeIsPositive DEF IInv, TypeOK, RunsInv, DrawRun
<1> DEFINE j == k + 1
<1>2. j \in 1 .. Len(counts)
  BY <1>1
<1>3. starts[j + 1] = starts[j] + counts[j] /\ AllAre(starts[j], starts[j + 1], (j - 1) % 2)
  BY <1>2 DEF IInv, RunsInv
<1>4. starts[j] \in 0 .. Size /\ starts[j + 1] \in 0 .. Size /\ counts[j] \in Nat
  <2>1. j \in 1 .. Len(starts) /\ j + 1 \in 1 .. Len(starts)
    BY <1>1
  <2> QED
    BY <1>1, <1>2, <2>1, ElementOfSeq
<1>5. idx = starts[j]
  BY DEF IInv, DecoderInv
<1>6. Min({starts[j + 1], Size}) = starts[j + 1]
  <2>1. {starts[j + 1], Size} \in SUBSET Nat
    BY <1>1, <1>4
  <2>2. Min({starts[j + 1], Size}) \in {starts[j + 1], Size} /\ Min({starts[j + 1], Size}) <= starts[j + 1]
    BY <2>1, LeastMember
  <2> QED
    BY <1>1, <1>4, <2>2
<1>7. idx' = starts[j + 1]
  BY <1>3, <1>5, <1>6 DEF DrawRun
<1>8. j + 1 = k + 2 /\ j - 1 = k
  BY <1>1
<1>9. painted' = IF k % 2 = 1 THEN painted \union Paint(idx, idx', width) ELSE painted
  BY DEF DrawRun
<1>10. AllAre(idx, idx', k % 2)
  BY <1>3, <1>5, <1>7, <1>8
<1>11. idx \in Nat /\ idx' \in 0 .. Size /\ idx <= idx'
  <2>1. idx \in 0 .. Size /\ idx' \in 0 .. Size /\ counts[j] \in Nat
    BY <1>4, <1>5, <1>7
  <2>2. idx' = idx + counts[j]
    BY <1>3, <1>5, <1>7
  <2> HIDE DEF j
  <2> QED
    BY <2>1, <2>2
<1>12. idx = starts[k + 1] /\ idx' = starts[k + 2] /\ k' = k + 1
  BY <1>5, <1>7, <1>8 DEF DrawRun
<1> QED
  BY <1>1, <1>9, <1>10, <1>11, <1>12

LEMMA DrawRunStep == IInv /\ DrawRun => IInv'
<1> SUFFICES ASSUME IInv, DrawRun PROVE IInv'
  OBVIOUS
<1>1. UNCHANGED <<picture, encoder>> /\ bbox # <<>>
  BY DEF DrawRun
<1>2. UNCHANGED <<height, width, mask, pos, current_val, current_count, counts, bbox, starts>>
  BY <1>1 DEF picture, encoder
<1>3. TypeOK'
  <2>1. k' \in 0 .. Len(counts) /\ idx' \in 0 .. Size
    BY TurnEnds DEF IInv, TypeOK
  <2> QED
    BY <1>1, <1>2, <2>1, PictureStays DEF IInv, TypeOK
<1>4. RunsInv' /\ CurrentInv'
  BY <1>1, <1>2, PictureStays DEF IInv, RunsInv, CurrentInv, AllAre
<1>5. DecoderInv'
  <2>1. Paint(0, idx', width) = Paint(0, idx, width) \union Paint(idx, idx', width)
    BY TurnEnds, PaintMore
  <2>2. painted = mask \intersect Paint(0, idx, width)
    BY DEF IInv, DecoderInv
  <2>3. k % 2 \in {0, 1}
    BY TurnEnds DEF IInv, TypeOK
  <2>4. mask \intersect Paint(idx, idx', width) = IF k % 2 = 1 THEN Paint(idx, idx', width) ELSE {}
    BY <2>3, TurnEnds, RunIsInOrOut
  <2>5. painted' = mask \intersect Paint(0, idx', width)
    BY <2>1, <2>2, <2>4, TurnEnds
  <2>6. Paint(0, idx', width) = Paint(0, idx, width)'
    BY <1>2 DEF Paint, Cell
  <2>7. idx' = starts'[k' + 1]
    <3>1. k' + 1 = k + 2
      BY TurnEnds
    <3> QED
      BY <1>2, <3>1, TurnEnds
  <2> QED
    BY <1>1, <1>2, <2>5, <2>6, <2>7 DEF DecoderInv
<1> QED
  BY <1>3, <1>4, <1>5 DEF IInv

LEMMA StutterStep == IInv /\ UNCHANGED vars => IInv'
<1> SUFFICES ASSUME IInv, UNCHANGED vars PROVE IInv'
  OBVIOUS
<1>1. UNCHANGED <<picture, encoder, decoder>>
  BY DEF vars
<1>2. UNCHANGED <<height, width, mask, pos, current_val, current_count, counts, bbox, starts, k, idx, painted>>
  BY <1>1 DEF picture, encoder, decoder
<1>3. TypeOK'
  BY <1>1, <1>2, PictureStays DEF IInv, TypeOK
<1>4. RunsInv' /\ CurrentInv' /\ DecoderInv'
  BY <1>1, <1>2, PictureStays DEF IInv, RunsInv, CurrentInv, DecoderInv, AllAre, Paint, Cell
<1> QED
  BY <1>3, <1>4 DEF IInv

-----------------------------------------------------------------------------
(* The theorems.                                                              *)

\* For any size and mask: the runs that have ended, the one that is being
\* counted and what is painted are parts of one picture.
THEOREM Invariance == Spec => []IInv
<1>1. IInv /\ [Next]_vars => IInv'
  BY SamePixelStep, OtherPixelStep, LastRunStep, DrawRunStep, StutterStep DEF Next
<1> QED
  BY <1>1, InitIInv, PTL DEF Spec

\* The loop invariant of encode_mask_rle holds for every mask.
THEOREM PrefixIsEncoded == Spec => []EncodesPrefix
<1>1. IInv => EncodesPrefix
  <2> SUFFICES ASSUME IInv PROVE EncodesPrefix
    OBVIOUS
  <2> DEFINE n == Len(counts)
  <2>1. /\ counts \in Seq(Nat) /\ current_count \in Nat /\ n \in Nat /\ pos \in 0 .. Size
        /\ starts \in Seq(0 .. Size) /\ Len(starts) = n + 1
        /\ \A j \in 1 .. n : counts[j] \in Nat
        /\ \A j \in 1 .. n + 1 : starts[j] \in Nat
    <3>1. /\ counts \in Seq(Nat) /\ current_count \in Nat /\ n \in Nat /\ pos \in 0 .. Size
          /\ starts \in Seq(0 .. Size) /\ Len(starts) = n + 1
      BY DEF IInv, TypeOK, RunsInv
    <3>2. \A j \in 1 .. Len(starts) : starts[j] \in 0 .. Size
      BY <3>1, ElementOfSeq
    <3>3. \A j \in 1 .. n : counts[j] \in Nat
      BY <3>1, ElementOfSeq
    <3>4. 0 .. Size \subseteq Nat
      BY SizeIsPositive DEF IInv
    <3> QED
      BY <3>1, <3>2, <3>3, <3>4
  <2>2. ASSUME NEW j \in 1 .. n
        PROVE  /\ counts[j] = 0 => j = 1
               /\ \A p \in starts[j] .. starts[j] + counts[j] - 1 : Pixel(p) = (j - 1) % 2
               /\ starts[j] + counts[j] = starts[j + 1]
               /\ j < Len(starts)
    <3>1. /\ counts[j] = 0 => j = 1
          /\ starts[j + 1] = starts[j] + counts[j]
          /\ AllAre(starts[j], starts[j + 1], (j - 1) % 2)
      BY <2>2 DEF IInv, RunsInv
    <3>2. AllAre(starts[j], starts[j] + counts[j], (j - 1) % 2)
      BY <3>1
    <3>3. j < Len(starts)
      BY <2>1, <2>2
    <3>4. \A p \in starts[j] .. starts[j] + counts[j] - 1 : Pixel(p) = (j - 1) % 2
      <4>1. starts[j] \in Nat /\ counts[j] \in Nat
        BY <2>1, <2>2
      <4>2. starts[j] + counts[j] - 1 = (starts[j] + counts[j]) - 1
        BY <4>1
      <4> QED
        BY <3>2, <4>2 DEF AllAre
    <3> QED
      BY <3>1, <3>3, <3>4
  <2>3. CASE bbox = <<>>
    <3>1. /\ Len(Runs) = n + 1 /\ Runs[n + 1] = current_count
          /\ \A j \in 1 .. n : Runs[j] = counts[j]
      BY <2>1, <2>3 DEF Runs
    <3>2. /\ current_count = 0 => n = 0
          /\ \A p \in starts[n + 1] .. starts[n + 1] + current_count - 1 : Pixel(p) = n % 2
          /\ starts[n + 1] + current_count = pos
          /\ current_val = n % 2
      <4>1. /\ current_count = 0 => counts = <<>>
            /\ pos = starts[n + 1] + current_count
            /\ AllAre(starts[n + 1], pos, current_val)
            /\ current_val = n % 2
        BY <2>1, <2>3 DEF IInv, CurrentInv
      <4>2. AllAre(starts[n + 1], starts[n + 1] + current_count, n % 2)
        BY <4>1
      <4>3. current_count = 0 => n = 0
        BY <2>1, <4>1
      <4>4. \A p \in starts[n + 1] .. starts[n + 1] + current_count - 1 : Pixel(p) = n % 2
        <5>1. starts[n + 1] \in Nat /\ current_count \in Nat
          BY <2>1
        <5>2. starts[n + 1] + current_count - 1 = (starts[n + 1] + current_count) - 1
          BY <5>1
        <5> QED
          BY <4>2, <5>2 DEF AllAre
      <4> QED
        BY <4>1, <4>3, <4>4
    <3>3. ASSUME NEW j \in 1 .. Len(Runs)
          PROVE  /\ Runs[j] = 0 => j = 1
                 /\ \A p \in starts[j] .. starts[j] + Runs[j] - 1 : Pixel(p) = (j - 1) % 2
                 /\ starts[j] + Runs[j] = IF j < Len(starts) THEN starts[j + 1] ELSE pos
      <4>1. CASE j = n + 1
        BY <2>1, <3>1, <3>2, <4>1
      <4>2. CASE j \in 1 .. n
        BY <2>2, <3>1, <4>2
      <4> QED
        BY <2>1, <3>1, <4>1, <4>2
    <3> QED
      BY <2>1, <2>3, <3>2, <3>3 DEF EncodesPrefix
  <2>4. CASE bbox # <<>>
    <3>1. Runs = counts
      BY <2>4 DEF Runs
    <3>2. counts # <<>> /\ current_val = (n - 1) % 2
      BY <2>4 DEF IInv, CurrentInv
    <3>3. Len(Tail(counts)) = n - 1
      BY <2>1, <3>2
    <3> QED
      BY <2>1, <2>2, <2>4, <3>1, <3>2, <3>3 DEF EncodesPrefix
  <2> QED
    BY <2>3, <2>4
<1> QED
  BY <1>1, Invariance, PTL

\* Decoding in TypeScript gives back what was encoded in Python, for every
\* size and mask.
THEOREM DrawnIsMask == Spec => []RoundTrip
<1>1. IInv => RoundTrip
  <2> SUFFICES ASSUME IInv, Drawn PROVE idx = Size /\ painted = mask
    BY DEF RoundTrip
  <2>1. idx = Size
    BY DEF Drawn, IInv, TypeOK, RunsInv, CurrentInv, DecoderInv
  <2>2. mask \subseteq Paint(0, Size, width)
    BY AllCells DEF IInv, TypeOK, Size
  <2> QED
    BY <2>1, <2>2 DEF IInv, DecoderInv
<1> QED
  BY <1>1, Invariance, PTL

\* The rows and columns of a mask, and their bounds.
LEMMA Sides ==
  ASSUME TypeOK, mask # {}
  PROVE  LET ys == {c.row : c \in mask}
             xs == {c.col : c \in mask}
         IN  /\ Min(xs) \in xs /\ \A x \in xs : Min(xs) <= x
             /\ Max(xs) \in xs /\ \A x \in xs : x <= Max(xs)
             /\ Min(ys) \in ys /\ \A y \in ys : Min(ys) <= y
             /\ Max(ys) \in ys /\ \A y \in ys : y <= Max(ys)
             /\ xs \subseteq Nat /\ ys \subseteq Nat
<1> DEFINE ys == {c.row : c \in mask}
           xs == {c.col : c \in mask}
<1>1. height - 1 \in Nat /\ width - 1 \in Nat
  BY DEF TypeOK
<1>2. \A c \in mask : c.row \in 0 .. height - 1 /\ c.col \in 0 .. width - 1
  BY DEF TypeOK, Cells
<1>3. xs \in SUBSET (0 .. width - 1) /\ ys \in SUBSET (0 .. height - 1) /\ xs # {} /\ ys # {}
  BY <1>2
<1>4. xs \in SUBSET Nat /\ ys \in SUBSET Nat
  BY <1>3
<1> HIDE DEF xs, ys
<1>5. Min(xs) \in xs /\ \A x \in xs : Min(xs) <= x
  BY <1>3, <1>4, LeastMember
<1>6. Min(ys) \in ys /\ \A y \in ys : Min(ys) <= y
  BY <1>3, <1>4, LeastMember
<1>7. Max(xs) \in xs /\ \A x \in xs : x <= Max(xs)
  BY <1>1, <1>3, GreatestMember
<1>8. Max(ys) \in ys /\ \A y \in ys : y <= Max(ys)
  BY <1>1, <1>3, GreatestMember
<1> QED
  BY <1>4, <1>5, <1>6, <1>7, <1>8 DEF xs, ys

\* mask_to_bbox's box touches what is drawn on all four sides and holds all
\* of it, for every size and mask.
THEOREM BoxBoundsDrawn == Spec => []BoxIsTight
<1>1. IInv /\ RoundTrip => BoxIsTight
  <2> SUFFICES ASSUME IInv, painted = mask, bbox # <<>>, painted # {}
               PROVE  /\ painted \subseteq [row : bbox[2] .. bbox[4], col : bbox[1] .. bbox[3]]
                      /\ \E c \in painted : c.col = bbox[1]
                      /\ \E c \in painted : c.row = bbox[2]
                      /\ \E c \in painted : c.col = bbox[3]
                      /\ \E c \in painted : c.row = bbox[4]
    BY DEF BoxIsTight, RoundTrip, Drawn
  <2> DEFINE ys == {c.row : c \in mask}
             xs == {c.col : c \in mask}
  <2>1. bbox = <<Min(xs), Min(ys), Max(xs), Max(ys)>>
    BY DEF IInv, TypeOK, Box
  <2>2. bbox[1] = Min(xs) /\ bbox[2] = Min(ys) /\ bbox[3] = Max(xs) /\ bbox[4] = Max(ys)
    BY <2>1
  <2>3. /\ bbox[1] \in xs /\ \A x \in xs : bbox[1] <= x
        /\ bbox[3] \in xs /\ \A x \in xs : x <= bbox[3]
        /\ bbox[2] \in ys /\ \A y \in ys : bbox[2] <= y
        /\ bbox[4] \in ys /\ \A y \in ys : y <= bbox[4]
        /\ xs \subseteq Nat /\ ys \subseteq Nat
    BY <2>2, Sides DEF IInv
  <2>4. ASSUME NEW c \in mask
        PROVE  c \in [row : bbox[2] .. bbox[4], col : bbox[1] .. bbox[3]]
    <3>1. c = [row |-> c.row, col |-> c.col]
      BY DEF IInv, TypeOK, Cells
    <3>2. c.row \in ys /\ c.col \in xs
      OBVIOUS
    <3>3. c.row \in bbox[2] .. bbox[4] /\ c.col \in bbox[1] .. bbox[3]
      BY <2>3, <3>2
    <3> QED
      BY <3>1, <3>3
  <2> QED
    BY <2>3, <2>4
<1> QED
  BY <1>1, Invariance, DrawnIsMask, PTL
=============================================================================
