------------------------------ MODULE MaskCodec ------------------------------
(***************************************************************************)
(* The way of one mask from the model to the screen: encode_mask_rle and   *)
(* mask_to_bbox on the back end (utils/mask_encoder.py), the loop over the *)
(* runs in renderMask and in the two export modes on the front end.        *)
(*                                                                         *)
(* A mask is the set of its pixels.  Pixel number p of a picture of width  *)
(* w, counted in row order from 0, is in row p \div w and column p % w:    *)
(* mask.flatten() and ImageData both count like that.                      *)
(***************************************************************************)
EXTENDS Integers, Sequences, FiniteSetsExt

CONSTANTS MaxHeight, MaxWidth    \* bounds on the size of a picture

ASSUME SizeAssumption == MaxHeight \in Nat \ {0} /\ MaxWidth \in Nat \ {0}

VARIABLES
    height, width,  \* mask.shape
    mask,           \* the pixels that are set, as [row, col]
    pos,            \* the encoder's loop: pixels read
    current_val,
    current_count,
    counts,         \* the runs, zeros first
    bbox,           \* the box of the answer, or <<>> before there is one
    starts,         \* where each run begins (history)
    k,              \* the decoder's loop: runs drawn
    idx,
    painted         \* the pixels of the ImageData that were painted

picture == <<height, width, mask>>
encoder == <<pos, current_val, current_count, counts, bbox, starts>>
decoder == <<k, idx, painted>>
vars == <<picture, encoder, decoder>>

Cells(h, w) == [row : 0 .. h - 1, col : 0 .. w - 1]
Cell(p, w) == [row |-> p \div w, col |-> p % w]
Pixel(p) == IF Cell(p, width) \in mask THEN 1 ELSE 0
Size == height * width

\* The pixels numbered from .. to - 1 in an ImageData of width w.
Paint(from, to, w) == {Cell(p, w) : p \in from .. to - 1}

Init ==
    /\ height \in 1 .. MaxHeight
    /\ width \in 1 .. MaxWidth
    /\ mask \in SUBSET Cells(height, width)
    /\ pos = 0
    /\ current_val = 0
    /\ current_count = 0
    /\ counts = <<>>
    /\ bbox = <<>>
    /\ starts = <<0>>
    /\ k = 0
    /\ idx = 0
    /\ painted = {}

-----------------------------------------------------------------------------
(* encode_mask_rle. *)

SamePixel ==
    /\ pos < Size
    /\ Pixel(pos) = current_val
    /\ current_count' = current_count + 1
    /\ pos' = pos + 1
    /\ UNCHANGED <<picture, current_val, counts, bbox, starts, decoder>>

\* Mutant: the pixel that ends a run is not counted in the next one.
OtherPixelUncounted ==
    /\ pos < Size
    /\ Pixel(pos) # current_val
    /\ counts' = Append(counts, current_count)
    /\ current_val' = 1 - current_val
    /\ current_count' = 0
    /\ starts' = Append(starts, pos)
    /\ pos' = pos + 1
    /\ UNCHANGED <<picture, bbox, decoder>>

\* Also for the very first pixel, whose run of zeros is empty then.
OtherPixel ==
    /\ pos < Size
    /\ Pixel(pos) # current_val
    /\ counts' = Append(counts, current_count)
    /\ current_val' = 1 - current_val
    /\ current_count' = 1
    /\ starts' = Append(starts, pos)
    /\ pos' = pos + 1
    /\ UNCHANGED <<picture, bbox, decoder>>

\* Mutant: np.where's two arrays are taken in the wrong order.
BoxTransposed ==
    LET xs == {c.row : c \in mask}
        ys == {c.col : c \in mask}
    IN IF mask = {} THEN <<0, 0, 0, 0>>
       ELSE <<Min(xs), Min(ys), Max(xs), Max(ys)>>

\* mask_to_bbox: [x_min, y_min, x_max, y_max].
Box ==
    LET ys == {c.row : c \in mask}
        xs == {c.col : c \in mask}
    IN IF mask = {} THEN <<0, 0, 0, 0>>
       ELSE <<Min(xs), Min(ys), Max(xs), Max(ys)>>

\* After the loop: the last run, then the box; the answer is sent.
LastRun ==
    /\ pos = Size
    /\ bbox = <<>>
    /\ counts' = Append(counts, current_count)
    /\ starts' = Append(starts, pos)
    /\ bbox' = Box
    /\ UNCHANGED <<picture, pos, current_val, current_count, decoder>>

-----------------------------------------------------------------------------
(* renderMask, and the same loop in ExportButton. *)

\* Mutant: the size is read as [w, h].
DrawRunTransposed ==
    LET to == Min({idx + counts[k + 1], height * width})
    IN
    /\ bbox # <<>>
    /\ k < Len(counts)
    /\ painted' = IF k % 2 = 1 THEN painted \union Paint(idx, to, height)
                               ELSE painted
    /\ idx' = to
    /\ k' = k + 1
    /\ UNCHANGED <<picture, encoder>>

\* One turn of the loop over the runs; the inner loop stops at w * h.  val is
\* 1 in every second run.
DrawRun ==
    LET to == Min({idx + counts[k + 1], Size})
    IN
    /\ bbox # <<>>
    /\ k < Len(counts)
    /\ painted' = IF k % 2 = 1 THEN painted \union Paint(idx, to, width)
                               ELSE painted
    /\ idx' = to
    /\ k' = k + 1
    /\ UNCHANGED <<picture, encoder>>

Next == SamePixel \/ OtherPixel \/ LastRun \/ DrawRun

Spec == Init /\ [][Next]_vars

Drawn == bbox # <<>> /\ k = Len(counts)

-----------------------------------------------------------------------------
(* Properties. *)

\* The runs so far, with the one that is being counted.
Runs == IF bbox = <<>> THEN Append(counts, current_count) ELSE counts

\* At every turn of the encoder's loop the runs partition the pixels read,
\* alternate from zero, and only the first one may be empty: the loop
\* invariant of encode_mask_rle.
EncodesPrefix ==
    /\ pos \in 0 .. Size
    /\ Len(starts) = Len(counts) + 1
    /\ current_val = Len(IF bbox = <<>> THEN counts ELSE Tail(counts)) % 2
    /\ \A j \in 1 .. Len(Runs) :
          /\ Runs[j] = 0 => j = 1
          /\ \A p \in starts[j] .. starts[j] + Runs[j] - 1 : Pixel(p) = (j - 1) % 2
          /\ starts[j] + Runs[j] = IF j < Len(starts) THEN starts[j + 1] ELSE pos

\* What is drawn, and what is exported, is the model's mask: size, order of
\* pixels and the colour of the first run agree between Python and TypeScript.
RoundTrip == Drawn => idx = Size /\ painted = mask

\* The box of the answer is the tightest around what is drawn.
BoxIsTight ==
    Drawn /\ painted # {} =>
        LET xmin == bbox[1]  ymin == bbox[2]  xmax == bbox[3]  ymax == bbox[4] IN
        /\ painted \subseteq [row : ymin .. ymax, col : xmin .. xmax]
        /\ \E c \in painted : c.col = xmin
        /\ \E c \in painted : c.row = ymin
        /\ \E c \in painted : c.col = xmax
        /\ \E c \in painted : c.row = ymax

-----------------------------------------------------------------------------
(* The inductive invariant of MaskCodec_proofs.                              *)

TypeOK ==
    /\ height \in Nat \ {0} /\ width \in Nat \ {0}
    /\ mask \subseteq Cells(height, width)
    /\ pos \in 0 .. Size
    /\ current_val \in {0, 1}
    /\ current_count \in Nat
    /\ counts \in Seq(Nat)
    /\ starts \in Seq(0 .. Size)
    /\ bbox \in {<<>>, Box}
    /\ k \in 0 .. Len(counts)
    /\ idx \in 0 .. Size

\* The pixels numbered from .. to - 1 all have the value val.
AllAre(from, to, val) == \A p \in from .. to - 1 : Pixel(p) = val

\* The runs that have ended: each begins where the one before it ends.
RunsInv ==
    /\ Len(starts) = Len(counts) + 1
    /\ starts[1] = 0
    /\ \A j \in 1 .. Len(counts) :
          /\ counts[j] = 0 => j = 1
          /\ starts[j + 1] = starts[j] + counts[j]
          /\ AllAre(starts[j], starts[j + 1], (j - 1) % 2)

\* The run that is being counted, and how the last one leaves things.
CurrentInv ==
    IF bbox = <<>>
    THEN /\ current_val = Len(counts) % 2
         /\ current_count = 0 => counts = <<>>
         /\ pos = starts[Len(starts)] + current_count
         /\ AllAre(starts[Len(starts)], pos, current_val)
    ELSE /\ counts # <<>>
         /\ current_val = (Len(counts) - 1) % 2
         /\ pos = Size /\ starts[Len(starts)] = Size

\* What is painted after k runs is the part of the mask before the next one.
DecoderInv ==
    /\ idx = starts[k + 1]
    /\ painted = mask \intersect Paint(0, idx, width)
    /\ bbox = <<>> => k = 0

IInv ==
    /\ TypeOK
    /\ RunsInv
    /\ CurrentInv
    /\ DecoderInv
=============================================================================
