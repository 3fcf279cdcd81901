------------------------------- MODULE Scaler -------------------------------
(***************************************************************************)
(* Covers measured (menu/image_probe.c) and scaled as they are decoded     *)
(* (menu/image_decoder.c): a crop of the source with the shape of the tile *)
(* is folded into it one source row at a time.  A picture here says, for   *)
(* each of its rows, which source rows were averaged into it, and for each *)
(* column which columns; no rows at all are the cleared background.        *)
(***************************************************************************)
EXTENDS Integers, Sequences, SequencesExt, FiniteSets, FiniteSetsExt

AtLeast1(n) == IF n < 1 THEN 1 ELSE n

\* scaler_plan(): the largest crop of the tile's shape; a wide source loses both
\* its sides, a tall one two parts in five of its excess at the top.
Plan(src, dst) ==
    IF src.w * dst.h > dst.w * src.h
    THEN LET w == (src.h * dst.w) \div dst.h
         IN  [x |-> (src.w - w) \div 2, y |-> 0, w |-> AtLeast1(w), h |-> AtLeast1(src.h)]
    ELSE LET h == (src.w * dst.h) \div dst.w
         IN  [x |-> 0, y |-> ((src.h - h) * 2) \div 5, w |-> AtLeast1(src.w), h |-> AtLeast1(h)]

\* The columns of the crop that fold into each column of the tile: colrun.
Folded(crop, dst) ==
    [x \in 0 .. dst.w - 1 |-> {sx \in 0 .. crop.w - 1 : (sx * dst.w) \div crop.w = x}]
\* A column without any shows its neighbour on the left, or the first that has
\* some.
Columns(crop, dst) ==
    LET run == Folded(crop, dst)
        some == {x \in DOMAIN run : run[x] # {}}
        left(x) == {k \in some : k <= x}
    IN  [x \in DOMAIN run |-> IF left(x) # {} THEN run[Max(left(x))] ELSE run[Min(some)]]
-----------------------------------------------------------------------------
(***************************************************************************)
(* Rows.  at is the row of the tile that source rows are being folded      *)
(* into, flushed the last one drawn.                                       *)
(***************************************************************************)
Blank(dst) == [at |-> -1, folded |-> {}, flushed |-> -1, rows |-> [y \in 0 .. dst.h - 1 |-> {}]]

RowAt(crop, dst, sy) == ((sy - crop.y) * dst.h) \div crop.h
IsLast(crop, sy) == sy + 1 >= crop.y + crop.h

\* scaler_flush(): rows that were passed over are filled from above; after the
\* last source row so is what is below.
Flush(d, row, last) ==
    [d EXCEPT !.flushed = row,
              !.rows = [y \in DOMAIN @ |-> IF d.flushed >= 0 /\ d.flushed < y /\ y < row THEN @[d.flushed]
                                           ELSE IF y = row \/ (last /\ y > row) THEN d.folded ELSE @[y]]]

\* scaler_add_row()
AddRow(crop, dst, d, sy) ==
    LET row == RowAt(crop, dst, sy)
        f == [d EXCEPT !.at = row, !.folded = IF row # d.at THEN {sy} ELSE @ \cup {sy}]
    IN  IF sy < crop.y \/ sy >= crop.y + crop.h \/ row >= dst.h THEN d
        ELSE IF RowAt(crop, dst, sy + 1) = row /\ ~ IsLast(crop, sy) THEN f
        ELSE Flush(f, row, IsLast(crop, sy))

\* The tile after the first n rows of the source.
Scaled(crop, dst, n) ==
    FoldLeft(LAMBDA d, i : AddRow(crop, dst, d, i - 1), Blank(dst), [i \in 1 .. n |-> i]).rows

\* Where decoding stops: at the bottom of the crop.
StopAt(crop, src) == IF crop.y + crop.h < src.h THEN crop.y + crop.h ELSE src.h
-----------------------------------------------------------------------------
(***************************************************************************)
(* The average of n pixels that add up to a: a * i >> 32, where i is       *)
(* 0xFFFFFFFF / n + 1 in 32 bits, worked out a byte at a time.             *)
(***************************************************************************)
InverseBytes(n) ==
    LET step(st, i) == [rest |-> (st.rest * 256 + 255) % n, q |-> Append(st.q, (st.rest * 256 + 255) \div n)]
    IN  FoldLeft(step, [rest |-> 0, q |-> <<>>], <<1, 2, 3, 4>>).q
MulHigh(a, q) == FoldLeft(LAMBDA carry, b : (carry + a * b) \div 256, a, Reverse(q))
Average(a, n) == IF n = 1 THEN a ELSE MulHigh(a, InverseBytes(n))
-----------------------------------------------------------------------------
(***************************************************************************)
(* JPEG.  An eighth of the picture is enough, and one pixel of each block  *)
(* of eight by eight is then all that is decoded.                          *)
(***************************************************************************)
Eighth(src) == [w |-> (src.w + 7) \div 8, h |-> (src.h + 7) \div 8]
Reduce(src, dst) == Eighth(src).w * 8 >= dst.w * 7 /\ Eighth(src).h * 8 >= dst.h * 7
Decoded(src, dst) == IF Reduce(src, dst) THEN Eighth(src) ELSE src
BandH(mcu, reduce) == IF reduce THEN mcu.h \div 8 ELSE mcu.h

\* jpeg_fill_band(): what is stored in pixel x, y of a band w wide: the block of
\* the unit and the place in the block; the units of a row are counted from 0.
Stores(mcu, units, w, reduce) ==
    LET blocks == (0 .. mcu.w \div 8 - 1) \X (0 .. mcu.h \div 8 - 1)
        block(b) == b[2] * (mcu.w \div 8) + b[1]
        all == IF reduce
               THEN {[x |-> u * (mcu.w \div 8) + b[1], y |-> b[2], unit |-> u, block |-> block(b), at |-> 0] :
                        u \in 0 .. units - 1, b \in blocks}
               ELSE {[x |-> u * mcu.w + b[1] * 8 + (p % 8), y |-> b[2] * 8 + (p \div 8),
                      unit |-> u, block |-> block(b), at |-> p] :
                        u \in 0 .. units - 1, b \in blocks, p \in 0 .. 63}
    IN  {s \in all : s.x < w /\ s.y < BandH(mcu, reduce)}

(***************************************************************************)
(* How a decode ends when only good rows of the source can be read: a PNG  *)
(* is refused as a whole, a JPEG gives what it has if it has a row at all, *)
(* and comes in bands.                                                     *)
(***************************************************************************)
Ends(kind, src, dst, mcu, good) ==
    LET from == IF kind = "jpeg" THEN Decoded(src, dst) ELSE src
        crop == Plan(from, dst)
        band == IF kind = "jpeg" THEN BandH(mcu, Reduce(src, dst)) ELSE 1
        got == (good \div band) * band
        ok(n) == [is |-> "ok", rows |-> Scaled(crop, dst, n), of |-> Scaled(crop, dst, StopAt(crop, from))]
    IN  IF got >= StopAt(crop, from) \/ good >= from.h THEN ok(StopAt(crop, from))
        ELSE IF kind = "jpeg" /\ got > 0 THEN ok(got) ELSE [is |-> "bad"]
(***************************************************************************)
(* image_probe_size(): a cover's size without decoding it.  A JPEG is a    *)
(* chain of parts: whether it begins with 255, its marker, the length it   *)
(* gives, and the size it holds if it is a frame that is all there.        *)
(***************************************************************************)
Alone == {1} \cup 208 .. 216                    \* markers without a length
Stops == {217, 218}                             \* the end, or the pixels
Frames == 192 .. 207 \ {196, 200, 204}

Sized(w, h) == IF w > 0 /\ h > 0 THEN [is |-> "ok", w |-> w, h |-> h] ELSE [is |-> "bad"]
Walk(found, part) ==
    CASE found.is # "walking" -> found
      [] found.is = "walking" /\ (part.lead # 255 \/ part.marker \in Stops) -> [is |-> "bad"]
      [] found.is = "walking" /\ part.lead = 255 /\ part.marker \in {255} \cup Alone -> found
      [] OTHER -> IF part.length < 2 THEN [is |-> "bad"]
                  ELSE IF part.marker \notin Frames THEN found
                  ELSE IF part.length >= 7 /\ part.whole THEN Sized(part.w, part.h) ELSE [is |-> "bad"]
Probe(file) ==
    CASE file.magic = "jpeg" ->
           LET end == FoldLeft(Walk, [is |-> "walking"], file.chain) IN IF end.is = "walking" THEN [is |-> "bad"] ELSE end
      [] file.magic = "png" /\ file.whole -> Sized(file.w, file.h)
      [] OTHER -> [is |-> "bad"]
=============================================================================
