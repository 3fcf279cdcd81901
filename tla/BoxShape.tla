------------------------------ MODULE BoxShape ------------------------------
(***************************************************************************)
(* What shape a tile is (library/boxart.c, and the geometry of the grid in *)
(* ui/theme.h): an aspect gets the widest column that still shows two      *)
(* whole rows, and a card may override a system's shape in a section.      *)
(*                                                                         *)
(* An aspect is w : h.  The landscape one, 1.4286 in the code, is 10 : 7;  *)
(* rounding is exact here and in single precision there.                   *)
(***************************************************************************)
EXTENDS Integers, Sequences, SequencesExt, FiniteSets

Gap == 12
GridW == 596
GridH == 352
ColumnW(c) == (GridW - (c - 1) * Gap) \div c
WideW == ColumnW(4)
NarrowW == ColumnW(5)
MinH == 64
MaxH == 176

\* A selected tile reaches out of its cell by its growth and its outline above,
\* its growth and its shadow below.
Grown == 4
PadTop == Grown + 2
PadBottom == Grown + 6
TwoRowH == (GridH - PadTop - PadBottom - Gap) \div 2

None == [w |-> 0, h |-> 0]
Kinds == <<"portrait", "square", "landscape">>
Aspect == [portrait |-> <<127, 181>>, square |-> <<1, 1>>, landscape |-> <<10, 7>>]
Builtin == [n64 |-> <<127, 181>>, nes |-> <<127, 180>>, snes |-> <<127, 181>>,
            gb |-> <<126, 126>>, gbc |-> <<126, 126>>, sms |-> <<128, 179>>]
Systems == DOMAIN Builtin

\* a * b / c to the nearest.
Scaled(a, b, c) == (2 * a * b + c) \div (2 * c)
HeightAt(width, a) == Scaled(width, a[2], a[1])

\* fit_aspect()
FitAspect(a) ==
    LET wide == HeightAt(WideW, a)
        narrow == HeightAt(NarrowW, a)
    IN  IF wide <= TwoRowH THEN [w |-> WideW, h |-> IF wide < MinH THEN MinH ELSE wide]
        ELSE [w |-> NarrowW, h |-> IF narrow > MaxH THEN MaxH ELSE narrow]

\* shape_from(): a shape that would have to be clamped is none.
ShapeFrom(spec) ==
    IF Len(spec) # 2 THEN None
    ELSE IF spec[1] <= 0 \/ spec[2] <= 0 THEN None
    ELSE LET s == FitAspect(spec) IN IF HeightAt(s.w, spec) = s.h THEN s ELSE None

\* boxart_shape_at()
ShapeAt(kind) == FitAspect(Aspect[kind])

\* boxart_fit_into(): as wide as the cell, or as tall.
FitInto(s, cellW, cellH) ==
    LET h == (s.h * cellW + (s.w \div 2)) \div s.w
    IN  IF s = None \/ cellW <= 0 \/ cellH <= 0 THEN None
        ELSE IF h <= cellH THEN [w |-> cellW, h |-> h]
        ELSE [w |-> (s.w * cellH + (s.h \div 2)) \div s.h, h |-> cellH]

\* boxart_snap(): the kind whose aspect is nearest as a ratio, the first of
\* those that are as near; unknown for a picture without a size.
Apart(w, h, kind) ==
    LET x == w * Aspect[kind][2]
        y == h * Aspect[kind][1]
    IN  IF x >= y THEN <<x, y>> ELSE <<y, x>>
Nearer(p, q) == p[1] * q[2] < q[1] * p[2]
Snap(w, h) ==
    IF w <= 0 \/ h <= 0 THEN "unknown"
    ELSE Kinds[CHOOSE i \in 1 .. 3 :
                 /\ \A j \in 1 .. 3 : ~ Nearer(Apart(w, h, Kinds[j]), Apart(w, h, Kinds[i]))
                 /\ \A j \in 1 .. i - 1 : Nearer(Apart(w, h, Kinds[i]), Apart(w, h, Kinds[j]))]
-----------------------------------------------------------------------------
(***************************************************************************)
(* The regions: automatic, the built-in table, and the file's sections,    *)
(* each a record of its name and the specs it has.                         *)
(***************************************************************************)
MaxRegions == 8
Fixed == <<"Automatic", "NTSC">>

\* boxart_init(): sections without a name, or with one too long, are left out.
Regions(sections) ==
    LET named == SelectSeq(sections, LAMBDA s : s.fits)
        room == IF Len(named) < MaxRegions - 2 THEN Len(named) ELSE MaxRegions - 2
    IN  Fixed \o [i \in 1 .. room |-> named[i].name]
Wanted(names, want) == IF want \in Range(names) THEN SelectInSeq(names, LAMBDA n : n = want) ELSE 1

\* resolve(): the section is looked up by its name; a bad spec keeps the shape.
Table(sections, names, current) ==
    [sys \in Systems |->
        LET at == IF current <= 2 THEN 0 ELSE SelectInSeq(sections, LAMBDA s : s.name = names[current])
            over == IF at = 0 THEN None
                    ELSE IF sys \in DOMAIN sections[at].specs THEN ShapeFrom(sections[at].specs[sys]) ELSE None
        IN  IF over = None THEN ShapeFrom(Builtin[sys]) ELSE over]
Tallest(table) == CHOOSE s \in {table[sys] : sys \in Systems} : \A sys \in Systems : table[sys].h <= s.h

\* thumbcache_record_shape(): what a record is drawn as.
RecordShape(table, current, system, kind) ==
    IF current # 1 THEN table[IF system \in Systems THEN system ELSE "n64"]
    ELSE ShapeAt(IF kind = "unknown" THEN "landscape" ELSE kind)
-----------------------------------------------------------------------------
(***************************************************************************)
(* How many tiles a console holds (menu/memprofile.c): from what is free   *)
(* when the cache is made, and without the pak at half size.               *)
(***************************************************************************)
Reserve == 131072
FewestSlots == 3
MostSlots == 36
ArtDivisor(small) == IF small THEN 2 ELSE 1
WorstTileBytes(small) == (140 \div ArtDivisor(small)) * (162 \div ArtDivisor(small)) * 2
ThumbSlots(free, small) ==
    LET affordable == (free - Reserve) \div WorstTileBytes(small)
    IN  IF affordable > MostSlots THEN MostSlots ELSE IF affordable < FewestSlots THEN FewestSlots ELSE affordable

\* thumbcache_store_shape()
StoreShape(s, small) == [w |-> s.w \div ArtDivisor(small), h |-> s.h \div ArtDivisor(small)]
=============================================================================
