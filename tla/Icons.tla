------------------------------- MODULE Icons -------------------------------
(***************************************************************************)
(* The faces players wear (ui/icon.c): thousands of drawings in a pack, an *)
(* index of their categories, and a cache of drawn ones for each of two    *)
(* sizes.  Drawing is slow, so a screen only asks, and a frame's pump      *)
(* draws what each cache was last asked for.                               *)
(*                                                                         *)
(* A key is <<icon, ink, paper>>.  The touches that order a cache's        *)
(* entries are the order of lru, the oldest first: an entry that is not    *)
(* valid is room, as one that was never filled.                            *)
(***************************************************************************)
EXTENDS Integers, Sequences, SequencesExt

None == -1              \* ICON_NONE
Nothing == <<>>         \* no request

(***************************************************************************)
(* The pack f and the index m as they are found: whole when all that their *)
(* headers promise can be read into memory; f.room, for the buffers a      *)
(* drawing needs.  A pack without that room is not open, yet it counts.    *)
(***************************************************************************)
OpenPack(f) ==
    IF f.there /\ f.magic = "SVGP" /\ f.version = 1 /\ f.count \in 1 .. 65535 /\ f.whole
    THEN [count |-> f.count, open |-> f.room] ELSE [count |-> 0, open |-> FALSE]

NoIndex == [cats |-> <<>>, order |-> <<>>, starters |-> <<>>]
OpenMeta(m) ==
    IF m.there /\ m.magic = "ICNM" /\ m.version = 2 /\ m.cats # <<>> /\ m.order # <<>> /\ m.whole
    THEN [cats |-> m.cats, order |-> m.order, starters |-> m.starters] ELSE NoIndex

Empty(n) == [n |-> n, lru |-> <<>>, want |-> Nothing]

\* icon_init(): the caches are allocated behind a pack that opened; when they
\* cannot be there are no icons at all.
IconInit(f, m, cells, fits) ==
    LET p == OpenPack(f)
        n == IF p.open THEN cells ELSE 0
    IN  [count |-> IF p.open /\ ~fits THEN 0 ELSE p.count, meta |-> IF p.open THEN OpenMeta(m) ELSE NoIndex,
         small |-> Empty(n), large |-> Empty(IF p.open THEN 2 ELSE 0)]

\* Categories are runs in one order, counted from 0.
CatSize(meta, c) == IF c \in 0 .. Len(meta.cats) - 1 THEN meta.cats[c + 1].count ELSE 0
CatAt(meta, c, nth) ==
    IF nth \notin 0 .. CatSize(meta, c) - 1 \/ meta.cats[c + 1].first + nth \notin 0 .. Len(meta.order) - 1
    THEN None ELSE meta.order[meta.cats[c + 1].first + nth + 1]
StarterIcon(meta, slot, count) ==
    IF slot \in 0 .. Len(meta.starters) - 1 /\ meta.starters[slot + 1] < count
    THEN meta.starters[slot + 1] ELSE None
-----------------------------------------------------------------------------
Resident(c, k) == k \in Range(c.lru)
Touch(c, k) == [c EXCEPT !.lru = Append(Remove(@, k), k)]
Known(c, k, count) == c.n > 0 /\ k[1] \in 0 .. count - 1

\* icon_get(): what is there is shown and touched.
Get(c, k, count) == IF Known(c, k, count) /\ Resident(c, k) THEN Touch(c, k) ELSE c

\* icon_request(): what is there is touched; what is not, asked for - and only
\* the last that was.
Request(c, k, count) ==
    IF ~Known(c, k, count) THEN c ELSE IF Resident(c, k) THEN Touch(c, k) ELSE [c EXCEPT !.want = k]

\* pick_victim(): a free entry, or the least recently touched.
Evicted(c) == IF Len(c.lru) < c.n THEN c ELSE [c EXCEPT !.lru = Tail(@)]

\* decode(): a drawing that cannot be read costs nothing; one that cannot be
\* drawn has cost the entry it was to have.
Decode(c, Unread, Unfit) ==
    LET k == c.want
        d == [c EXCEPT !.want = Nothing]
    IN  IF k = Nothing \/ k[1] \in Unread THEN d
        ELSE IF k[1] \in Unfit THEN Evicted(d)
        ELSE [Evicted(d) EXCEPT !.lru = Append(@, k)]

\* icon_pump(): the preview first; the frame's time may be gone by then.
Pump(icons, late, Unread, Unfit) ==
    [icons EXCEPT !.large = Decode(@, Unread, Unfit),
                  !.small = IF late THEN @ ELSE Decode(@, Unread, Unfit)]

\* A frame of one cache: what a screen draws, then asks for, then the pump.
Frame(c, drawn, asked, count) ==
    LET shown == FoldLeft(LAMBDA d, k : Get(d, k, count), c, drawn)
    IN  Decode(FoldLeft(LAMBDA d, k : Request(d, k, count), shown, asked), {}, {})
-----------------------------------------------------------------------------
(***************************************************************************)
(* Who asks.  The appearance screen, for its page from the cells farthest  *)
(* from the cursor to the cursor's own, whose request so is the last       *)
(* (screen_appearance.c); the players' screen, for every card in order     *)
(* (screen_profiles.c), and its faces are there when all that exist are.   *)
(***************************************************************************)
Farthest(cell, perPage) ==
    LET Pair(d) == SelectSeq(<<cell - d, cell + d>>, LAMBDA i : i \in 0 .. perPage - 1)
    IN  FlattenSeq([d \in 1 .. perPage - 1 |-> Pair(perPage - d)]) \o <<cell>>
PageAsks(meta, cat, page, cell, perPage, ink, paper) ==
    LET at == [i \in 1 .. perPage |-> CatAt(meta, cat, page * perPage + Farthest(cell, perPage)[i])]
    IN  [i \in DOMAIN SelectSeq(at, LAMBDA x : x # None) |-> <<SelectSeq(at, LAMBDA x : x # None)[i], ink, paper>>]

FacesAreThere(c, faces, count) == \A k \in Range(faces) : k[1] \in 0 .. count - 1 => Resident(c, k)
WorthRevealing(icons, faces) == icons.count = 0 \/ FacesAreThere(icons.small, faces, icons.count)
=============================================================================
