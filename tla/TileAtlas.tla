----------------------------- MODULE TileAtlas -----------------------------
(***************************************************************************)
(* What the art atlas promises to the rest of the menu, with files, slots  *)
(* and power cuts left out: a lookup for a cover returns the tile that was *)
(* cut from that cover, at the shape it was cut to, or nothing.  Tiles are *)
(* only ever added, one per cover; a power cut may lose some, because      *)
(* every one of them can be decoded again.                                 *)
(***************************************************************************)
CONSTANTS
    Sources,    \* covers on the card, each a path and a file size
    Shapes      \* the shapes a tile can be cut to

VARIABLE found  \* what lookups can return: the key asked for, and the tile

Tile(s, sh) == [src |-> s, shape |-> sh]

Tiles == [src : Sources, shape : Shapes]

\* A lookup entry that answers with the tile it is filed under.
Entry(s, sh) == [src |-> s, shape |-> sh, tile |-> Tile(s, sh)]

\* Is there a tile for this cover, at whatever shape?
Known(s) == \E e \in found : e.src = s

\* Is there a tile for this cover at this shape?
Fits(s, sh) == \E e \in found : e.src = s /\ e.shape = sh

AtlasInit == found = {}

Store(s, sh) ==
    /\ ~ Known(s)
    /\ found' = found \cup {Entry(s, sh)}

Lose == \E kept \in SUBSET found : found' = kept

AtlasNext ==
    \/ \E s \in Sources, sh \in Shapes : Store(s, sh)
    \/ Lose

AtlasSpec == AtlasInit /\ [][AtlasNext]_found
=============================================================================
