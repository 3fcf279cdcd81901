----------------------------- MODULE MCLibIndex -----------------------------
(***************************************************************************)
(* Instances of LibIndex for TLC: a root, two folders in it, and a folder  *)
(* below the depth the scan reaches.                                       *)
(***************************************************************************)
EXTENDS LibIndex

CONSTANTS zelda, hack, metroid, untitled, quest

\* zelda and hack are N64 builds that share a header; metroid is another
\* system's game.
TwoGames == {zelda, hack}
ThreeGames == {zelda, hack, metroid}
TwoNames == {"LEGEND", quest}
ZeldaNamed == {<<zelda, quest>>, <<zelda, untitled>>}
SnesNamed == {<<metroid, quest>>}
Headers == [x \in Games \X Builds |-> IF x[1] = metroid THEN NoName ELSE "LEGEND"]

TreeParent == <<0, 1, 1, 2>>
TreeDepth == <<0, 1, 1, 2>>

Rom(g, b) == [kind |-> "rom", game |-> g, is |-> b]
Cover(g, how) == [kind |-> "cover", game |-> g, is |-> how]
Note(g, n) == [kind |-> "sidecar", game |-> g, is |-> n]

\* Every entry has a size of its own, and no two sets of them the same sum.
Powers == [e \in Entries |->
    2 ^ (CASE e.kind = "rom"     -> (IF e.game = zelda THEN 0 ELSE IF e.game = hack THEN 2 ELSE 4) + e.is - 1
           [] e.kind = "cover"   -> 6 + (IF e.game = zelda THEN 0 ELSE IF e.game = hack THEN 2 ELSE 4) + (IF e.is = "code" THEN 1 ELSE 0)
           [] e.kind = "sidecar" -> 12 + (IF e.game = zelda THEN 0 ELSE IF e.game = hack THEN 2 ELSE 4) + (IF e.is = quest THEN 1 ELSE 0))]

\* Cartridge images come in a few sizes.
Equal == [e \in Entries |-> IF e.kind = "rom" THEN 8 ELSE IF e.kind = "cover" THEN 1 ELSE 2]

FewEntries == <<{Rom(zelda, 1), Cover(zelda, "code")},
                {Rom(zelda, 2), Rom(hack, 1), Cover(zelda, "name")},
                {}, {}>>

\* 3 is one directory more than the walk has room for, 4 is out of its reach.
Tree(ds, a, b) == [dirs |-> ds, files |-> <<a, b, {}, {}>>]

TwoCards == {Tree({1, 2, 4}, {}, {Rom(zelda, 1), Rom(hack, 1)}),
             Tree({1, 2}, {Cover(zelda, "code")}, {Rom(zelda, 1)})}
OneSnes == {Tree({1, 2}, {}, {Rom(metroid, 1)})}
=============================================================================
