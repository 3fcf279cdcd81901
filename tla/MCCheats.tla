------------------------------ MODULE MCCheats ------------------------------
(***************************************************************************)
(* Instances of Cheats for TLC: two cartridges, a database that knows the  *)
(* stem of both, and names in two spellings.                               *)
(***************************************************************************)
EXTENDS Cheats

CONSTANTS first, second,            \* the cartridges
          a1, a2, b1, e1, p1, mine, \* codes
          blank

TwoGames == {first, second}

MCHeader == [g \in Games |->
    IF g = first THEN [check |-> 0, stem |-> "SM", region |-> "E", version |-> 1]
                 ELSE [check |-> 7, stem |-> "SM", region |-> "J", version |-> 0]]

Row(check, region, version, groups) ==
    [check |-> check, stem |-> "SM", region |-> region, version |-> version, groups |-> groups]
Cheat(n, c) == [name |-> n, code |-> c]

\* The wildcard row is first, as in the file; the cartridge of version 1 has
\* a row of its own, the other one is known by its check code.
MCDatabase ==
    << Row(0, "?", AnyVersion, <<Cheat("Lives", a1), Cheat("Moon", e1)>>),
       Row(0, "E", AnyVersion, <<Cheat("Lives", a2)>>),
       Row(0, "E", 1, <<Cheat("Lives", a2), Cheat("Warp", p1)>>),
       Row(7, "J", 0, <<Cheat("Lives", b1)>>) >>

\* The card's file is the update; the cartridge's is the one it was built with.
Copy(known, count, index) == [there |-> TRUE, known |-> known, count |-> count, rows |-> index]
NoCopy == [there |-> FALSE, known |-> FALSE, count |-> 0, rows |-> <<>>]
MCCopies == [card |-> Copy(TRUE, 4, MCDatabase), cartridge |-> Copy(TRUE, 1, SubSeq(MCDatabase, 1, 1))]

\* The database is the newer file's rows, all that it says it has, or none: a
\* copy on the card that cannot be used hides the cartridge's (cheatdb.c:112,
\* 135, 152, 170).
ASSUME DatabaseIsWhole ==
    \A known \in BOOLEAN, count \in {0, 1, 4, 5, 20001}, card \in BOOLEAN :
        LET it == Copy(known, count, MCDatabase)
            got == Opened(IF card THEN [MCCopies EXCEPT !.card = it] ELSE [card |-> NoCopy, cartridge |-> it])
        IN  IF known /\ count \in {1, 4} THEN got = SubSeq(MCDatabase, 1, count) ELSE got = <<>>

MCNames == {"", " ", "Lives", "LIVES", "Moon", "Warp", "NEW CHEAT"}
MCFold == [n \in MCNames |-> IF n = "Lives" THEN "LIVES" ELSE n]
MCTrim == [n \in MCNames |-> IF n = " " THEN "" ELSE n]
MCLines == [c \in {a1, a2, b1, e1, p1, mine, blank} |-> IF c = p1 THEN 2 ELSE 1]

\* The console with a flash cartridge, where a button may come in a sheet's
\* first frame; and the emulator, whose launches come back.
MCSetups == {[dummy |-> FALSE, hasty |-> TRUE], [dummy |-> TRUE, hasty |-> FALSE]}
=============================================================================
