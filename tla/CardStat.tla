------------------------------ MODULE CardStat ------------------------------
(***************************************************************************)
(* What the menu says of the card (menu/cardstat.c): up to two warnings on *)
(* the plate it starts under, and a page of facts.  A record c has what    *)
(* is known: the storage, whether it can be written, the memory, the       *)
(* library, the cores that were found, and what the start took.            *)
(***************************************************************************)
EXTENDS Integers, Sequences, SequencesExt

BusyWarn == 80
CoreSystems == {"NES", "SNES", "GB", "GBC", "SMS"}

OnCard(c) == c.storage = "sd:/"
ReadOnly(c) == OnCard(c) /\ ~ c.writable
Starved(c) == c.booted /\ c.slack > 0 /\ c.gap > c.slack
Missing(c) == (c.systems \cap CoreSystems) \ c.cores
Busy(c) == c.busiest >= BusyWarn

\* cardstat_probe_cores(): without storage nothing is looked for.
Probed(storage, found) == IF storage = "" THEN {} ELSE found \cap CoreSystems

If(shown, line) == IF shown THEN <<line>> ELSE <<>>
UpTo(n, lines) == SubSeq(lines, 1, IF n < Len(lines) THEN n ELSE Len(lines))

\* cardstat_plate(): most urgent first.
Plate(c, cap) ==
    UpTo(2, UpTo(cap, If(ReadOnly(c), "read-only") \o If(c.small, "no pak") \o If(Busy(c), "busy folder")
                      \o If(Missing(c) # {}, "cores missing") \o If(Starved(c), "music stalled")))

\* cardstat_info(): what each row says.
Card(c) == IF ~ OnCard(c) THEN "emulator" ELSE IF c.writable THEN "writable" ELSE "nothing saved"
Library(c) ==
    IF ~ c.hit THEN (IF c.scanLong THEN "scanned, seconds" ELSE "scanned")
    ELSE IF c.repaired THEN "repaired" ELSE IF c.indexLong THEN "cached, seconds" ELSE "cached"
Folder(c) == IF Busy(c) THEN "split it" ELSE "files"
Audio(c) == IF Starved(c) THEN "stalled" ELSE IF c.slack > 0 THEN "ok, measured" ELSE "ok"

Row(label, value) == [label |-> label, value |-> value]
Info(c, cap) ==
    UpTo(cap, <<Row("Card", Card(c)), Row("Memory", IF c.small THEN "no pak" ELSE "8 MB"), Row("Titles", "count")>>
        \o If(c.booted, Row("Library", Library(c)))
        \o If(c.busiest > 0, Row("Folder", Folder(c)))
        \o <<Row("Emulators", IF Missing(c) # {} THEN "missing" ELSE "found"),
             Row("Cheats", IF c.cheats THEN "database" ELSE "none")>>
        \o If(c.booted, Row("Audio", Audio(c)))
        \o <<Row("Players", "count"), Row("Firmware", IF c.dummy THEN "none" ELSE "version")>>)
=============================================================================
