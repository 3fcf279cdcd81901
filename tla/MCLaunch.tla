----------------------------- MODULE MCLaunch -----------------------------
(***************************************************************************)
(* Instances of Launch for TLC; and what the picture scaler, the           *)
(* cartridge's layout, the clock page, the boot chips and the card's       *)
(* report promise, over bounded inputs.                                    *)
(***************************************************************************)
EXTENDS Launch, Sequences, SequencesExt, TLC

CONSTANTS mario, chrono, snake, ann, bob

\* mario runs by itself, chrono in a core that is there, snake in one that
\* is not.
ThreeGames == {mario, chrono, snake}

-----------------------------------------------------------------------------
LOCAL P == INSTANCE Scaler

LOCAL Size(w, h) == [w |-> w, h |-> h]
LOCAL Sources == {Size(w, h) : w \in {1, 2, 3, 5, 8, 13}, h \in {1, 2, 3, 4, 7, 9, 13}}
LOCAL Tiles == {Size(w, h) : w \in {1, 3, 5, 7}, h \in {1, 2, 4, 5, 8}}

\* The crop lies within the source, is the whole of it one way, and has the
\* tile's shape to within a pixel: never letterboxed and never squashed.
LOCAL Fits(src, dst) ==
    LET c == P!Plan(src, dst)
    IN  /\ c.x >= 0 /\ c.y >= 0 /\ c.x + c.w <= src.w /\ c.y + c.h <= src.h
        /\ c.w = src.w \/ c.h = src.h
        /\ c.w < 2 \/ c.h < 2 \/ (c.w * dst.h < (c.h + 1) * dst.w /\ c.h * dst.w < (c.w + 1) * dst.h)
ASSUME CropsFit == \A src \in Sources, dst \in Tiles : Fits(src, dst)

\* Every pixel of the crop is folded into one pixel of the tile, every pixel of
\* the tile shows some, in the source's order, and one that none was folded into
\* shows the one that is nearest to it.
LOCAL Whole(src, dst) ==
    LET c == P!Plan(src, dst)
        cols == P!Columns(c, dst)
        run == P!Folded(c, dst)
        rows == P!Scaled(c, dst, P!StopAt(c, src))
        nearest(y) == c.y + ((y * c.h) \div dst.h)
    IN  /\ UNION {run[x] : x \in DOMAIN run} = 0 .. c.w - 1
        /\ \A x, z \in DOMAIN run : x < z => run[x] \cap run[z] = {}
        /\ \A x \in DOMAIN cols : cols[x] # {}
        /\ UNION {rows[y] : y \in DOMAIN rows} = c.y .. c.y + c.h - 1
        /\ \A y \in DOMAIN rows : rows[y] # {}
        /\ \A y, z \in DOMAIN rows : (y < z) => \/ rows[y] = rows[z]
                                              \/ \A a \in rows[y], b \in rows[z] : a < b
        /\ \A y \in DOMAIN rows \ {0} : (rows[y] = rows[y - 1]) => nearest(y) \in rows[y]
ASSUME EveryPixelIsFilled == \A src \in Sources, dst \in Tiles : Whole(src, dst)

\* The average is exact, as image_decoder.c:610-624 says: for as many pixels as
\* a tile folds into one, and one short of the next value.
ASSUME AveragesAreExact ==
    \A n \in 1 .. 70 \cup {255, 256, 257, 1000, 1023, 1024, 2047, 2048, 2470, 4095, 4096}, v \in {1, 2, 3, 127, 254, 255} :
        P!Average(v * n, n) = v /\ P!Average(v * n - 1, n) = v - 1

\* An eighth of the picture is taken only if what is cropped from it fills at
\* least seven eighths of the tile.
ASSUME EighthIsEnough ==
    \A w \in {8, 700, 800, 888, 980, 1020, 2081}, h \in {8, 488, 611, 747, 990, 1400}, dst \in {Size(109, 155), Size(140, 140), Size(140, 98)} :
        LET src == Size(w, h)
            c == P!Plan(P!Decoded(src, dst), dst)
        IN  (P!Reduce(src, dst)) => (c.w * 8 >= (dst.w - 1) * 7 /\ c.h * 8 >= (dst.h - 1) * 7)

\* Every pixel of a band is stored once, whatever the picture's units.
LOCAL Units == {Size(8, 8), Size(16, 8), Size(8, 16), Size(16, 16)}
ASSUME EveryPixelIsStored ==
    \A mcu \in Units, w \in {9, 16, 21}, reduce \in BOOLEAN :
        LET across == IF reduce THEN (w + 7) \div 8 ELSE w
            s == P!Stores(mcu, (w + mcu.w - 1) \div mcu.w, across, reduce)
        IN  /\ {<<p.x, p.y>> : p \in s} = (0 .. across - 1) \X (0 .. P!BandH(mcu, reduce) - 1)
            /\ Cardinality(s) = across * P!BandH(mcu, reduce)

\* The size is the frame's, whatever comes before it: paddings, restarts, tables
\* and a thumbnail within another part; and a chain that was lost, that is over
\* or that has no frame has none.
LOCAL Part(marker, length) == [lead |-> 255, marker |-> marker, length |-> length, whole |-> TRUE, w |-> 3, h |-> 4]
LOCAL Harmless == {Part(255, 0), Part(208, 0), Part(1, 0), Part(196, 20), Part(225, 9), Part(200, 9)}
LOCAL Fatal == {Part(217, 0), Part(218, 12), Part(225, 1), [Part(224, 9) EXCEPT !.lead = 0], Part(192, 6),
                [Part(194, 9) EXCEPT !.whole = FALSE], [Part(192, 9) EXCEPT !.w = 0]}
LOCAL Jpeg(chain) == P!Probe([magic |-> "jpeg", chain |-> chain])
ASSUME SizeIsTheFrames ==
    /\ \A before \in UNION {[1 .. n -> Harmless] : n \in 0 .. 3}, frame \in {Part(192, 9), Part(194, 17), Part(207, 7)}, after \in Harmless \cup Fatal :
           Jpeg(before \o <<frame, after>>) = [is |-> "ok", w |-> 3, h |-> 4]
    /\ \A before \in UNION {[1 .. n -> Harmless] : n \in 0 .. 2}, bad \in Fatal :
           Jpeg(before) = [is |-> "bad"] /\ Jpeg(before \o <<bad, Part(192, 9)>>) = [is |-> "bad"]

\* A file that ends early never gives a row the whole one would not: what is
\* drawn is as it should be, and the rest is left clear.
ASSUME PartialIsPart ==
    \A kind \in {"png", "jpeg"}, src \in {Size(20, 20), Size(24, 40)}, dst \in {Size(16, 16), Size(3, 5)}, mcu \in Units, good \in {0, 7, 8, 9, 16, 20} :
        LET e == P!Ends(kind, src, dst, mcu, good)
        IN  (e.is = "ok") => \A y \in DOMAIN e.rows : e.rows[y] \in {{}, e.of[y]}
-----------------------------------------------------------------------------
LOCAL C == INSTANCE Clock

LOCAL IsDate(d) ==
    /\ d.year \in C!FirstYear .. C!LastYear /\ d.month \in 0 .. 11 /\ d.day \in 1 .. C!DaysInMonth(d.year, d.month)
    /\ d.hour \in 0 .. 23 /\ d.minute \in 0 .. 59
LOCAL Dates == {d \in [year : {2000, 2001, 2024, 2098, 2099}, month : {0, 1, 2, 3, 11}, day : {1, 28, 29, 30, 31},
                       hour : {0, 23}, minute : {0, 59}] : IsDate(d)}
LOCAL Keys == {"up", "down", "left", "right", "A", "B", "START"}
LOCAL OnPage == [edit : Dates, cursor : 1 .. 5, error : {"", "outside"}, to : {"clock"}]

\* Whatever is pressed, the page shows a date there is, so that what is set is
\* what is shown (screen_clock.c:91-97), and an error goes when the date changes.
ASSUME AlwaysADate ==
    /\ \A y \in {1970, 1999} : IsDate(C!Entered([CHOOSE d \in Dates : TRUE EXCEPT !.year = y]).edit)
    /\ \A c \in OnPage, k \in {{x} : x \in Keys} \cup {{"up", "right"}, {"down", "left"}, {"up", "down"}} :
            LET n == C!Update(c, k, TRUE, TRUE)
            IN  IsDate(n.edit) /\ n.cursor \in 1 .. 5 /\ ((n.edit # c.edit) => n.error = "")

\* Only a date the clock holds and took leaves the page by A or START, and B
\* leaves it whatever else is pressed.
ASSUME OnlyTakenLeaves ==
    \A c \in {x \in OnPage : x.edit.year = 2024 /\ x.edit.hour = 0}, k \in SUBSET {"up", "right", "A", "B"}, has, takes \in BOOLEAN :
        C!Update(c, k, has, takes).to = "settings" <=> "B" \in k \/ ("A" \in k /\ has /\ takes)

\* A step back undoes a step, unless the day had to be pulled into a shorter
\* month or the year was at its end.
ASSUME StepsUndo ==
    \A d \in Dates, f \in {C!Fields[i] : i \in 1 .. 5}, delta \in {1, -1} :
        LET there == C!Step(d, f, delta)
        IN  (there # d /\ (f = "day" \/ there.day = d.day)) => C!Step(there, f, -delta) = d
-----------------------------------------------------------------------------
LOCAL L == INSTANCE CartLayout

LOCAL RomSizes == {0, 1, 255, 256, L!MiB(8), L!InRam - 1, L!InRam, L!InRam + 1, L!InRam + 255, L!MiB(64),
                   L!MiB(64) + 1, L!MiB(64) + 257, L!MaxRom}
LOCAL Ends(size) == {a \in {0, 1, size \div 2, L!InRam - 1, L!InRam, L!InRam + 1, L!MiB(64) - 1, L!MiB(64), size - 1} : 0 <= a /\ a < size}

\* The console reads every sector of a game where it was put: the parts follow
\* each other in the file, and the registers map each where it belongs.
ASSUME GameIsReadWhole ==
    \A n \in RomSizes : \A a \in Ends(n) :
        \E i \in 1 .. 3 : LET part == L!Parts(n)[i]
            IN  /\ L!From(n, i) <= a /\ a < L!From(n, i) + part.size
                /\ L!Seen(L!Shadowed(n), L!ExtendedIn(n), a) = part.to + a - L!From(n, i)
\* And no part of it lies over another, over what the save is loaded from, or
\* past the end of the memory.
ASSUME PartsLieApart ==
    \A n \in RomSizes : \A i, j \in 1 .. 3 :
        LET p == L!Parts(n)[i] q == L!Parts(n)[j]
        IN  /\ (i # j) => p.to + p.size <= q.to \/ q.to + q.size <= p.to \/ p.size = 0 \/ q.size = 0
            /\ p.size >= 0 /\ p.to + p.size <= L!EepromAddress /\ L!Parts(n)[1].size <= L!InRam
            /\ L!ExtendedIn(n) <=> L!Parts(n)[3].size > 0

\* What is read or erased in pieces is read whole, once.
ASSUME PiecesAddUp ==
    \A size \in {0, 1, 7, 8, 9, 16, 255, 257}, chunk \in {1, 8, 256} :
        LET c == L!Chunks(size, chunk)
        IN  UNION {c[i].at .. c[i].at + c[i].size - 1 : i \in DOMAIN c} = 0 .. size - 1
            /\ \A i, j \in DOMAIN c : i < j => c[i].at + c[i].size <= c[j].at

\* A save goes back to its own sectors, in order, wherever its clusters lie; and
\* every save has room in the list the cartridge keeps.
ASSUME SaveGoesHome ==
    /\ \A t \in L!SaveTypes : L!SaveSize[t] <= L!MaxSaveSectors
    /\ \A per \in {1, 2, 4}, size \in 0 .. 7, chain \in {<<5, 2, 9, 3, 7, 4, 6>>, <<2, 3, 4, 5, 6, 7, 8>>} :
        LET s == L!SectorList(chain, per, [c \in 2 .. 9 |-> 100 + (c - 2) * per], size, L!MaxSaveSectors)
        IN  ~ s.error /\ s.list = [i \in 1 .. size |-> 100 + (chain[(i - 1) \div per + 1] - 2) * per + ((i - 1) % per)]
\* A chain that ends before its file is refused.
ASSUME BrokenChainIsRefused ==
    \A per \in {1, 2}, size \in 3 .. 6 : L!SectorList(<<4>>, per, [c \in {4} |-> c], size, 256).error

\* An emulated game goes behind its core, whole but for a copier's header, and
\* never past the cartridge's memory.
ASSUME EmulatedGameFits ==
    \A emu \in DOMAIN L!Emulators, bytes \in {0, 511, 512, 513, 1024, 1536, 524288, 524800, 65011712, 65012224} :
        LET f == L!LoadFile(L!Sectors(bytes), L!GameAt, L!Skipped(emu, bytes))
        IN  IF f.error THEN L!Sectors(bytes) > L!MiB(62)
            ELSE f.from + f.size = L!Sectors(bytes) /\ f.to + f.size <= L!ExtendedAddress /\ f.from \in {0, 1}
-----------------------------------------------------------------------------
LOCAL Code(seed, sum) == [x \in L!Seeds |-> IF x = seed THEN sum ELSE "0"]

\* A boot code is given the seed it was recognised with: what the console will
\* compute from it is what the chip expects.
ASSUME SeedIsWhatMatched ==
    \A i \in DOMAIN L!Known :
        LET k == L!Known[i] b == L!BootSeed(L!Automatic, Code(k.seed, k.sum))
        IN  b.seed = k.seed /\ b.detect /\ L!Detect(Code(k.seed, k.sum)) = k.chip
\* One that nobody knows starts as the commonest does, and a chip that was
\* chosen is believed whatever the boot code is.
ASSUME ChosenChipIsBelieved ==
    /\ L!BootSeed(L!Automatic, Code("3F", "0")).seed = "3F"
    /\ \A chip \in L!Chips, i \in DOMAIN L!Known :
        L!BootSeed(chip, Code(L!Known[i].seed, L!Known[i].sum)) = [seed |-> L!SeedOf(chip), detect |-> FALSE]
-----------------------------------------------------------------------------
LOCAL R == INSTANCE CardStat
LOCAL Reports ==
    [storage : {"", "sd:/", "rom:/"}, writable : BOOLEAN, small : BOOLEAN, busiest : {0, 79, 80},
     systems : {{}, {"N64", "GB"}}, cores : {{}, {"GB"}}, booted : BOOLEAN, slack : {0, 320}, gap : {100, 900},
     hit : {TRUE}, repaired : {FALSE}, scanLong : {FALSE}, indexLong : {FALSE}, cheats : {TRUE}, dummy : {FALSE}]
LOCAL Alarming == {"nothing saved", "no pak", "split it", "missing", "stalled"}
LOCAL Alarms(c) == {row.value : row \in {R!Info(c, 16)[i] : i \in DOMAIN R!Info(c, 16)}} \cap Alarming
LOCAL Word == ("read-only" :> "nothing saved") @@ ("no pak" :> "no pak") @@ ("busy folder" :> "split it")
              @@ ("cores missing" :> "missing") @@ ("music stalled" :> "stalled")

\* The plate and the page of facts say the same (cardstat.h:7-9): two warnings,
\* or as many as there are, the most urgent first, and none on a card with
\* nothing wrong; an emulator is never called a card that is locked.
ASSUME PlateSaysWhatThePageSays ==
    \A c \in Reports :
        LET plate == R!Plate(c, 2)
            told == {Word[plate[i]] : i \in DOMAIN plate}
        IN  /\ told \subseteq Alarms(c) /\ Cardinality(told) = Len(plate)
            /\ Cardinality(told) = (IF Cardinality(Alarms(c)) < 2 THEN Cardinality(Alarms(c)) ELSE 2)
            /\ "nothing saved" \in Alarms(c) => plate[1] = "read-only" /\ c.storage = "sd:/"
            /\ \A n \in 1 .. 10 : \E m \in 0 .. 16 : R!Info(c, n) = SubSeq(R!Info(c, 16), 1, m)
-----------------------------------------------------------------------------
LOCAL S == INSTANCE Sound
LOCAL Booted == S!InitEffects(S!Reconfigure(S!Off, S!Frequency))
LOCAL Levels == {-1, 0, 5, 10, 11}
LOCAL After == {S!Volume(s, b) : s \in {S!Volume(Booted, a) : a \in Levels}, b \in Levels}

\* Whatever the level has been, an effect that is played has its file, and is
\* heard as loud as the setting says; and the level set before there is a mixer
\* is not lost (sound.c:129-130).
ASSUME EffectsAreHeardAsSet ==
    \A s \in After : /\ S!Plays(s) => s.open /\ s.volume > 0
                      /\ s.mixed = s.volume /\ (S!Plays(s) <=> s.volume > 0)
                      /\ S!InitEffects(S!Reconfigure(S!Volume(S!Off, 5), S!Frequency)).mixed = 5
\* With the effects off their files stay open when the menu ends.
ASSUME SilentEffectsStayOpen == \A s \in After : S!Deinit(s).open <=> s.volume = 0
\* Eight buffers of forty milliseconds are what sound.c:49 says they are, and the
\* worst gap is the longest between two polls since it was last asked for.
ASSUME WorstGap ==
    /\ S!Slack(Booted, 640) = 320
    /\ \A a, b, c \in 1 .. 4 :
        LET s == S!Poll(S!Poll(S!Poll(Booted, a), a + b), a + b + c)
        IN  s.worst = (IF b > c THEN b ELSE c) /\ S!Poll(S!Forgotten(s), a + b + c + 2).worst = 2
=============================================================================
