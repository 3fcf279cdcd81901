----------------------------- MODULE MCScreens -----------------------------
(***************************************************************************)
(* Two titles of one given name, played or not; a lone player and two; two *)
(* songs; and tours that take each pair of screens that leave something for *)
(* one another.  And what holds of the pure parts of the interface - the   *)
(* keyboard, the panes and lists, the faces' caches, the pad - over all    *)
(* their inputs within small bounds, or with their real sizes where these  *)
(* are named.                                                              *)
(***************************************************************************)
EXTENDS Screens, SequencesExt, TLC

MCSystems == <<"N64">>
MCTitles == 1 .. 2
MCGiven == <<<<1>>, <<1>>>>
MCPathTitle == <<<<2, 2>>, <<1, 2>>>>
MCSystem == [t \in MCTitles |-> "N64"]
MCSlots == 0 .. 1
MCLooks == {[icon |-> i, plate |-> p, ink |-> 0] : i \in {1, 2}, p \in {0, 1}}
MCStarter == [p \in MCSlots |-> [icon |-> p + 1, plate |-> 1, ink |-> 0]]
MCTracks == 0 .. 1
MCThemes == <<"dusk", "snow">>

Player(n) == IF n = 0 THEN <<1>> ELSE <<2>>
Roster(u) ==
    [used |-> u, active |-> 0,
     name |-> [p \in MCSlots |-> IF p \in u THEN Player(p) ELSE <<>>],
     theme |-> [p \in MCSlots |-> IF p \in u THEN MCThemes[p + 1] ELSE ""],
     look |-> MCStarter]
Library(s) ==
    [custom |-> [t \in MCTitles |-> <<>>], fav |-> [p \in MCSlots |-> IF p = 0 THEN {1, 2} ELSE {1}], stamp |-> [p \in MCSlots |-> s]]
Set(t, v) == [track |-> t, music |-> v, boxart |-> FALSE, others |-> FALSE]

\* A boot: the tour, the players, what was played, the song and its volume.
Boot(t, u, s, track, v) == [tour |-> t, roster |-> Roster(u), lib |-> Library(s), set |-> Set(track, v)]
MCBoots ==
    {Boot({"DETAIL", "KEYBOARD", "TABS", "ART"}, {0}, s, -1, 0) : s \in {<<0, 0>>, <<2, 1>>}}
    \cup {Boot({"DETAIL", "CODE", "CHEATS", "LAUNCH", "LIKES"}, {0}, <<0, 1>>, 5, 1)}
    \cup {Boot({"PROFILES", "DETAIL", "TABS", "ART"}, {0, 1}, <<0, 1>>, -1, 0)}
    \cup {Boot({"DETAIL", "LIKES"}, {0}, <<0, 0>>, -1, 0)}
    \cup {Boot({"PROFILES", "KEYBOARD"}, {0, 1}, <<0, 0>>, -1, 0)}
    \cup {Boot({"PROFILES", "APPEARANCE"}, {0, 1}, <<0, 0>>, -1, 0)}
    \cup {Boot({"PROFILES", "SETTINGS", "theme"}, {0, 1}, <<0, 0>>, 1, 0)}
    \cup {Boot({"SETTINGS", "track", "music"}, {0}, <<0, 0>>, -1, 1)}
    \cup {Boot({"SETTINGS", "CODE", "CLOCK", "PARENTAL", "SYSINFO", "CREDITS", "boxart", "sfx"}, {0}, <<0, 0>>, -1, 0)}
-----------------------------------------------------------------------------
(***************************************************************************)
(* The grid's arithmetic, over small grids.                                *)
(***************************************************************************)
\* No move leaves the view, and every title can be reached from every other.
Reach(n, cols, from) ==
    LET More(cs) == cs \cup {Moved(k, c, n, cols) : k \in {"LEFT", "RIGHT", "UP", "DOWN"}, c \in cs}
    IN  FoldLeft(LAMBDA cs, i : More(cs), {from}, [i \in 1 .. n |-> i])
ASSUME MovesReachEverything ==
    \A n \in 1 .. 7, cols \in 1 .. 3 : \A c \in 0 .. n - 1 : Reach(n, cols, c) = 0 .. n - 1

\* Recent shows each played title once, newest first, the library's order
\* among equals; Favourites and a system's tab keep the library's order.
ASSUME RecentIsNewestFirst ==
    \A stamps \in [1 .. 3 -> 0 .. 2] :
        LET recs == [i \in 1 .. 3 |-> [system |-> "N64", fav |-> i # 2, stamp |-> stamps[i]]]
            v == TabView(recs, "recent")
        IN  /\ v = InsertionSorted(stamps, Kept(recs, "recent"))
            /\ Range(v) = {i \in 1 .. 3 : stamps[i] # 0} /\ IsInjective(v)
            /\ \A i, j \in DOMAIN v : i < j =>
                  stamps[v[i]] > stamps[v[j]] \/ (stamps[v[i]] = stamps[v[j]] /\ v[i] < v[j])
            /\ TabView(recs, "favorites") = <<1, 3>>

\* Wherever the cursor is, its whole row is in the window, and the art of all
\* that the window shows is asked for.
ASSUME CursorIsShown ==
    \A n \in 1 .. 7, cols \in 1 .. 3, h \in 1 .. 4, ahead \in 0 .. 1 :
        \A c \in 0 .. n - 1 :
            LET cell == [w |-> 2, h |-> h]
                pad == [top |-> 1, bottom |-> 1]
                gridH == h + 2
                scroll == ScrollTarget(c, n, cols, cell, pad, gridH)
                top == pad.top + (c \div cols) * RowPitch(cell)
            IN  /\ scroll <= top /\ top + h <= scroll + gridH
                /\ c \in AskedFor(scroll, n, cols, cell, gridH, ahead)

\* The columns fill the grid's width and one more would not fit.
ASSUME ColumnsFit ==
    \A w \in 1 .. GridW :
        LET n == ColsOf([w |-> w, h |-> 1])
        IN  n * (w + TileGap) - TileGap <= GridW /\ (n + 1) * (w + TileGap) - TileGap > GridW

\* The boxes of a tab decide the cell by their height alone.
ASSUME TallestDecides ==
    /\ CellOf(<<[w |-> 4, h |-> 3], [w |-> 3, h |-> 4], [w |-> 2, h |-> 4]>>, [w |-> 9, h |-> 9]) = [w |-> 3, h |-> 4]
    /\ CellOf(<<>>, [w |-> 9, h |-> 9]) = [w |-> 9, h |-> 9]

\* The generator never falls to zero from a word of one or two bits, is
\* seeded once, and never with zero.
Bit(i) == [Zero EXCEPT ![i] = TRUE]
ASSUME GeneratorRuns ==
    /\ \A i, j \in 0 .. 31 : i # j => NextRandom(Xor(Bit(i), Bit(j))) # Zero /\ NextRandom(Bit(i)) # NextRandom(Bit(j))
    /\ SeedRandom(Zero, Bit(3), Bit(3)) # Zero /\ SeedRandom(Bit(1), Bit(2), Zero) = Bit(1)

\* The mixer's volume rises with the step, from silence to unity.
ASSUME VolumeRises ==
    Q15(0, 32767) = 0 /\ Q15(Loudest, 32767) = 32767 /\ \A v \in 1 .. Loudest : Q15(v - 1, 32767) < Q15(v, 32767)

\* A name ends where its last letter does.
ASSUME NamesAreTrimmed == Trimmed(<<2, 0, 2, 0, 0>>) = <<2, 0, 2>> /\ Trimmed(<<0, 0>>) = <<>>

-----------------------------------------------------------------------------
(***************************************************************************)
(* The keyboard, with its real geometry.                                   *)
(***************************************************************************)
K == INSTANCE TextEntry WITH GlyphW <- 14
KeysOf(chars) == UNION {{<<r, c>> : c \in 0 .. K!RowLen(chars, r) - 1} : r \in 0 .. K!LastRow(chars)}
At(chars, k) == K!OnKey([K!Opened(chars, <<>>, FALSE) EXCEPT !.row = k[1]], k[2])
RECURSIVE Times(_, _, _)
Times(f, dir, n) == IF n = 0 THEN f ELSE Times(K!Update(f, {}, {dir}, 60), dir, n - 1)

\* A column survives a detour through shorter rows and through the actions:
\* as far down as there is to go, and back up (screen_keyboard.c:220).
ASSUME ColumnsSurvive ==
    \A chars \in {"name", "text"} : \A k \in KeysOf(chars) :
        \A n \in 0 .. K!LastRow(chars) + 1 - k[1] :
            LET back == Times(Times(At(chars, k), "down", n), "up", n)
            IN  <<back.row, back.col, back.zone>> = <<k[1], k[2], "keys">>

\* Down lands on the key underneath: none other of the row is nearer.
ASSUME DownIsUnderneath ==
    \A k \in KeysOf("text") : k[1] < K!LastRow("text") =>
        LET d == Times(At("text", k), "down", 1)
        IN  \A c \in 0 .. K!RowLen("text", d.row) - 1 :
                K!Far(K!KeyX("text", k[1], k[2]), K!KeyX("text", d.row, d.col))
                    <= K!Far(K!KeyX("text", k[1], k[2]), K!KeyX("text", d.row, c))

\* The keys both sets have are in the same places.
ASSUME SameKeysSamePlaces ==
    \A k \in KeysOf("name") : k \in KeysOf("text") /\ K!KeyX("name", k[1], k[2]) = K!KeyX("text", k[1], k[2])

\* Every key can be reached, from the first by right and down.
ASSUME EveryKeyIsReached ==
    \A k \in KeysOf("text") :
        \E r, d \in 0 .. 9 :
            LET f == Times(Times(K!Opened("text", <<>>, FALSE), "right", r), "down", d)
            IN  f.zone = "keys" /\ <<f.row, f.col>> = k

\* A one-letter fix: up into the field, left, back down, A - the new letter is
\* where the caret was put and the others are kept (the file's header).
ASSUME LetterIsFixedInPlace ==
    \A n \in 1 .. 8, left \in 0 .. 8 :
        LET f == K!Opened("text", [i \in 1 .. n |-> i], FALSE)
            put == Times(Times([f EXCEPT !.want = K!CaretX(f, 60)], "up", 1), "left", left)
            typed == K!Update(K!Update(put, {}, {"down"}, 60), {"A"}, {}, 60)
            at == IF left > n THEN 0 ELSE n - left
        IN  /\ put.caret = at /\ typed.caret = at + 1
            /\ K!Deleted(typed).text = f.text /\ Len(typed.text) = n + 1

\* However long the text and wherever the caret, the caret is in the box; a
\* name keeps to its limit and only one that may be empty is done when it is.
ASSUME FieldHolds ==
    /\ \A n \in 0 .. 63, countW \in {0, 60, 600} : \A at \in 0 .. n :
           LET f == [K!Opened("text", [i \in 1 .. n |-> 1], FALSE) EXCEPT !.caret = at]
           IN  K!CaretX(f, countW) + K!CaretW <= K!FieldX + K!BoxW(countW) \/ K!BoxW(countW) = K!CaretW
    /\ \A n \in 0 .. 10 :
           LET f == K!Update(K!Opened("name", [i \in 1 .. n |-> 1], n = 1), {"A"}, {}, 60)
           IN  Len(f.text) <= 8 /\ (n >= 8 => f.ends = "refused")
    /\ \A empty \in BOOLEAN : K!Confirmed(K!Opened("name", <<>>, empty)).ends = IF empty THEN "done" ELSE "refused"
-----------------------------------------------------------------------------
(***************************************************************************)
(* The faces' caches.  One ink, one paper; icon k's key is Key(k).         *)
(***************************************************************************)
I == INSTANCE Icons
Key(k) == <<k, 0, 0>>
RECURSIVE Frames(_, _, _, _)
Frames(c, drawn, wanted, n) ==
    IF n = 0 THEN c ELSE CHOOSE d \in {Frames(f, drawn, wanted, n - 1) : f \in {I!Frame(c, drawn, wanted, 99)}} : TRUE
Page(first, cell, perPage) == [i \in 1 .. perPage |-> Key(first + I!Farthest(cell, perPage)[i])]
Drawn(first, perPage) == [i \in 1 .. perPage |-> Key(first + i - 1)]

\* Every cell of a page is asked for once, the cursor's last.
ASSUME EveryCellIsAsked ==
    \A perPage \in {1, 6, 45} : \A cell \in 0 .. perPage - 1 :
        LET f == I!Farthest(cell, perPage)
        IN  Len(f) = perPage /\ Range(f) = 0 .. perPage - 1 /\ Last(f) = cell

\* A page fills nearest the cursor first and is whole after as many frames as
\* it has cells; then nothing more is drawn, wherever the cursor goes
\* (screen_appearance.c:405) - as long as the cache holds a page: here pages of
\* nine and thirteen entries for the real 45 and 64.
ASSUME PageFillsOnce ==
    \A cell \in {0, 4, 8} :
        LET Filled(n) == Range(Frames(I!Empty(13), Drawn(0, 9), Page(0, cell, 9), n).lru)
            full == Frames(I!Empty(13), Drawn(0, 9), Page(0, cell, 9), 9)
        IN  /\ Filled(1) = {Key(cell)} /\ Cardinality(Filled(3)) = 3
            /\ \A k \in Filled(3) : k[1] \in cell - 2 .. cell + 2
            /\ Range(full.lru) = Range(Drawn(0, 9))
            /\ \A there \in {0, 8} : Range(Frames(full, Drawn(0, 9), Page(0, there, 9), 2).lru) = Range(full.lru)

\* Paging away and back finds as many as there are entries to spare (icon.c:22).
ASSUME PagingBackFindsSome ==
    LET away == Frames(Frames(I!Empty(13), Drawn(0, 9), Page(0, 0, 9), 9), Drawn(9, 9), Page(9, 0, 9), 9)
    IN  /\ Range(Drawn(9, 9)) \subseteq Range(away.lru)
        /\ Cardinality(Range(away.lru) \cap Range(Drawn(0, 9))) = 4

\* On a console without the pak the cache holds 8 (memprofile.c:106) and
\* neither holds: the page is drawn for as long as it is shown, and of nine
\* players' cards one has no face in any frame, so the plate over the picker
\* waits out its time.  With eight they all come.
Cards(players, n) == Frames(I!Empty(8), Drawn(0, players), Drawn(0, players), n)
ASSUME SmallCacheNeverSettles ==
    /\ I!FacesAreThere(Cards(8, 8), Drawn(0, 8), 99)
    /\ \A n \in 0 .. 30 : ~I!FacesAreThere(Cards(9, n), Drawn(0, 9), 99)
    /\ \A n \in 0 .. 30 : n >= 8 => Range(Cards(9, n + 1).lru) # Range(Cards(9, n).lru)

\* A face that cannot be drawn keeps back those farther from the cursor, for
\* it is what the frame asks for last; those already there stay.
ASSUME BadFaceKeepsOthersBack ==
    LET AskAll(c) == FoldLeft(LAMBDA d, k : I!Request(d, k, 99), c, Page(0, 0, 6))
        OneFrame(c) == I!Decode(AskAll(c), {}, {2})
        six == FoldLeft(LAMBDA c, i : OneFrame(c), I!Empty(64), [i \in 1 .. 6 |-> i])
    IN  Range(six.lru) = {Key(0), Key(1)}

\* What is not in the pack, or no category has, is never asked for; a pack
\* whose buffers could not be had counts icons that never come.
Pack(v, n, whole, room) == [there |-> TRUE, magic |-> "SVGP", version |-> v, count |-> n, whole |-> whole, room |-> room]
Index(v) == [there |-> TRUE, magic |-> "ICNM", version |-> v, whole |-> TRUE, cats |-> <<[first |-> 0, count |-> 2], [first |-> 2, count |-> 2]>>,
             order |-> <<2, 0, 1>>, starters |-> <<1, 7>>]
Icon(v, n, room, fits) == I!IconInit(Pack(v, n, TRUE, room), Index(2), 64, fits)
ASSUME OnlyWhatThereIs ==
    LET i == Icon(1, 3, TRUE, TRUE)
    IN  /\ [n \in 0 .. 2 |-> I!CatAt(i.meta, 0, n)] = [n \in 0 .. 2 |-> <<2, 0, I!None>>[n + 1]]
        /\ I!CatAt(i.meta, 1, 0) = 1 /\ I!CatAt(i.meta, 1, 1) = I!None /\ I!CatAt(i.meta, 2, 0) = I!None
        /\ I!StarterIcon(i.meta, 0, i.count) = 1 /\ I!StarterIcon(i.meta, 1, i.count) = I!None
        /\ I!PageAsks(i.meta, 0, 0, 1, 4, 5, 6) = <<<<2, 5, 6>>, <<0, 5, 6>>>>
        /\ I!Request(i.small, Key(3), i.count).want = I!Nothing /\ I!Request(i.small, Key(2), i.count).want = Key(2)
        /\ \A bad \in {Icon(2, 3, TRUE, TRUE), Icon(1, 0, TRUE, TRUE), Icon(1, 3, TRUE, FALSE)} :
               bad.count = 0 /\ I!WorthRevealing(bad, <<Key(1)>>)
        /\ LET poor == Icon(1, 3, FALSE, TRUE)
           IN  poor.count = 3 /\ I!Request(poor.small, Key(1), 3).want = I!Nothing /\ ~I!WorthRevealing(poor, <<Key(1)>>)

\* The preview goes first and is drawn whatever the page wants.
ASSUME PreviewGoesFirst ==
    LET i == Icon(1, 3, TRUE, TRUE)
        both == [i EXCEPT !.large.want = Key(0), !.small.want = Key(1)]
    IN  /\ I!Pump(both, TRUE, {}, {}).large.lru = <<Key(0)>> /\ I!Pump(both, TRUE, {}, {}).small.want = Key(1)
        /\ I!Pump(both, FALSE, {0}, {}).small.lru = <<Key(1)>> /\ I!Pump(both, FALSE, {0}, {}).large = I!Empty(2)
-----------------------------------------------------------------------------
(***************************************************************************)
(* The appearance panes, on pages of two rows of three.                    *)
(***************************************************************************)
P == INSTANCE Pickers WITH Cols <- 3, Rows <- 2, Visible <- 2, Colours <- 2
Sizes == <<5, 13, 6, 1>>
First == <<0, 5, 18, 24>>
Place(c, i) == First[c + 1] + i
Dirs == {"UP", "DOWN", "LEFT", "RIGHT", "L", "R"}
Cats == [c \in 1 .. 4 |-> [i \in 1 .. Sizes[c] |-> Place(c - 1, i - 1)]]
Enter(chosen) == P!Entered(Cats, 0, 1, chosen)
RECURSIVE From(_, _)
From(seen, new) ==
    LET more == {P!Updated(s, k, Cats) : s \in new, k \in Dirs} \ seen
    IN  IF more = {} THEN seen ELSE From(seen \cup more, more)
Panes == From({Enter(0)}, {Enter(0)})
Spot(s) == <<s.cat, s.page, s.cell>>

\* Wherever the keys lead, the cursor is on an icon of its category, whose row
\* is on screen; every icon, and every pair of colours, can be come to.
ASSUME CursorIsOnAnIcon ==
    /\ \A s \in Panes : P!Here(s) < Sizes[s.cat + 1] /\ s.cat \in s.top .. s.top + 1 /\ s.cell < P!PerPage
    /\ {Place(s.cat, P!Here(s)) : s \in Panes} = 0 .. 24
    /\ {<<s.ink, s.plate>> : s \in Panes} = {0, 1} \X {0, 1}

\* Down leads out of the grid from every cell of every page, however short
\* (the comment at screen_appearance.c:340), and never sideways.
RECURSIVE Downs(_, _)
Downs(s, n) == IF n = 0 THEN s ELSE Downs(P!Updated(s, "DOWN", Cats), n - 1)
ASSUME DownLeadsOut ==
    \A s \in Panes : s.pane = "grid" =>
        /\ Downs(s, 3).pane \in {"ink", "plate"}
        /\ LET d == Downs(s, 1) IN d.cell % 3 = s.cell % 3 /\ d.page = s.page

\* The cursor is not the choice: only A takes an icon, the one under the
\* cursor; and the screen opens on the chosen one.
ASSUME CursorIsNotTheChoice ==
    /\ \A s \in Panes : s.chosen = 0
    /\ \A s \in Panes : P!Updated(s, "A", Cats).chosen = IF s.pane = "grid" THEN Place(s.cat, P!Here(s)) ELSE 0
    /\ \A i \in 0 .. 24 : LET s == Enter(i) IN Place(s.cat, P!Here(s)) = i /\ s.cat \in s.top .. s.top + 1
    /\ Enter(99) = [Enter(0) EXCEPT !.chosen = 99]

\* L and R turn the page from every pane but the categories, where what moved
\* goes back to the first page - so that R there does nothing and L goes all
\* the way back, whatever the comment at screen_appearance.c:300 says.
ASSUME PagesTurn ==
    \A s \in Panes :
        /\ LET r == P!Updated(s, "R", Cats)
           IN  s.page < P!Pages(Sizes[s.cat + 1]) - 1 =>
                  r.page = IF s.pane = "cats" THEN 0 ELSE s.page + 1
        /\ LET l == P!Updated(s, "L", Cats)
           IN  l.page = IF s.page = 0 \/ s.pane = "cats" THEN 0 ELSE s.page - 1

\* The cheats' cursor stays in its list and its window; the facts' window shows
\* the last of them and no further.
ASSUME ListsHold ==
    /\ \A n \in 1 .. 5 : \A c \in 0 .. n - 1, t \in 0 .. n - 1, k \in Dirs :
           c \in t .. t + 1 => LET l == P!CheatMoved([cursor |-> c, top |-> t], k, n)
                              IN  l.cursor \in 0 .. n - 1 /\ l.cursor \in l.top .. l.top + 1 /\ l.top >= 0
    /\ \A n \in 1 .. 5 : FoldLeft(LAMBDA t, i : P!InfoMoved(t, "DOWN", n), 0, [i \in 1 .. 6 |-> i]) = IF n > 2 THEN n - 2 ELSE 0

\* Credits: pressed on, they end with the last line at the foot of the window,
\* and back up with the first at its head.  The text that is new to a press is
\* not measured yet, so that one press can take the last line above the foot,
\* by less than the press is long, and the next one puts it right - the comment
\* at screen_credits.c:236 rules that out.  Blocks are lower than the window,
\* as the longest paragraph is.
Texts == UNION {[1 .. n -> {10, 40}] : n \in {2, 5}}
Page60 == 60
CreditStep(t, dy, real) ==
    LET g == P!Measured(t.h, t, real, 100) IN [P!Scrolled(g, t, dy, 100) EXCEPT !.top = @] @@ [h |-> g]
RECURSIVE Pressed(_, _, _, _)
Pressed(t, dy, real, n) ==
    IF n = 0 THEN t
    ELSE CHOOSE d \in {Pressed(u, dy, real, n - 1) : u \in {CreditStep(t, dy, real)}} : TRUE
ASSUME CreditsEndAtTheEnd ==
    \A real \in Texts : \A first, then \in {24, Page60} :
        LET unread == [top |-> 0, px |-> 0, h |-> [i \in DOMAIN real |-> P!Unknown]]
            a == Pressed(unread, first, real, 2)
            b == Pressed(a, then, real, 9)
            all == P!Above(real, 0, Len(real))
            end == IF all > 100 THEN all - 100 ELSE 0
        IN  /\ P!Place(real, a) < end + first /\ P!Place(real, b) = end
            /\ LET c == Pressed(b, -first, real, 9) IN <<c.top, c.px>> = <<0, 0>>
-----------------------------------------------------------------------------
(***************************************************************************)
(* The pad, at 2400 parts to the second.                                   *)
(***************************************************************************)
R == INSTANCE Repeat WITH Second <- 2400
HoldDown == [dir |-> "down", fast |-> FALSE]
HoldFast == [dir |-> "down", fast |-> TRUE]
\* How often the direction has stepped after frames of dt each.
TimesHeld(pad, dt, frames) ==
    FoldLeft(LAMBDA h, i : LET in == R!Poll(h.in, pad, dt) IN [in |-> in, n |-> h.n + Cardinality(in.steps)],
             [in |-> R!AtRest, n |-> 0], [i \in 1 .. frames |-> i])

\* What a second of holding does is the same, within a step, at 60 frames a
\* second and at 30; a tap is one step, a lifted thumb starts over, and the C
\* buttons are faster at every length of hold.
ASSUME RepeatIsInTime ==
    /\ \A s \in 1 .. 6 : LET a == TimesHeld(HoldDown, 40, s * 10).n
                              b == TimesHeld(HoldDown, 80, s * 5).n
                          IN  a - b \in -1 .. 1
    /\ \A frames \in 1 .. 20 : TimesHeld(HoldDown, 40, frames).n = 1
    /\ \A frames \in 15 .. 40 : TimesHeld(HoldFast, 40, frames).n > TimesHeld(HoldDown, 40, frames).n
    /\ R!Poll(TimesHeld(HoldDown, 40, 30).in, [dir |-> "none", fast |-> FALSE], 40) = R!AtRest

\* A hold speeds up and never slows down; a frame longer than the interval
\* steps once and owes nothing.
ASSUME RepeatSpeedsUp ==
    /\ \A i \in 1 .. 10 : R!Interval(i + 1, FALSE) <= R!Interval(i, FALSE) /\ R!Interval(i, FALSE) >= R!Interval(i, TRUE)
    /\ R!Interval(8, FALSE) = 120 /\ R!Interval(1, FALSE) < 300
    /\ \A dt \in {40, 1000, 5000} : \A n \in 2 .. 12 :
           LET in == TimesHeld(HoldDown, dt, n).in IN in.left \in 1 .. R!Delay /\ Cardinality(in.steps) <= 1

\* The first pad that is held is the one that counts; C to the sides never
\* steps, and C does not while the stick is held.
ASSUME OnePadCounts ==
    LET p(d, c) == [dir |-> d, c |-> c]
    IN  /\ R!Pad(<<p("none", "none"), p("up", "none"), p("down", "none")>>) = [dir |-> "up", fast |-> FALSE]
        /\ R!Pad(<<p("none", "up"), p("down", "none")>>) = [dir |-> "up", fast |-> TRUE]
        /\ R!Pad(<<p("left", "up")>>) = [dir |-> "left", fast |-> FALSE]
        /\ R!Pad(<<p("none", "left"), p("down", "none")>>) = [dir |-> "none", fast |-> FALSE]
        /\ R!Steps("down left") = {"down", "left"} /\ R!Steps("up") = {"up"}
=============================================================================
