------------------------------ MODULE Pickers ------------------------------
(***************************************************************************)
(* The appearance screen's panes (screens/screen_appearance.c) - the       *)
(* categories on the left, a page of the category's icons, and under them  *)
(* a row of inks and one of plates - and the ways in which the other       *)
(* screens' lists scroll.  An icon is a place in the index; cats are the   *)
(* categories, each the sequence of its icons.                             *)
(* All counts start at 0.  The appearance screen is the record s.          *)
(***************************************************************************)
EXTENDS Integers, Sequences, SequencesExt

CONSTANTS Cols, Rows,       \* of a page: GRID_COLS2, GRID_ROWS2; positive
          Visible,          \* rows of a list that are on screen; positive
          Colours           \* PROFILE_COLOURS; positive

PerPage == Cols * Rows

\* A window over a list follows its cursor, and no further than it must.
Window(top, cursor) ==
    IF cursor < top THEN cursor ELSE IF cursor >= top + Visible THEN cursor - Visible + 1 ELSE top

\* appearance_enter(): on the chosen icon where it first occurs, if it does.
Entered(cats, ink, plate, chosen) ==
    LET places == UNION {{<<c, i>> : i \in {j \in 0 .. Len(cats[c + 1]) - 1 : cats[c + 1][j + 1] = chosen}} : c \in 0 .. Len(cats) - 1}
        s == [pane |-> "grid", cat |-> 0, top |-> 0, page |-> 0, cell |-> 0, ink |-> ink, plate |-> plate, chosen |-> chosen]
    IN  IF places = {} THEN s
        ELSE LET p == CHOOSE p \in places : \A q \in places : p[1] < q[1] \/ (p[1] = q[1] /\ p[2] <= q[2])
             IN  [s EXCEPT !.cat = p[1], !.page = p[2] \div PerPage, !.cell = p[2] % PerPage, !.top = Window(0, p[1])]

Pages(n) == (n + PerPage - 1) \div PerPage
Here(s) == s.page * PerPage + s.cell

\* L and R turn the page.
Turned(s, key, n) ==
    CASE key = "L" /\ s.page > 0 -> [s EXCEPT !.page = @ - 1, !.cell = 0]
      [] key = "R" /\ s.page < Pages(n) - 1 -> [s EXCEPT !.page = @ + 1, !.cell = 0]
      [] OTHER -> s

\* Among the categories whatever moved goes to the first icon of one.
InCats(s, t, key, cats) ==
    LET c == CASE key = "UP" /\ t.cat > 0 -> t.cat - 1
               [] key = "DOWN" /\ t.cat < cats - 1 -> t.cat + 1
               [] OTHER -> t.cat
        m == IF c # s.cat \/ t # s THEN [t EXCEPT !.cat = c, !.page = 0, !.cell = 0] ELSE t
    IN  IF key = "RIGHT" THEN [m EXCEPT !.pane = "grid"] ELSE m

\* A short last row lets the cursor past its end, and pulls it back.
OnPage(t, n) ==
    IF Here(t) >= n /\ n > 0 THEN [t EXCEPT !.cell = IF n - 1 < t.page * PerPage THEN 0 ELSE n - 1 - t.page * PerPage] ELSE t
InGrid(t, key, n) ==
    LET row == t.cell \div Cols
        col == t.cell % Cols
        m == CASE key = "LEFT" -> IF col > 0 THEN [t EXCEPT !.cell = @ - 1] ELSE [t EXCEPT !.pane = "cats"]
               [] key = "RIGHT" /\ col < Cols - 1 -> [t EXCEPT !.cell = @ + 1]
               [] key = "UP" /\ row > 0 -> [t EXCEPT !.cell = @ - Cols]
               [] key = "DOWN" -> IF row < Rows - 1 /\ Here(t) + Cols < n
                                  THEN [t EXCEPT !.cell = @ + Cols] ELSE [t EXCEPT !.pane = "ink"]
               [] OTHER -> t
    IN  OnPage(m, n)

Along(v, key) ==
    CASE key = "LEFT" /\ v > 0 -> v - 1
      [] key = "RIGHT" /\ v < Colours - 1 -> v + 1
      [] OTHER -> v
InInk(t, key) ==
    [t EXCEPT !.ink = Along(@, key), !.pane = IF key = "UP" THEN "grid" ELSE IF key = "DOWN" THEN "plate" ELSE @]
InPlate(t, key) == [t EXCEPT !.plate = Along(@, key), !.pane = IF key = "UP" THEN "ink" ELSE @]

\* choose_icon(): A takes the icon under the cursor, if there is one.
Chosen(s, icons) ==
    IF s.pane = "grid" /\ Here(s) < Len(icons) THEN [s EXCEPT !.chosen = icons[Here(s) + 1]] ELSE s

\* appearance_update(), of a key that does not leave.
Updated(s, key, cats) ==
    LET n == Len(cats[s.cat + 1])
        t == Turned(s, key, n)
        m == CASE s.pane = "cats" -> InCats(s, t, key, Len(cats))
               [] s.pane = "grid" -> InGrid(t, key, n)
               [] s.pane = "ink" -> InInk(t, key)
               [] OTHER -> InPlate(t, key)
    IN  IF key = "A" THEN Chosen(s, cats[s.cat + 1]) ELSE [m EXCEPT !.top = Window(@, m.cat)]
-----------------------------------------------------------------------------
\* The list of a game's cheats (screen_cheats.c) pages up only, and the card's
\* facts (screen_sysinfo.c) have no cursor.
CheatMoved(l, key, n) ==
    LET c == CASE key = "UP" /\ l.cursor > 0 -> l.cursor - 1
               [] key = "DOWN" /\ l.cursor < n - 1 -> l.cursor + 1
               [] key = "L" -> IF l.cursor < Visible THEN 0 ELSE l.cursor - Visible
               [] OTHER -> l.cursor
    IN  IF n = 0 THEN l ELSE [cursor |-> c, top |-> Window(l.top, c)]
InfoMoved(top, key, n) ==
    CASE key = "UP" /\ top > 0 -> top - 1
      [] key = "DOWN" /\ top + Visible < n -> top + 1
      [] OTHER -> top

(***************************************************************************)
(* The credits scroll by pixels over blocks whose heights are not known    *)
(* before they have been drawn (Unknown); t is the first block shown and   *)
(* how much of it is above the window, of WindowH pixels.                  *)
(***************************************************************************)
Unknown == -1
Guess == 20
HeightOf(h, i) == IF h[i + 1] = Unknown THEN Guess ELSE h[i + 1]
Above(h, from, to) == FoldLeft(LAMBDA sum, i : sum + HeightOf(h, i), 0, [i \in 1 .. to - from |-> from + i - 1])

\* The block that holds the pixel y, counted from the top of block 0; what is
\* beyond either end is left in the first block or in the last.
Block(h, y) ==
    LET last == Len(h) - 1
        b == CHOOSE b \in 0 .. last : /\ b = 0 \/ Above(h, 0, b) <= y
                                      /\ b = last \/ Above(h, 0, b + 1) > y
    IN  [top |-> b, px |-> IF y < 0 THEN 0 ELSE y - Above(h, 0, b)]
Place(h, t) == Above(h, 0, t.top) + t.px

\* scroll_by(): the tail, when all of it is known, ends at the window's end.
Scrolled(h, t, dy, windowH) ==
    LET a == Block(h, Place(h, t) + dy)
        known == \A i \in a.top .. Len(h) - 1 : h[i + 1] # Unknown
        over == windowH - (Above(h, a.top, Len(h)) - a.px)
        b == IF known /\ over > 0 THEN Block(h, Place(h, a) - over) ELSE a
    IN  IF b.top = Len(h) - 1 THEN [b EXCEPT !.px = 0] ELSE b

\* credits_render(): what is drawn is measured.
Measured(h, t, real, windowH) ==
    [i \in DOMAIN h |-> IF i > t.top /\ Above(real, t.top, i - 1) - t.px < windowH THEN real[i] ELSE h[i]]
=============================================================================
