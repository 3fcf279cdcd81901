------------------------------ MODULE GridView ------------------------------
(***************************************************************************)
(* What the grid shows and where its cursor may go: the views of the       *)
(* library behind the tabs (library.c), the box the cells are cut to and   *)
(* the cursor's moves (screens/screen_grid.c).  Titles are the indices of  *)
(* the library's records, from 1; the cursor counts from 0, as in the      *)
(* code.                                                                   *)
(***************************************************************************)
EXTENDS Integers, Sequences, FiniteSets, SequencesExt

CONSTANTS
    Systems,    \* the machines that have a tab, in rail order
    GridW,      \* width of the grid
    TileGap,    \* pixels between two tiles
    MaxView     \* most titles one tab shows

ASSUME GridAssumption ==
    /\ Systems \in Seq(STRING) \ {<<>>} /\ IsInjective(Systems)
    /\ GridW \in Nat \ {0} /\ TileGap \in Nat /\ MaxView \in Nat \ {0}

Tabs == <<"recent", "favorites">> \o Systems
FirstSystem == 3

\* The members of a finite set one after another, by a strict total order.
InOrder(S, order) ==
    CHOOSE s \in [1 .. Cardinality(S) -> S] : \A i, j \in DOMAIN s : i < j => <<s[i], s[j]>> \in order
Less == {p \in Nat \X Nat : p[1] < p[2]}

(***************************************************************************)
(* library_tab_view(): a record is [system, fav, stamp].  The view holds   *)
(* the first MaxView titles of the tab; Recent is then put newest first,   *)
(* equal stamps staying in the library's order.                            *)
(***************************************************************************)
Belongs(r, tab) ==
    CASE tab = "recent" -> r.stamp # 0
      [] tab = "favorites" -> r.fav
      [] OTHER -> r.system = tab

Kept(lib, tab) ==
    LET all == InOrder({i \in DOMAIN lib : Belongs(lib[i], tab)}, Less)
    IN  SubSeq(all, 1, IF Len(all) > MaxView THEN MaxView ELSE Len(all))

Newer(stamps) ==
    {p \in Nat \X Nat :
        stamps[p[1]] > stamps[p[2]] \/ (stamps[p[1]] = stamps[p[2]] /\ p[1] < p[2])}
NewestFirst(stamps, view) == InOrder(Range(view), Newer(stamps))

TabView(lib, tab) ==
    IF tab # "recent" THEN Kept(lib, tab)
    ELSE NewestFirst([i \in DOMAIN lib |-> lib[i].stamp], Kept(lib, tab))

\* How it is put in order there: each title in turn before the first older.
Inserted(stamps, view, i) ==
    LET older == {k \in DOMAIN view : stamps[view[k]] < stamps[i]}
    IN  InsertAt(view, IF older = {} THEN Len(view) + 1 ELSE CHOOSE k \in older : \A j \in older : k <= j, i)
InsertionSorted(stamps, view) == FoldLeft(LAMBDA sorted, i : Inserted(stamps, sorted, i), <<>>, view)

\* pick_opening_tab(): the first tab with anything in it, else the first
\* system's.
OpeningTab(lib) ==
    LET full == {t \in DOMAIN Tabs : TabView(lib, Tabs[t]) # <<>>}
    IN  IF full = {} THEN FirstSystem ELSE CHOOSE t \in full : \A u \in full : t <= u

(***************************************************************************)
(* measure_cells(): the cell is the tallest shape in the tab, the box any  *)
(* record would have when the tab is empty; the columns are what fits.     *)
(***************************************************************************)
CellOf(shapes, tallest) ==
    LET tall == FoldLeft(LAMBDA best, s : IF s.h > best.h THEN s ELSE best, [w |-> 0, h |-> 0], shapes)
    IN  IF tall.h = 0 THEN tallest ELSE tall

ColsOf(cell) == (GridW + TileGap) \div (cell.w + TileGap)

RowsTotal(n, cols) == (n + cols - 1) \div cols
Clamped(cursor, n) == IF cursor < n THEN cursor ELSE IF n > 0 THEN n - 1 ELSE 0

\* Down goes to the row below; from above a short last row, to its last title.
Down(cursor, n, cols) ==
    IF cursor + cols < n THEN cursor + cols
    ELSE IF cursor \div cols < RowsTotal(n, cols) - 1 THEN n - 1
    ELSE cursor

Moved(key, cursor, n, cols) ==
    CASE key = "LEFT" /\ n > 0 /\ cursor > 0 -> cursor - 1
      [] key = "RIGHT" /\ n > 0 /\ cursor < n - 1 -> cursor + 1
      [] key = "UP" /\ n > 0 /\ cursor >= cols -> cursor - cols
      [] key = "DOWN" /\ n > 0 -> Down(cursor, n, cols)
      [] OTHER -> cursor

(***************************************************************************)
(* Scrolling: a row's pitch, the furthest the grid scrolls, and where it   *)
(* goes to show the cursor's row in the middle.  pad is [top, bottom] and  *)
(* gridH the height of the window.                                         *)
(***************************************************************************)
RowPitch(cell) == cell.h + TileGap

ScrollMax(n, cols, cell, pad, gridH) ==
    LET m == RowsTotal(n, cols) * RowPitch(cell) - TileGap + pad.top + pad.bottom - gridH
    IN  IF m > 0 THEN m ELSE 0

ScrollTarget(cursor, n, cols, cell, pad, gridH) ==
    LET want == pad.top + (cursor \div cols) * RowPitch(cell) - (gridH - cell.h) \div 2
        top == ScrollMax(n, cols, cell, pad, gridH)
    IN  IF want < 0 THEN 0 ELSE IF want > top THEN top ELSE want

\* The titles whose art is asked for: the rows the window cuts and ahead
\* rows on either side of them, after the cursor's own.
AskedFor(scroll, n, cols, cell, gridH, ahead) ==
    LET low == scroll \div RowPitch(cell) - ahead
        high == (scroll + gridH) \div RowPitch(cell) + ahead
    IN  {i \in 0 .. n - 1 : low <= i \div cols /\ i \div cols <= high}
=============================================================================
