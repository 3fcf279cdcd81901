----------------------------- MODULE TextEntry -----------------------------
(***************************************************************************)
(* The on-screen keyboard (screens/screen_keyboard.c): rows of keys of     *)
(* unequal length and inset, a row of actions under them and the text      *)
(* field above, the cursor's moves between them, and what typing,          *)
(* deleting and finishing do.  Places are in pixels, as in the code; the   *)
(* text is drawn in a face whose every letter is GlyphW wide.  The         *)
(* keyboard is the record f; rows, columns, actions and the caret count    *)
(* from 0.                                                                 *)
(***************************************************************************)
EXTENDS Integers, Sequences, SequencesExt

CONSTANT GlyphW     \* positive

KeyW == 52
KeyGap == 6
ScreenW == 640
FieldX == 32            \* the field's left edge and its padding
FieldRight == 608
CountGap == 32
CaretW == 14

\* The rows of each character set: how many keys, and where the first stands.
NameRows == <<[n |-> 10, x |-> 32], [n |-> 10, x |-> 32], [n |-> 9, x |-> 62], [n |-> 7, x |-> 120]>>
TextRows == Append(NameRows, [n |-> 10, x |-> 32])
RowsOf(chars) == IF chars = "name" THEN NameRows ELSE TextRows
Limit(chars) == IF chars = "name" THEN 8 ELSE 63

KeyX(chars, r, c) == RowsOf(chars)[r + 1].x + c * (KeyW + KeyGap) + KeyW \div 2
RowLen(chars, r) == RowsOf(chars)[r + 1].n
LastRow(chars) == Len(RowsOf(chars)) - 1

\* The actions: case, space and done.
ActionW == <<120, 220, 180>>
Actions == <<"case", "space", "done">>
Widths(n) == FoldLeft(LAMBDA sum, w : sum + w + KeyGap, 0, SubSeq(ActionW, 1, n))
ActionLeft == (ScreenW - (Widths(Len(ActionW)) - KeyGap)) \div 2
ActionX(a) == ActionLeft + Widths(a) + ActionW[a + 1] \div 2

\* The first whose place X says is nearest to x.
Far(a, b) == IF a < b THEN b - a ELSE a - b
Nearest(X, x) ==
    CHOOSE p \in DOMAIN X : \A q \in DOMAIN X :
        Far(X[p], x) < Far(X[q], x) \/ (Far(X[p], x) = Far(X[q], x) /\ p <= q)
NearestCol(chars, r, x) == Nearest([c \in 0 .. RowLen(chars, r) - 1 |-> KeyX(chars, r, c)], x)
NearestAction(x) == Nearest([a \in 0 .. Len(Actions) - 1 |-> ActionX(a)], x)

(***************************************************************************)
(* field_layout(): the text scrolls left so that its caret is in the box,  *)
(* which ends where the count of letters begins (countW pixels).           *)
(***************************************************************************)
BoxW(countW) ==
    LET w == FieldRight - countW - CountGap - FieldX IN IF w < CaretW THEN CaretW ELSE w
TextX(f, countW) ==
    LET need == f.caret * GlyphW + CaretW + 4
    IN  IF need <= BoxW(countW) THEN FieldX ELSE FieldX - (need - BoxW(countW))
CaretX(f, countW) == TextX(f, countW) + f.caret * GlyphW
CaretNear(f, countW) ==
    Nearest([i \in 0 .. Len(f.text) |-> TextX(f, countW) + i * GlyphW], f.want)

(***************************************************************************)
(* Opening: a text too long is cut, the cursor is on the first key, the    *)
(* caret behind the text, in capitals.                                     *)
(***************************************************************************)
Opened(chars, initial, empty) ==
    LET text == IF Len(initial) > Limit(chars) THEN SubSeq(initial, 1, Limit(chars)) ELSE initial
    IN  [chars |-> chars, text |-> text, caret |-> Len(text), empty |-> empty, zone |-> "keys",
         row |-> 0, col |-> 0, action |-> 1, upper |-> TRUE, want |-> KeyX(chars, 0, 0), ends |-> "no"]

OnRow(f, r) == [f EXCEPT !.zone = "keys", !.row = r, !.col = NearestCol(f.chars, r, f.want)]
OnKey(f, c) == [f EXCEPT !.col = c, !.want = KeyX(f.chars, f.row, c)]
OnAction(f, a) == [f EXCEPT !.action = a, !.want = ActionX(a)]

Up(f, countW) ==
    IF f.zone = "action" THEN OnRow(f, LastRow(f.chars))
    ELSE IF f.row > 0 THEN OnRow(f, f.row - 1)
    ELSE [f EXCEPT !.zone = "field", !.caret = CaretNear(f, countW)]

\* Out of the field the cursor falls on the key under the caret; from the
\* last row on the action under the key.
Down(f) ==
    IF f.zone = "action" THEN f
    ELSE IF f.row < LastRow(f.chars) THEN OnRow(f, f.row + 1)
    ELSE [f EXCEPT !.zone = "action", !.action = NearestAction(f.want)]

Sideways(f, d) ==
    IF f.zone = "action"
    THEN IF f.action + d \in 0 .. Len(Actions) - 1 THEN OnAction(f, f.action + d) ELSE f
    ELSE IF f.col + d \in 0 .. RowLen(f.chars, f.row) - 1 THEN OnKey(f, f.col + d) ELSE f

\* The frame's directions, several at once on a diagonal: up, then down, left
\* and right; in the field left and right come first.
InField(f, dirs, countW) ==
    LET a == IF "left" \in dirs /\ f.caret > 0 THEN [f EXCEPT !.caret = @ - 1] ELSE f
        b == IF "right" \in dirs /\ a.caret < Len(a.text) THEN [a EXCEPT !.caret = @ + 1] ELSE a
    IN  IF "down" \in dirs THEN OnRow([b EXCEPT !.want = CaretX(b, countW)], 0) ELSE b
OnKeys(f, dirs, countW) ==
    LET a == IF "up" \in dirs THEN Up(f, countW) ELSE f
        b == IF "down" \in dirs THEN Down(a) ELSE a
        c == IF "left" \in dirs THEN Sideways(b, -1) ELSE b
    IN  IF "right" \in dirs THEN Sideways(c, 1) ELSE c
Moved(f, dirs, countW) == IF f.zone = "field" THEN InField(f, dirs, countW) ELSE OnKeys(f, dirs, countW)

(***************************************************************************)
(* Letters.  ends says what the frame leads to: "no", "left" without an    *)
(* answer, "done" with one, or "refused".                                  *)
(***************************************************************************)
Typed(f, c) ==
    IF Len(f.text) >= Limit(f.chars) THEN [f EXCEPT !.ends = "refused"]
    ELSE [f EXCEPT !.text = InsertAt(@, f.caret + 1, c), !.caret = @ + 1]
Deleted(f) == IF f.caret = 0 THEN f ELSE [f EXCEPT !.text = RemoveAt(@, f.caret), !.caret = @ - 1]
Confirmed(f) == [f EXCEPT !.ends = IF f.text = <<>> /\ ~f.empty THEN "refused" ELSE "done"]

\* A letter is the place of its key and its case; only letters have one.
Letter(f) == <<f.row, f.col, f.upper \/ f.row \notin 1 .. 3>>

PressA(f) ==
    CASE f.zone = "field" -> f
      [] f.zone = "keys" -> Typed(f, Letter(f))
      [] Actions[f.action + 1] = "case" -> [f EXCEPT !.upper = ~@]
      [] Actions[f.action + 1] = "space" -> Typed(f, "space")
      [] OTHER -> Confirmed(f)

\* kb_update(): B deletes, or leaves when there is nothing to delete; START is
\* done; Z is the case; else the frame's directions and then A.
Update(f, buttons, dirs, countW) ==
    IF "B" \in buttons THEN (IF f.text = <<>> THEN [f EXCEPT !.ends = "left"] ELSE Deleted(f))
    ELSE IF "START" \in buttons THEN Confirmed(f)
    ELSE IF "Z" \in buttons THEN [f EXCEPT !.upper = ~@]
    ELSE LET m == Moved(f, dirs, countW) IN IF "A" \in buttons THEN PressA(m) ELSE m
=============================================================================
