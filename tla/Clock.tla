-------------------------------- MODULE Clock --------------------------------
(***************************************************************************)
(* The clock page (screens/screen_clock.c).  Months and days of the month  *)
(* count from 0 and 1; the console's clock is what the page asks it.       *)
(***************************************************************************)
EXTENDS Integers, Sequences

Fields == <<"year", "month", "day", "hour", "minute">>
SeedYear == 2026
FirstYear == 2000
LastYear == 2099

IsLeap(y) == (y % 4 = 0 /\ y % 100 # 0) \/ y % 400 = 0
DaysInMonth(y, m) == IF m = 1 THEN (IF IsLeap(y) THEN 29 ELSE 28) ELSE IF m \in {3, 5, 8, 10} THEN 30 ELSE 31

ClampDay(d) ==
    LET last == DaysInMonth(d.year, d.month) IN IF d.day > last THEN [d EXCEPT !.day = last] ELSE d

\* clock_enter(): a clock that was never set would make the page start in 1970.
Seed == [year |-> SeedYear, month |-> 0, day |-> 1, hour |-> 12, minute |-> 0]
Entered(now) ==
    [edit |-> IF now.year < FirstYear THEN Seed ELSE now, cursor |-> 1, error |-> "", to |-> "clock"]

\* step_field()
Step(d, field, delta) ==
    CASE field = "year" ->
            LET y == d.year + delta
            IN  ClampDay([d EXCEPT !.year = IF y < FirstYear THEN FirstYear ELSE IF y > LastYear THEN LastYear ELSE y])
      [] field = "month" -> ClampDay([d EXCEPT !.month = (@ + delta + 12) % 12])
      [] field = "day" ->
            LET n == DaysInMonth(d.year, d.month) IN [d EXCEPT !.day = ((@ - 1 + delta + n) % n) + 1]
      [] field = "hour" -> [d EXCEPT !.hour = (@ + delta + 24) % 24]
      [] field = "minute" -> [d EXCEPT !.minute = (@ + delta + 60) % 60]

\* save(): has is whether the clock can hold the date, takes whether it did.
Saved(c, has, takes) ==
    IF ~ has THEN [c EXCEPT !.error = "outside"]
    ELSE IF ~ takes THEN [c EXCEPT !.error = "not taken"] ELSE [c EXCEPT !.to = "settings"]

\* clock_update(): B before A and START, those before the directions, and two
\* opposite ones cancel.
Update(c, keys, has, takes) ==
    LET right == IF "right" \in keys /\ c.cursor < Len(Fields) THEN c.cursor + 1 ELSE c.cursor
        at == IF "left" \in keys /\ right > 1 THEN right - 1 ELSE right
        delta == (IF "up" \in keys THEN 1 ELSE 0) - (IF "down" \in keys THEN 1 ELSE 0)
    IN  IF "B" \in keys THEN [c EXCEPT !.to = "settings"]
        ELSE IF keys \cap {"A", "START"} # {} THEN Saved(c, has, takes)
        ELSE IF delta = 0 THEN [c EXCEPT !.cursor = at]
        ELSE [c EXCEPT !.cursor = at, !.edit = Step(@, Fields[at], delta), !.error = ""]
=============================================================================
