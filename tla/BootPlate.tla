----------------------------- MODULE BootPlate -----------------------------
(***************************************************************************)
(* The boot plate (screens/boot_plate.c): the logo that covers the first   *)
(* screen while the library and the art are read.  It is held at least     *)
(* HoldMin, lifts when the screen behind it is worth showing and at the    *)
(* latest at HoldMax, and takes Curtain to lift.  Time is in steps.        *)
(***************************************************************************)
EXTENDS Integers

CONSTANTS RiseEnd, HoldMin, HoldMax, Curtain

ASSUME PlateAssumption ==
    /\ RiseEnd \in Nat /\ HoldMin \in Nat /\ HoldMax \in Nat /\ Curtain \in Nat
    /\ RiseEnd <= HoldMin /\ HoldMin <= HoldMax

\* Until it is armed there is no plate.
Unarmed == [t |-> 0, curtainAt |-> 0, released |-> FALSE, done |-> TRUE, armed |-> FALSE]

\* boot_plate_arm(): the first caller wins, the plate never comes back.
Armed(p) ==
    IF p.armed THEN p
    ELSE [t |-> 0, curtainAt |-> 0, released |-> FALSE, done |-> FALSE, armed |-> TRUE]

\* boot_plate_hold(): while the card is read the clock stops short of the
\* lift.
Held(p, dt) ==
    IF p.done \/ ~p.armed \/ p.released THEN p
    ELSE [p EXCEPT !.t = IF p.t + dt > HoldMin THEN HoldMin ELSE p.t + dt]

\* Mutant: the plate waits for the art however long it takes.
SteppedWhenReady(p, dt, ready) ==
    IF p.done THEN p
    ELSE LET t == p.t + dt
             lifts == ~p.released /\ t >= HoldMin /\ ready
             q == IF lifts THEN [p EXCEPT !.t = t, !.released = TRUE, !.curtainAt = t]
                  ELSE [p EXCEPT !.t = IF p.released THEN t ELSE HoldMin]
         IN  [q EXCEPT !.done = q.released /\ t >= q.curtainAt + Curtain]

\* boot_plate_step(): after it, the plate swallows the frame unless it is done.
Stepped(p, dt, ready) ==
    IF p.done THEN p
    ELSE LET t == p.t + dt
             lifts == ~p.released /\ t >= HoldMin /\ (ready \/ t >= HoldMax)
             q == IF lifts THEN [p EXCEPT !.t = t, !.released = TRUE, !.curtainAt = t]
                  ELSE [p EXCEPT !.t = t]
         IN  [q EXCEPT !.done = q.released /\ t >= q.curtainAt + Curtain]

\* boot_plate_working(): the still plate, when the decoder has the console.
Working(p) == ~p.done /\ ~p.released /\ p.t >= RiseEnd

\* boot_plate_draw(): how much of the way up the plate has gone, in units of
\* 1 / Curtain; nothing is drawn once it is done.
Lifted(p) ==
    IF ~p.released THEN 0
    ELSE IF p.t - p.curtainAt > Curtain THEN Curtain ELSE p.t - p.curtainAt
=============================================================================
