------------------------------- MODULE Repeat -------------------------------
(***************************************************************************)
(* The pad (ui/input.c): a direction steps when it is first held and then  *)
(* again and again, measured in time and not in frames, faster the longer  *)
(* it is held.  Time is in parts of a second of which Second make one, so  *)
(* that every interval is a whole number of them.                          *)
(***************************************************************************)
EXTENDS Integers, Sequences, SequencesExt

CONSTANT Second     \* a positive multiple of 2400

Delay == (Second * 34) \div 100
FastDelay == Second \div 5
FastRate == Second \div 30
Slow == Second \div 8
Fast == Second \div 20
RampSteps == 8

\* repeat_interval(): from eight steps a second to twenty over eight steps.
Interval(index, fast) ==
    IF fast THEN FastRate
    ELSE IF index >= RampSteps THEN Fast ELSE Slow - ((Slow - Fast) * index) \div RampSteps

\* The first pad with a direction, and of the C buttons up and down only,
\* which scroll when the stick and the cross are let go.
Pad(pads) ==
    LET held == SelectSeq(pads, LAMBDA p : p.dir # "none" \/ p.c # "none")
        p == IF held = <<>> THEN Last(pads) ELSE Head(held)
        c == IF p.c \in {"up", "down"} THEN p.c ELSE "none"
    IN  IF p.dir = "none" /\ c # "none" THEN [dir |-> c, fast |-> TRUE] ELSE [dir |-> p.dir, fast |-> FALSE]

\* apply_direction(): a diagonal steps both ways.
Steps(dir) ==
    CASE dir = "none" -> {}
      [] dir = "up right" -> {"up", "right"}
      [] dir = "up left" -> {"up", "left"}
      [] dir = "down right" -> {"down", "right"}
      [] dir = "down left" -> {"down", "left"}
      [] OTHER -> {dir}

AtRest == [held |-> "none", index |-> 0, left |-> 0, steps |-> {}]

\* input_poll() after dt: a frame that outlasts an interval steps once, and
\* the next interval starts over.
Poll(in, pad, dt) ==
    IF pad.dir = "none" THEN AtRest
    ELSE IF pad.dir # in.held
    THEN [held |-> pad.dir, index |-> 0, left |-> IF pad.fast THEN FastDelay ELSE Delay, steps |-> Steps(pad.dir)]
    ELSE IF in.left - dt > 0 THEN [in EXCEPT !.left = @ - dt, !.steps = {}]
    ELSE LET wait == Interval(in.index + 1, pad.fast)
             left == in.left - dt + wait
         IN  [in EXCEPT !.index = @ + 1, !.left = IF left < 0 THEN wait ELSE left, !.steps = Steps(pad.dir)]
=============================================================================
