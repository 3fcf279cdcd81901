------------------------------- MODULE Sound -------------------------------
(***************************************************************************)
(* The sound effects and the mixer's clock (menu/sound.c).  s is the state *)
(* of the module: whether there is a mixer and at what rate, whether       *)
(* effects are on, their level in tenths of a half, whether their files    *)
(* are open, and the time since the mixer was last fed.                    *)
(***************************************************************************)
EXTENDS Integers

MaxVolume == 10
Frequency == 16000
Buffers == 8
Off == [up |-> FALSE, rate |-> 0, on |-> FALSE, volume |-> MaxVolume, mixed |-> 0, open |-> FALSE, polled |-> 0, worst |-> 0]

\* sound_init_sfx()
InitEffects(s) == [s EXCEPT !.on = TRUE, !.open = TRUE, !.mixed = s.volume]

\* sound_deinit(): effects that are off are not closed.
Deinit(s) ==
    IF ~ s.up THEN s ELSE [s EXCEPT !.up = FALSE, !.rate = 0, !.open = IF s.on THEN FALSE ELSE @]

\* sound_reconfigure()
Reconfigure(s, rate) ==
    LET up == [Deinit(s) EXCEPT !.up = TRUE, !.rate = rate]
    IN  IF rate <= 0 \/ s.rate = rate THEN s ELSE IF s.on THEN InitEffects(up) ELSE up

\* sound_set_sfx_volume(): the level is kept for a mixer still to come.
Volume(s, level) ==
    LET v == IF level < 0 THEN 0 ELSE IF level > MaxVolume THEN MaxVolume ELSE level
    IN  [s EXCEPT !.on = v > 0, !.volume = v, !.mixed = IF s.up THEN v ELSE @]

\* sound_play_effect()
Plays(s) == s.on

\* sound_poll(), sound_worst_gap_us(): a time of 0 says there was none yet.
Poll(s, now) ==
    IF ~ s.up THEN s
    ELSE [s EXCEPT !.polled = now, !.worst = IF s.polled # 0 /\ now - s.polled > @ THEN now - s.polled ELSE @]
Forgotten(s) == [s EXCEPT !.worst = 0]
\* sound_slack_us(), in milliseconds for a buffer of so many samples.
Slack(s, samples) == IF s.rate <= 0 THEN 0 ELSE (samples * Buffers * 1000) \div s.rate
=============================================================================
