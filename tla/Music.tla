------------------------------- MODULE Music -------------------------------
(***************************************************************************)
(* The background music (menu/music.c): which track is selected, which one *)
(* sounds, and at what volume.  The player's state is the record m; each   *)
(* function returns the set of states it may leave, since a song file may  *)
(* fail to load, the oscillator tables may not fit and Shuffle picks at    *)
(* random.  A song ends only under Shuffle: any other one loops.           *)
(***************************************************************************)
EXTENDS Integers, FiniteSets

CONSTANTS
    Tracks,     \* the songs on the cartridge, 0 .. TRACK_COUNT - 1
    Loudest     \* MUSIC_VOLUME_MAX

ASSUME MusicAssumption ==
    /\ IsFiniteSet(Tracks) /\ Tracks # {} /\ Tracks = 0 .. Cardinality(Tracks) - 1
    /\ Loudest \in Nat \ {0}

Shuffle == -1
Nothing == -1

Silent == [tables |-> FALSE, playing |-> FALSE, selected |-> Shuffle,
           sounding |-> Nothing, volume |-> 0, loops |-> FALSE]

\* Out of range means Shuffle, and a volume is cut to its range.
Track(t) == IF t \in Tracks THEN t ELSE Shuffle
Volume(v) == IF v < 0 THEN 0 ELSE IF v > Loudest THEN Loudest ELSE v

\* pick_random(): any song but the one heard last, if there is another.
Picks(m) == IF Tracks \ {m.sounding} = {} THEN Tracks ELSE Tracks \ {m.sounding}

Release(m) == [m EXCEPT !.playing = FALSE]

\* begin(): what was playing is gone even when the new song cannot be read.
Begin(m, t) ==
    {Release(m),
     [m EXCEPT !.playing = TRUE, !.sounding = t, !.loops = m.selected # Shuffle]}

\* ensure_tables(): built once; without the memory there is no music.
WithTables(m) ==
    IF m.tables THEN {m} ELSE {[m EXCEPT !.tables = TRUE], [m EXCEPT !.volume = 0]}

Prepare(m, t, v) ==
    LET w == [m EXCEPT !.selected = Track(t), !.volume = Volume(v)]
    IN  IF w.volume = 0 THEN {w} ELSE WithTables(w)

Start(m, t, v) ==
    UNION {IF r.volume = 0 THEN {r}
           ELSE IF r.selected = Shuffle THEN UNION {Begin(r, p) : p \in Picks(r)}
           ELSE Begin(r, r.selected) : r \in Prepare(m, t, v)}

Resume(m) == IF m.playing \/ m.volume = 0 THEN {m} ELSE Start(m, m.selected, m.volume)

SetTrack(m, t) ==
    LET w == [m EXCEPT !.selected = Track(t)]
    IN  IF w.volume = 0 THEN {w} ELSE Start(w, w.selected, w.volume)

SetVolume(m, v) ==
    LET next == Volume(v)
    IN  IF next = m.volume THEN {m}
        ELSE IF next = 0 THEN {Release([m EXCEPT !.volume = 0])}
        ELSE IF m.volume = 0 \/ ~m.playing THEN Start([m EXCEPT !.volume = next], m.selected, next)
        ELSE {[m EXCEPT !.volume = next]}

\* music_poll(): a song has ended.
Ended(m) ==
    IF m.playing /\ m.selected = Shuffle THEN UNION {Begin(m, p) : p \in Picks(m)} ELSE {m}

(***************************************************************************)
(* The volume as the mixer takes it: silence, unity at the loudest step.   *)
(***************************************************************************)
Q15(v, unit) == IF v <= 0 THEN 0 ELSE IF v >= Loudest THEN unit ELSE (v * unit) \div Loudest

\* next_random(): 32-bit xorshift over words of bits, bit 0 first.
Xor(a, b) == [i \in 0 .. 31 |-> a[i] # b[i]]
ShiftLeft(a, k) == [i \in 0 .. 31 |-> i >= k /\ a[i - k]]
ShiftRight(a, k) == [i \in 0 .. 31 |-> i + k <= 31 /\ a[i + k]]
NextRandom(a) ==
    LET b == Xor(a, ShiftLeft(a, 13))
        c == Xor(b, ShiftRight(b, 17))
    IN  Xor(c, ShiftLeft(c, 5))

\* seed_random(): the clock scattered by a multiplier, the entropy on top,
\* and never zero, where the generator would stay.
Zero == [i \in 0 .. 31 |-> FALSE]
SeedRandom(old, scattered, entropy) ==
    IF old # Zero THEN old
    ELSE IF Xor(scattered, entropy) = Zero THEN [Zero EXCEPT ![0] = TRUE]
    ELSE Xor(scattered, entropy)
=============================================================================
