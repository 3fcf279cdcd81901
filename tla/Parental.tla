------------------------------ MODULE Parental ------------------------------
(***************************************************************************)
(* The padlock: menu/parental.c, which keeps the code, the count of failed *)
(* entries, the schedule and the wait, and screens/screen_code.c, the pad  *)
(* that asks for the code, with the five places that send a user to it.    *)
(*                                                                         *)
(* parental.ini is rewritten in place by every parental_save(), so a save  *)
(* is two steps here: parental_save() leaves the old file or none at all   *)
(* to whoever loses power, and WriteOut puts the new one there.  A guess   *)
(* is cut at the same points: counted and saved, then compared, then       *)
(* forgiven and saved, then acted upon.                                    *)
(*                                                                         *)
(* Time: the wait is counted in units of PENALTY_PER_FAIL_S, one for every *)
(* failure; the clock in steps of an hour divided by StepsPerHour.         *)
(***************************************************************************)
EXTENDS Integers, Sequences, FiniteSets, FiniteSetsExt

CONSTANTS
  Games,          \* rom ids
  Buttons,        \* the alphabet of the pad, PBTN_*
  CodeLen,        \* PARENTAL_CODE_LEN
  PenaltyMax,     \* PENALTY_MAX_S / PENALTY_PER_FAIL_S
  HoursPerDay,    \* 24
  FromDefault, ToDefault,  \* 8 and 20, what a file without hours reads as
  StepsPerHour,   \* how finely the clock is told
  Times,          \* the times of day the run visits, a bound
  EditHours,      \* the hours the panel may be left showing, a bound
  MaxFailures,    \* failures the run counts up to, a bound
  InitialFiles,   \* what may be on the card at first
  NoCode,         \* the empty code
  NoClock,        \* time() without an RTC
  NoGame          \* act_rom_id = -1

Hours == 0 .. HoursPerDay - 1
DaySteps == HoursPerDay * StepsPerHour
Entries == [1 .. CodeLen -> Buttons]
Schedules == [hours : BOOLEAN, from : Hours, to : Hours]
Files == [code : Entries \cup {NoCode}, failures : Nat, sched : Schedules]

ASSUME PadAssumption ==
  /\ CodeLen \in Nat \ {0}
  /\ PenaltyMax \in Nat
  /\ MaxFailures \in Nat
  /\ NoCode \notin Entries
  /\ NoGame \notin Games

ASSUME ClockAssumption ==
  /\ HoursPerDay \in Nat \ {0}
  /\ StepsPerHour \in Nat \ {0}
  /\ Times \subseteq 0 .. DaySteps - 1
  /\ NoClock \notin 0 .. DaySteps - 1
  /\ EditHours \subseteq Hours
  /\ FromDefault \in Hours /\ ToDefault \in Hours

\* The defaults: what an absent file reads as, and an empty one.
Absent == [code |-> NoCode, failures |-> 0,
           sched |-> [hours |-> FALSE, from |-> FromDefault, to |-> ToDefault]]

ASSUME FilesAssumption == InitialFiles \subseteq Files

VARIABLES
  file,        \* parental.ini
  writable,    \* the card takes writes
  saving,      \* parental_save() is between its fopen() and its fclose()
  mem,         \* state
  wait,        \* wait_left
  locked,      \* the records with LIBF_LOCKED
  now,         \* what time() says
  screen,      \* app->screen
  game,        \* app->launch.rom_id, the game on the sheet
  ask,         \* what the pad was armed with: the kind, where to, the game
  entry,       \* the first count of digits
  first, confirming,
  flash,       \* wrong_t > 0: the refusal is being shown
  todo,        \* what is left of submit(): nothing, the comparison, the deed
  wrongs, served, proved, typed    \* history, for the properties

pad == <<entry, first, confirming, flash, typed>>
where == <<screen, ask, game, proved>>
vars == <<file, writable, saving, mem, wait, locked, now, screen, game, ask, entry, first,
          confirming, flash, todo, wrongs, served, proved, typed>>

-----------------------------------------------------------------------------
(* The policy. *)

AtMost(n, cap) == IF n < cap THEN n ELSE cap

\* penalty(): what so many failures cost a fresh attempt.
Penalty(failures) == AtMost(failures, PenaltyMax)

\* parental_load() on what the file holds: the count is clamped to where the
\* penalty saturates.
Loaded(f) == [f EXCEPT !.failures = AtMost(@, PenaltyMax)]

\* parental_hour_allowed()
HourAllowed(hour, from, to) ==
  \/ from = to
  \/ from < to /\ from <= hour /\ hour < to
  \/ from > to /\ (from <= hour \/ hour < to)

HourOf(t) == t \div StepsPerHour

\* Mutant: whole hours from now, the hour that has begun counted in full.
UntilOpenByTheHour(t, from, to) ==
  LET ahead == {h \in 1 .. HoursPerDay - 1 :
                  HourAllowed((HourOf(t) + h) % HoursPerDay, from, to)}
  IN  IF HourAllowed(HourOf(t), from, to) \/ ahead = {} THEN 0 ELSE StepsPerHour * Min(ahead)

\* parental_seconds_until_open(): the rest of this hour, then whole hours up
\* to the first one that is allowed, at most a day of them; 0 for its -1.
UntilOpen(t, from, to) ==
  LET ahead == {h \in 1 .. HoursPerDay - 1 :
                  HourAllowed((HourOf(t) + h) % HoursPerDay, from, to)}
  IN  IF HourAllowed(HourOf(t), from, to) \/ ahead = {}
        THEN 0
        ELSE (StepsPerHour - (t % StepsPerHour)) + StepsPerHour * (Min(ahead) - 1)

\* parental_check(): may this game start now?
Verdict(g) ==
  CASE mem.code = NoCode -> "allow"
    [] mem.code # NoCode /\ g \in locked -> "locked"
    [] mem.code # NoCode /\ g \notin locked ->
         IF /\ mem.sched.hours
            /\ now # NoClock
            /\ ~HourAllowed(HourOf(now), mem.sched.from, mem.sched.to)
           THEN "hours"
           ELSE "allow"

\* parental_save() of m, begun; a card that cannot be written refuses the open.
Save(m) == /\ mem' = m
           /\ saving' = writable
           /\ UNCHANGED <<file, writable>>

-----------------------------------------------------------------------------
(* Going from screen to screen.  What was proved is forgotten on the way    *)
(* back to a screen anybody may stand on.                                   *)

Open == {"grid", "settings", "detail"}

Goto(s) == /\ screen' = s
           /\ proved' = (proved /\ s \notin Open)

\* code_enter() and code_leave() between them: a fresh pad.
FreshPad == /\ entry' = <<>> /\ first' = <<>> /\ confirming' = FALSE /\ flash' = FALSE

\* Mutant: the way out and the way on exchanged.
AskedCrossed(what, ok, cancel, g) == [what |-> what, ok |-> cancel, cancel |-> ok, game |-> g]

Asked(what, ok, cancel, g) == [what |-> what, ok |-> ok, cancel |-> cancel, game |-> g]

\* screen_code_ask() and the app_goto(SCREEN_CODE) after it.
AskCode(request) == /\ ask' = request
                    /\ Goto("code")
                    /\ FreshPad
                    /\ typed' = <<>>

Still == UNCHANGED <<file, writable, saving, mem, wait, wrongs, served, todo>>

\* The grid and its neighbours, as far as they lead here.
Browse ==
  /\ ~saving /\ screen \in Open
  /\ \E s \in Open : Goto(s)
  /\ game' \in Games
  /\ Still /\ UNCHANGED <<locked, now, ask, pad>>

\* A or Start on the detail sheet.
StartGame ==
  /\ ~saving /\ screen = "detail"
  /\ IF Verdict(game) = "allow"
       THEN Goto("launch") /\ UNCHANGED <<ask, pad>>
       ELSE AskCode(Asked("UNLOCK", "launch", "detail", NoGame))
  /\ Still /\ UNCHANGED <<locked, now, game>>

\* The launch gave up; one that succeeds ends the menu, which is Restart.
LaunchFails ==
  /\ screen = "launch"
  /\ Goto("grid")
  /\ Still /\ UNCHANGED <<locked, now, game, ask, pad>>

\* C-left on the detail sheet.
ToggleLock ==
  /\ ~saving /\ screen = "detail" /\ mem.code # NoCode
  /\ AskCode(Asked("TOGGLE", "detail", "detail", game))
  /\ Still /\ UNCHANGED <<locked, now, game>>

\* The two rows of Settings behind the code, once there is one.
OpenGuarded ==
  /\ ~saving /\ screen = "settings"
  /\ \E s \in {"clock", "parental"} :
       IF mem.code = NoCode
         THEN Goto(s) /\ UNCHANGED <<ask, pad>>
         ELSE AskCode(Asked("UNLOCK", s, "settings", NoGame))
  /\ Still /\ UNCHANGED <<locked, now, game>>

\* The clock screen: B leaves, A sets the clock and leaves, or is refused.
SetClock ==
  /\ screen = "clock"
  /\ Goto("settings")
  /\ now' \in IF now = NoClock THEN {NoClock} ELSE Times
  /\ Still /\ UNCHANGED <<locked, game, ask, pad>>

\* The list of padlocks: A flips one, B goes back to the panel.
LocksList ==
  /\ screen = "locks"
  /\ \/ /\ \E g \in Games : locked' = (locked \ {g}) \cup ({g} \ locked)
        /\ UNCHANGED where
     \/ /\ Goto("parental")
        /\ UNCHANGED <<locked, ask, game>>
  /\ Still /\ UNCHANGED <<now, pad>>

-----------------------------------------------------------------------------
(* The panel. *)

PanelCode ==
  /\ ~saving /\ screen = "parental"
  /\ AskCode(Asked(IF mem.code = NoCode THEN "SET" ELSE "CLEAR", "parental", "parental", NoGame))
  /\ Still /\ UNCHANGED <<locked, now, game>>

PanelLocks ==
  /\ ~saving /\ screen = "parental"
  /\ Goto("locks")
  /\ Still /\ UNCHANGED <<locked, now, game, ask, pad>>

\* A step of one of the two hours, up or down, round the day.
Stepped(h) == {(h + 1) % HoursPerDay, (h + HoursPerDay - 1) % HoursPerDay}

PanelEdit ==
  /\ ~saving /\ screen = "parental"
  /\ \E sched \in
       {[mem.sched EXCEPT !.hours = ~@]}
         \cup {[mem.sched EXCEPT !.from = h] : h \in Stepped(mem.sched.from) \cap EditHours}
         \cup {[mem.sched EXCEPT !.to = h] : h \in Stepped(mem.sched.to) \cap EditHours} :
       mem' = [mem EXCEPT !.sched = sched]
  /\ UNCHANGED <<file, writable, saving, wait, wrongs, served, todo, locked, now, where, pad>>

\* Mutant: leaves as the list of padlocks does, without a save.
PanelBackUnsaved ==
  /\ ~saving /\ screen = "parental"
  /\ Goto("settings")
  /\ Still /\ UNCHANGED <<locked, now, game, ask, pad>>

PanelBack ==
  /\ ~saving /\ screen = "parental"
  /\ Save(mem)
  /\ Goto("settings")
  /\ UNCHANGED <<wait, wrongs, served, todo, locked, now, game, ask, pad>>

-----------------------------------------------------------------------------
(* The pad. *)

\* The red dots of a refusal are shown; nothing is read meanwhile.
FlashEnds ==
  /\ ~saving /\ screen = "code" /\ flash
  /\ flash' = FALSE
  /\ Still /\ UNCHANGED <<entry, first, confirming, typed, locked, now, where>>

OnPad == ~saving /\ todo = "none" /\ screen = "code" /\ ~flash

\* B deletes the last press, or leaves; also while there is a wait.
PressB ==
  /\ OnPad
  /\ IF entry # <<>>
       THEN /\ entry' = SubSeq(entry, 1, Len(entry) - 1)
            /\ typed' = IF typed = <<>> THEN <<>> ELSE SubSeq(typed, 1, Len(typed) - 1)
            /\ UNCHANGED <<first, confirming, flash, screen, proved>>
       ELSE Goto(ask.cancel) /\ FreshPad /\ typed' = <<>>
  /\ Still /\ UNCHANGED <<ask, game, locked, now>>

\* Mutant: the clamp at the end of the wait leaves one unit of it.
ElapsedToOne(w) == IF w > 1 THEN w - 1 ELSE 1

Elapsed(w) == w - 1

\* parental_wait_tick(): another unit of time spent on the pad.
WaitTicks ==
  /\ OnPad /\ wait > 0
  /\ wait' = Elapsed(wait)
  /\ served' = Penalty(served + 1)
  /\ UNCHANGED <<file, writable, saving, mem, wrongs, todo, pad, locked, now, where>>

Ready(b) == OnPad /\ wait = 0 /\ Len(entry) < CodeLen /\ b \in Buttons

\* A press that does not fill the entry.
Press(b) ==
  /\ Ready(b) /\ Len(entry) + 1 < CodeLen
  /\ entry' = Append(entry, b)
  /\ typed' = IF ask.what = "SET" THEN Append(typed, b) ELSE typed
  /\ Still /\ UNCHANGED <<first, confirming, flash, locked, now, where>>

LastPress(b) == Ready(b) /\ Len(entry) + 1 = CodeLen

\* Mutant: the count is written when the guess turns out wrong, with the next save.
GuessUnsaved(b) ==
  /\ LastPress(b) /\ ask.what # "SET"
  /\ mem.failures < MaxFailures
  /\ entry' = Append(entry, b)
  /\ mem' = [mem EXCEPT !.failures = @ + 1]
  /\ wait' = Penalty(mem.failures + 1)
  /\ served' = 0
  /\ todo' = "judge"
  /\ UNCHANGED <<file, writable, saving, wrongs, first, confirming, flash, typed, locked, now, where>>

\* guess() begins: parental_note_attempt(), before anything is compared.
Guess(b) ==
  /\ LastPress(b) /\ ask.what # "SET"
  /\ mem.failures < MaxFailures
  /\ entry' = Append(entry, b)
  /\ Save([mem EXCEPT !.failures = @ + 1])
  /\ wait' = Penalty(mem.failures + 1)
  /\ served' = 0
  /\ todo' = "judge"
  /\ UNCHANGED <<wrongs, first, confirming, flash, typed, locked, now, where>>

\* parental_code_matches()
Matches == mem.code = NoCode \/ entry = mem.code

\* The comparison said no: refuse().
Refuse ==
  /\ ~saving /\ todo = "judge" /\ ~Matches
  /\ entry' = <<>> /\ flash' = TRUE
  /\ wrongs' = Penalty(wrongs + 1)
  /\ todo' = "none"
  /\ UNCHANGED <<file, writable, saving, mem, wait, served, first, confirming, typed,
                 locked, now, where>>

\* It said yes: parental_note_success().
Accept ==
  /\ ~saving /\ todo = "judge" /\ Matches
  /\ Save([mem EXCEPT !.failures = 0])
  /\ wait' = 0 /\ wrongs' = 0
  /\ proved' = TRUE
  /\ todo' = "deed"
  /\ UNCHANGED <<served, pad, screen, ask, game, locked, now>>

\* parental_code_store(): a new code, or none, forgives what came before.
Stored(code) == [mem EXCEPT !.code = code, !.failures = 0]

StoreCode(code) ==
  /\ Save(Stored(code))
  /\ wait' = 0 /\ wrongs' = 0

\* The rest of submit(), for an entry that was right.
Deed ==
  /\ ~saving /\ todo = "deed"
  /\ todo' = "none"
  /\ IF ask.what = "CLEAR"
       THEN StoreCode(NoCode)
       ELSE UNCHANGED <<file, writable, saving, mem, wait, wrongs>>
  /\ locked' = IF ask.what = "TOGGLE"
                 THEN (locked \ {ask.game}) \cup ({ask.game} \ locked)
                 ELSE locked
  /\ Goto(ask.ok) /\ FreshPad
  /\ UNCHANGED <<served, typed, ask, game, now>>

\* A new code, the first time round.
ChooseOnce(b) ==
  /\ LastPress(b) /\ ask.what = "SET" /\ ~confirming
  /\ first' = Append(entry, b)
  /\ entry' = <<>> /\ confirming' = TRUE
  /\ typed' = Append(typed, b)
  /\ Still /\ UNCHANGED <<flash, locked, now, where>>

\* The second time, the same: it is stored.
ChooseTwice(b) ==
  /\ LastPress(b) /\ ask.what = "SET" /\ confirming
  /\ first = Append(entry, b)
  /\ StoreCode(first)
  /\ screen' = ask.ok /\ proved' = TRUE
  /\ FreshPad
  /\ typed' = Append(typed, b)
  /\ UNCHANGED <<served, todo, ask, game, locked, now>>

\* Mutant: still confirming, against the first of the two that differed.
ChooseAgainConfirming(b) ==
  /\ LastPress(b) /\ ask.what = "SET" /\ confirming
  /\ first # Append(entry, b)
  /\ entry' = <<>> /\ flash' = TRUE
  /\ typed' = <<>>
  /\ Still /\ UNCHANGED <<first, confirming, locked, now, where>>

\* The second time, another: from the beginning, and nobody is charged.
ChooseAgain(b) ==
  /\ LastPress(b) /\ ask.what = "SET" /\ confirming
  /\ first # Append(entry, b)
  /\ entry' = <<>> /\ confirming' = FALSE /\ flash' = TRUE
  /\ typed' = <<>>
  /\ Still /\ UNCHANGED <<first, locked, now, where>>

-----------------------------------------------------------------------------
(* The card, the clock and the power switch. *)

WriteOut ==
  /\ saving
  /\ file' = mem /\ saving' = FALSE
  /\ UNCHANGED <<writable, mem, wait, wrongs, served, todo, pad, locked, now, where>>

TimePasses ==
  /\ now # NoClock
  /\ now' \in Times
  /\ Still /\ UNCHANGED <<pad, locked, where>>

\* Reset or power off, at any point, and the boot after it.  The padlocks
\* are what locks.dat says, PlayerData's affair.
Restart ==
  /\ file' \in IF saving THEN {file, Absent} ELSE {file}
  /\ saving' = FALSE
  /\ mem' = Loaded(file')
  /\ wait' = Penalty(mem'.failures)
  /\ wrongs' = IF writable /\ file'.code # NoCode THEN wrongs ELSE 0
  /\ served' = 0
  /\ todo' = "none"
  /\ Goto("grid")
  /\ FreshPad /\ typed' = <<>>
  /\ locked' \in SUBSET Games
  /\ UNCHANGED <<writable, now, ask, game>>

Init ==
  /\ file \in InitialFiles
  /\ writable \in BOOLEAN
  /\ saving = FALSE
  /\ mem = Loaded(file)
  /\ wait = Penalty(mem.failures)
  /\ locked \in SUBSET Games
  /\ now \in Times \cup {NoClock}
  /\ screen = "grid"
  /\ game \in Games
  /\ ask = Asked("UNLOCK", "grid", "grid", NoGame)
  /\ entry = <<>> /\ first = <<>> /\ confirming = FALSE /\ flash = FALSE
  /\ todo = "none"
  /\ wrongs = 0 /\ served = 0 /\ proved = FALSE /\ typed = <<>>

Next ==
  \/ Browse \/ StartGame \/ LaunchFails \/ ToggleLock \/ OpenGuarded \/ SetClock \/ LocksList
  \/ PanelCode \/ PanelLocks \/ PanelEdit \/ PanelBack
  \/ FlashEnds \/ PressB \/ WaitTicks
  \/ \E b \in Buttons : Press(b) \/ Guess(b) \/ ChooseOnce(b) \/ ChooseTwice(b) \/ ChooseAgain(b)
  \/ Refuse \/ Accept \/ Deed
  \/ WriteOut \/ TimePasses \/ Restart

\* The frame loop calls code_update() for ever, and a save returns.
Spec == Init /\ [][Next]_vars /\ WF_vars(WaitTicks) /\ WF_vars(FlashEnds) /\ WF_vars(WriteOut)
             /\ WF_vars(Refuse) /\ WF_vars(Accept) /\ WF_vars(Deed)

-----------------------------------------------------------------------------
(* Properties. *)

\* What menu/parental.c holds, and what is on the card.
PolicyOK ==
  /\ file \in Files /\ mem \in Files
  /\ writable \in BOOLEAN /\ saving \in BOOLEAN
  /\ wait \in 0 .. PenaltyMax
  /\ locked \subseteq Games
  /\ now \in Times \cup {NoClock}
  /\ wrongs \in 0 .. PenaltyMax /\ served \in 0 .. PenaltyMax

\* What screens/screen_code.c holds.
PadOK ==
  /\ entry \in Seq(Buttons) /\ Len(entry) <= CodeLen
  /\ first \in Entries \cup {<<>>}
  /\ confirming => first \in Entries
  /\ confirming \in BOOLEAN /\ flash \in BOOLEAN
  /\ todo \in {"none", "judge", "deed"}
  /\ typed \in Seq(Buttons)

\* Where the user is, and where the pad leads.
PlaceOK ==
  /\ screen \in Open \cup {"code", "parental", "locks", "clock", "launch"}
  /\ game \in Games
  /\ ask \in [what : {"UNLOCK", "CLEAR", "TOGGLE", "SET"},
              ok : Open \cup {"parental", "clock", "launch"},
              cancel : Open \cup {"parental"}, game : Games \cup {NoGame}]
  /\ ask.what = "TOGGLE" => ask.game \in Games
  /\ proved \in BOOLEAN

\* What every variable may hold.
TypeOK == PolicyOK /\ PadOK /\ PlaceOK

\* No guess is looked at before the pad has been waited out for as long as
\* the wrong ones before it have earned, one unit each up to the ceiling, in
\* one sitting: no reset, no way out of the pad and back, and no power cut
\* around the saves of guess() makes it shorter, on a card that is written.
WaitIsEarned ==
  [][todo = "none" /\ todo' = "judge" => served >= Penalty(wrongs)]_vars

\* With a code set, the clock, the panel and the list of padlocks are come
\* to, and a game that may not start now is started, only after the code was
\* keyed in since the user last stood on a screen that is everybody's.
GuardedScreens ==
  [][screen' # screen =>
       /\ screen' \in {"clock", "parental", "locks"} => proved' \/ mem'.code = NoCode
       /\ screen' = "launch" => proved' \/ Verdict(game) = "allow"]_vars

\* A code that is stored is one the user keyed in twice over, deletions and
\* failed confirmations taken into account: submit() and the pad's B.
CodeIsWhatWasTypedTwice ==
  [][mem'.code \notin {mem.code, NoCode} /\ screen' # "grid" => typed' = mem'.code \o mem'.code]_vars

\* Once nothing is half written and the user is out of the panel, a boot
\* would bring back what the menu is enforcing: code, count and schedule.
Inside == screen \in {"parental", "locks"} \/ (screen = "code" /\ ask.cancel = "parental")
CardAgrees ==
  /\ TypeOK
  /\ (writable /\ ~saving /\ ~Inside) => Loaded(file) = Loaded(mem)

\* parental_seconds_until_open() says the first moment at which the window is
\* open, whatever the window, midnight and the last step of an hour included;
\* it says nothing only when the window is open now.
OpeningTimeIsExact ==
  LET OpenAt(t, from, to) == HourAllowed(HourOf(t % DaySteps), from, to)
  IN  now # NoClock =>
        \A from, to \in Hours :
          LET d == UntilOpen(now, from, to)
          IN  /\ OpenAt(now + d, from, to)
              /\ \A e \in 0 .. d - 1 : ~OpenAt(now + e, from, to)

\* Whoever stays on the pad gets to press again, however many entries failed
\* and however often the console was reset before.
PadReopens == (screen = "code" /\ wait > 0) ~> (screen # "code" \/ wait = 0)

=============================================================================
