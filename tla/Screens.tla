------------------------------ MODULE Screens ------------------------------
(***************************************************************************)
(* The menu's screens as the main loop runs them (app.c): what each button *)
(* does, where it leads, and what the screens leave for one another in     *)
(* static variables - the grid's cursor, the sheet's title, the keyboard's *)
(* question, the picker, the players' looks and themes, the settings and   *)
(* the music they choose.                                                  *)
(*                                                                         *)
(* One step is one turn of the loop with a screen's enter() or update() in *)
(* it; a player presses at most one button a frame.  Screens modelled      *)
(* elsewhere (the code pad, cheats, parental controls, launching) are here *)
(* only as the places they return to.  A session keeps to one tour, the    *)
(* screens its player visits, the settings changed and whether favourites  *)
(* ("LIKES") and tabs ("TABS") change and the art is ever read ("ART"),    *)
(* which bounds the model.                                                 *)
(***************************************************************************)
EXTENDS Integers, Sequences, FiniteSets, SequencesExt, Music, BootPlate, GridView

CONSTANTS
    Titles,         \* the titles, in the order of their paths: 1 .. n
    Given,          \* the name the database or the file gives each
    PathTitle,      \* the name its file name gives each
    System,         \* the system of each
    Cols,           \* columns of the grid
    Letters,        \* what the keyboard types; 0 is a space
    NameLimit,      \* longest player name
    TextLimit,      \* longest title
    Slots,          \* players, 0 .. PROFILE_MAX - 1
    Looks,          \* icons of the pack
    NoIcon,         \* ICON_NONE
    Starter,        \* the look each slot is born with
    Themes,         \* the themes; the first is the one of an unknown name
    Settle,         \* frames before a chosen track plays
    Boots           \* bound: what a boot may find, and the tour of the session

VARIABLES
    tour,       \* the screens this session visits and the rows it changes
    app,        \* [screen, next, theme, started, code]: code is where the code pad leads, right or not;
                \* screen is "none" before the first and "off" at the end
    plate,
    music,
    lib,        \* [custom, fav, stamp, table]: what the titles are called, who likes which, who played
                \* which, and all of them in order
    grid,       \* [opened, tab, cursor, focus]
    sheet,      \* [rom, path, closing, pending, name, at]: the title on the sheet and a rename's question
    prof,       \* the picker: [picking, mode, cursor, keep, row, slot, name]
    kb,         \* the keyboard: [text, caret, accepted, back, empty, limit]
    look,       \* the appearance screen: [slot, now]
    roster,     \* [used, active, name, theme, look] by slot
    set, saved, \* the settings in memory and in the file
    list,       \* the settings screen: [cursor, returning, settle]
    asked       \* history: whose name the keyboard was last asked for

shelf == <<lib, grid, sheet>>
people == <<roster, prof, look>>
typing == <<kb, asked>>
config == <<set, saved, list>>
vars == <<tour, app, plate, music, shelf, people, typing, config>>

\* A name is the numbers of its letters.  A boot finds a title at least, and
\* the first player; what its files say is of its type.
ASSUME ScreensAssumption ==
    /\ IsFiniteSet(Titles) /\ Titles = 1 .. Cardinality(Titles) /\ Titles # {}
    /\ Given \in [Titles -> Seq(Nat)] /\ PathTitle \in [Titles -> Seq(Nat)]
    /\ Cols \in Nat \ {0} /\ NameLimit \in Nat /\ TextLimit \in Nat /\ Settle \in Nat \ {0}
    /\ Letters \subseteq Nat
    /\ IsFiniteSet(Slots) /\ Slots = 0 .. Cardinality(Slots) - 1
    /\ Themes \in Seq(STRING) \ {<<>>}
    /\ \A b \in Boots :
          /\ DOMAIN b.roster = {"used", "active", "name", "theme", "look"}
          /\ 0 \in b.roster.used /\ b.roster.used \subseteq Slots /\ b.roster.active \in b.roster.used
          /\ b.roster.name \in [Slots -> Seq(Nat)] /\ b.roster.theme \in [Slots -> STRING]
          /\ b.lib.custom \in [Titles -> Seq(Nat)] /\ b.lib.fav \in [Slots -> SUBSET Titles]
          /\ b.lib.stamp \in [Slots -> [Titles -> Nat]]
          /\ DOMAIN b.set = {"track", "music", "boxart", "others"} /\ b.set.track \in Int /\ b.set.music \in Int

Home == {"GRID", "PROFILES"}
Away == {"CODE", "CHEATS", "CLOCK", "PARENTAL", "SYSINFO", "CREDITS"}
-----------------------------------------------------------------------------
(***************************************************************************)
(* The library: names, order and tabs.  library_finish() gives a title the *)
(* name of its file when another one's given name is the same and neither  *)
(* was typed; the records are sorted by name, then path.                   *)
(***************************************************************************)
Collides(l, t) ==
    \E u \in Titles \ {t} : l.custom[t] = <<>> /\ l.custom[u] = <<>> /\ Given[u] = Given[t]
NameOf(l, t) ==
    IF l.custom[t] # <<>> THEN l.custom[t]
    ELSE IF Collides(l, t) THEN PathTitle[t] ELSE Given[t]

\* Names as strcasecmp() orders them, letter by letter, a prefix first.
Before(a, b) ==
    \E n \in 1 .. Len(b) :
        /\ \A k \in 1 .. n - 1 : k <= Len(a) /\ a[k] = b[k]
        /\ n > Len(a) \/ a[n] < b[n]
Precedes(l, t, u) == Before(NameOf(l, t), NameOf(l, u)) \/ (NameOf(l, t) = NameOf(l, u) /\ t < u)
\* library_sort()
Sorted(l) == InOrder(Titles, {p \in Titles \X Titles : Precedes(l, p[1], p[2])})
\* library_finish(), with the table put in order.
Finished(l) == [custom |-> l.custom, fav |-> l.fav, stamp |-> l.stamp, table |-> Sorted(l)]

\* The records as the tabs see them, for the active player.
Records(l, r) ==
    [i \in DOMAIN l.table |->
        LET t == l.table[i]
        IN  [system |-> System[t], fav |-> t \in l.fav[r.active], stamp |-> l.stamp[r.active][t]]]
View(g, l, r) == TabView(Records(l, r), Tabs[g.tab])
TitleAt(g, l, r) == l.table[View(g, l, r)[g.cursor + 1]]
\* Mutant: the index from before the library was sorted again.
FindPathBefore(l, t) == CHOOSE i \in DOMAIN lib.table : lib.table[i] = t
FindPath(l, t) == CHOOSE i \in DOMAIN l.table : l.table[i] = t

\* Mutant: the cursor stays where the tab had more titles.
RebuiltUnclamped(g, l, r) == g
\* rebuild_view()
Rebuilt(g, l, r) == [g EXCEPT !.cursor = Clamped(@, Len(View(g, l, r)))]
-----------------------------------------------------------------------------
(***************************************************************************)
(* The players.  theme_by_name() takes an unknown name for the first.      *)
(***************************************************************************)
ThemeByName(name) == IF \E i \in DOMAIN Themes : Themes[i] = name THEN name ELSE Themes[1]
Count(r) == Cardinality(r.used)
NewPlayer(r, p) ==
    [r EXCEPT !.used = @ \cup {p}, !.name[p] = <<>>, !.theme[p] = "", !.look[p] = Starter[p]]
Vacant(r) == Slots \ r.used
FirstVacant(r) == CHOOSE p \in Vacant(r) : \A q \in Vacant(r) : p <= q

\* profile_set_name() cuts what does not fit and the spaces at the end.
Trimmed(s) == SubSeq(s, 1, SelectLastInSeq(s, LAMBDA c : c # 0))

\* profile_appearance_owner(): who else looks like that.
Owners(r, x, p) == {q \in r.used \ {p} : r.look[q] = x}
-----------------------------------------------------------------------------
Goto(s) ==
    /\ s \in tour \cup {"GRID"}
    /\ app' = [app EXCEPT !.next = s]
Stay == UNCHANGED app

\* The music's step is taken first in a frame, when the plate has lifted.
Running == app.screen # "off" /\ (plate.done => app.started)
Idle == Running /\ app.next = app.screen
On(s) == Idle /\ app.screen = s
Ready == plate.done

\* boot_plate_step() comes first in the update of the grid and the picker:
\* while the plate covers the screen it swallows the frame.
PlateStep ==
    /\ Idle /\ app.screen \in Home /\ ~plate.done
    /\ \E ready \in {FALSE, "ART" \in tour} : plate' = Stepped(plate, 1, ready)
    /\ UNCHANGED <<tour, app, music, shelf, people, typing, config>>

\* The song starts once, in the frame after the plate has gone.
MusicStarts ==
    /\ app.screen # "off" /\ plate.done /\ ~app.started
    /\ music' \in Resume(music)
    /\ app' = [app EXCEPT !.started = TRUE]
    /\ UNCHANGED <<tour, plate, shelf, people, typing, config>>

\* music_poll() at the end of a frame.
SongEnds ==
    /\ Running /\ music.playing /\ music.selected = Shuffle
    /\ music' \in Ended(music)
    /\ UNCHANGED <<tour, app, plate, shelf, people, typing, config>>
-----------------------------------------------------------------------------
(***************************************************************************)
(* Entering a screen, and leaving the old one: the loop turns until        *)
(* screen and next agree, before the frame's update.                       *)
(***************************************************************************)
Turning(s) == Running /\ app.next = s /\ app.screen # s
Arrive(s) == app' = [app EXCEPT !.screen = s]

\* Mutant: a song chosen in a hurry is forgotten.
LeaveInAHurry == UNCHANGED <<music, list>>
\* settings_leave() plays the track still waiting to settle.
Leave ==
    IF app.screen = "SETTINGS" /\ list.settle > 0
    THEN /\ music' \in SetTrack(music, set.track)
         /\ list' = [list EXCEPT !.settle = 0]
    ELSE UNCHANGED <<music, list>>

\* grid_enter(): the plate and the opening tab once, the view every time, and
\* the title a rename moved.
FocusOn(g, l, r) ==
    LET at == {i \in DOMAIN View(g, l, r) : View(g, l, r)[i] = g.focus}
    IN  [g EXCEPT !.focus = -1, !.cursor = IF at = {} THEN @ ELSE (CHOOSE i \in at : TRUE) - 1]
EnterGrid ==
    /\ Turning("GRID") /\ Arrive("GRID") /\ Leave
    /\ plate' = IF grid.opened THEN plate ELSE Armed(plate)
    /\ \E open \in {IF grid.opened THEN grid
                 ELSE [grid EXCEPT !.opened = TRUE, !.tab = OpeningTab(Records(lib, roster))]} :
       \E g \in {Rebuilt(open, lib, roster)} :
          grid' = FocusOn(g, lib, roster)
    /\ UNCHANGED <<tour, lib, sheet, people, typing, set, saved>>

\* profiles_enter(): a name that came back from the keyboard goes to the slot
\* it was asked for; the cursor is kept on that slot, else put on the player.
EnterProfiles ==
    /\ Turning("PROFILES") /\ Arrive("PROFILES") /\ Leave
    /\ plate' = IF prof.picking THEN Armed(plate) ELSE plate
    /\ IF prof.slot >= 0
       THEN /\ roster' = IF prof.name = <<>> THEN roster
                         ELSE [roster EXCEPT !.name[prof.slot] = Trimmed(prof.name)]
            /\ prof' = [prof EXCEPT !.mode = "grid", !.slot = -1]
       ELSE /\ prof' = [prof EXCEPT !.mode = "grid", !.cursor = roster.active]
            /\ UNCHANGED roster
    /\ UNCHANGED <<tour, shelf, look, typing, set, saved>>

EnterKeyboard ==
    /\ Turning("KEYBOARD") /\ Arrive("KEYBOARD") /\ Leave
    /\ kb' = [kb EXCEPT !.caret = Len(kb.text)]
    /\ UNCHANGED <<tour, plate, shelf, people, asked, set, saved>>

EnterAppearance ==
    /\ Turning("APPEARANCE") /\ Arrive("APPEARANCE") /\ Leave
    /\ look' = [slot |-> look.slot, now |-> roster.look[look.slot]]
    /\ UNCHANGED <<tour, plate, shelf, roster, prof, typing, set, saved>>

\* detail_enter() gives the title the name that came back.  Its record moves,
\* so it is looked up again by its path.  Without the memory for the name,
\* and when none came back, everything stays.
EnterDetail ==
    /\ Turning("DETAIL") /\ Arrive("DETAIL") /\ Leave
    /\ \/ /\ sheet.pending /\ kb.accepted
          /\ lib' = Finished([lib EXCEPT !.custom[sheet.at] = sheet.name])
          /\ sheet' = [sheet EXCEPT !.pending = FALSE, !.closing = FALSE,
                                    !.rom = FindPath(lib', sheet.at)]
          /\ grid' = [grid EXCEPT !.focus = FindPath(lib', sheet.at)]
       \/ /\ sheet' = [sheet EXCEPT !.pending = FALSE, !.closing = FALSE]
          /\ UNCHANGED <<lib, grid>>
    /\ UNCHANGED <<tour, plate, people, typing, set, saved>>

EnterSettings ==
    /\ Turning("SETTINGS") /\ Arrive("SETTINGS")
    /\ list' = [cursor |-> IF list.returning THEN list.cursor ELSE 1, returning |-> FALSE, settle |-> 0]
    /\ UNCHANGED <<tour, plate, music, shelf, people, typing, set, saved>>

EnterAway ==
    /\ \E s \in Away \cup {"LAUNCH", "FAULT"} : Turning(s) /\ Arrive(s)
    /\ Leave
    /\ UNCHANGED <<tour, plate, shelf, people, typing, set, saved>>

Turn ==
    \/ EnterGrid \/ EnterProfiles \/ EnterKeyboard \/ EnterAppearance
    \/ EnterDetail \/ EnterSettings \/ EnterAway
-----------------------------------------------------------------------------
(***************************************************************************)
(* The grid.  L and Z go one tab left, past the first to the players.      *)
(***************************************************************************)
ToTab(t) == Rebuilt([grid EXCEPT !.tab = t, !.cursor = 0], lib, roster)

\* grid_open(): the sheet is told the record's index and its path.
OpenSheet ==
    /\ View(grid, lib, roster) # <<>>
    /\ Goto("DETAIL")
    /\ sheet' = [sheet EXCEPT !.rom = View(grid, lib, roster)[grid.cursor + 1],
                              !.path = TitleAt(grid, lib, roster)]
    /\ UNCHANGED <<lib, grid>>

Toggled(l, t) ==
    [l EXCEPT !.fav[roster.active] = IF t \in @ THEN @ \ {t} ELSE @ \cup {t}]
ToggleFavourite ==
    /\ View(grid, lib, roster) # <<>>
    /\ lib' = Toggled(lib, TitleAt(grid, lib, roster))
    /\ grid' = IF Tabs[grid.tab] = "favorites" THEN Rebuilt(grid, lib', roster) ELSE grid
    /\ Stay /\ UNCHANGED sheet

GridKey(key) ==
    /\ On("GRID") /\ Ready
    /\ \/ /\ key \in {"L", "Z"} /\ "TABS" \in tour /\ grid.tab > 1
          /\ grid' = ToTab(grid.tab - 1) /\ Stay /\ UNCHANGED <<lib, sheet>>
       \/ /\ key \in {"L", "Z"} /\ grid.tab = 1
          /\ Goto("PROFILES") /\ UNCHANGED shelf
       \/ /\ key = "R" /\ "TABS" \in tour /\ grid.tab < Len(Tabs)
          /\ grid' = ToTab(grid.tab + 1) /\ Stay /\ UNCHANGED <<lib, sheet>>
       \/ /\ key \in {"LEFT", "RIGHT", "UP", "DOWN"}
          /\ grid' = [grid EXCEPT !.cursor = Moved(key, @, Len(View(grid, lib, roster)), Cols)]
          /\ Stay /\ UNCHANGED <<lib, sheet>>
       \/ key = "A" /\ OpenSheet
       \/ key = "C-RIGHT" /\ "LIKES" \in tour /\ ToggleFavourite
       \/ /\ key = "B" /\ Count(roster) > 1
          /\ Goto("PROFILES") /\ UNCHANGED shelf
       \/ /\ key = "START" /\ Goto("SETTINGS") /\ UNCHANGED shelf
    /\ UNCHANGED <<tour, plate, music, people, typing, config>>
-----------------------------------------------------------------------------
(***************************************************************************)
(* The picker.  At a boot with several players nobody leaves it without a  *)
(* choice; later B and R go back to the grid.                              *)
(***************************************************************************)
\* screen_keyboard_ask()
Ask(whose, initial, limit, back, empty) ==
    /\ LET text == SubSeq(initial, 1, IF Len(initial) > limit THEN limit ELSE Len(initial))
       IN  kb' = [text |-> text, caret |-> Len(text), accepted |-> FALSE,
                  back |-> back, empty |-> empty, limit |-> limit]
    /\ asked' = whose
    /\ Goto("KEYBOARD")

BeginRename(p, r) ==
    /\ prof' = [prof EXCEPT !.slot = p, !.name = <<>>, !.mode = "grid", !.cursor = p]
    /\ roster' = r
    /\ Ask(<<"player", p>>, r.name[p], NameLimit, "PROFILES", FALSE)
    /\ UNCHANGED look

\* choose()
Choose(p) ==
    /\ roster' = [roster EXCEPT !.active = p]
    /\ prof' = [prof EXCEPT !.picking = FALSE]
    /\ app' = [app EXCEPT !.next = "GRID", !.theme =
                  IF p = roster.active THEN @ ELSE ThemeByName(roster.theme[p])]
    /\ UNCHANGED <<look, typing>>

\* update_grid()
PickerKey(key) ==
    /\ prof.mode = "grid"
    /\ \/ key \in {"B", "R"} /\ ~prof.picking /\ Goto("GRID") /\ UNCHANGED <<people, typing>>
       \/ /\ key \in {"LEFT", "RIGHT", "UP", "DOWN"}
          /\ \E p \in Slots :
                /\ p = CASE key = "LEFT" -> prof.cursor - 1 [] key = "RIGHT" -> prof.cursor + 1
                         [] key = "UP" -> prof.cursor - Cols [] OTHER -> prof.cursor + Cols
                /\ key \in {"LEFT", "RIGHT"} => p \div Cols = prof.cursor \div Cols
                /\ prof' = [prof EXCEPT !.cursor = p]
          /\ Stay /\ UNCHANGED <<roster, look, typing>>
       \/ key = "A" /\ prof.cursor \in roster.used /\ Choose(prof.cursor)
       \/ /\ key = "A" /\ prof.cursor \notin roster.used
          /\ BeginRename(prof.cursor, NewPlayer(roster, prof.cursor))
       \/ /\ key = "START" /\ Vacant(roster) # {}
          /\ BeginRename(FirstVacant(roster), NewPlayer(roster, FirstVacant(roster)))
       \/ /\ key = "Z" /\ prof.cursor \in roster.used
          /\ prof' = [prof EXCEPT !.mode = "edit", !.row = "name"]
          /\ Stay /\ UNCHANGED <<roster, look, typing>>
       \/ /\ key = "C-LEFT" /\ prof.cursor \in roster.used \ {0}
          /\ prof' = [prof EXCEPT !.mode = "confirm", !.keep = TRUE]
          /\ Stay /\ UNCHANGED <<roster, look, typing>>

\* update_edit()
EditKey(key) ==
    /\ prof.mode = "edit"
    /\ \/ /\ key \in {"B", "Z"}
          /\ prof' = [prof EXCEPT !.mode = "grid"]
          /\ Stay /\ UNCHANGED <<roster, look, typing>>
       \/ /\ key \in {"UP", "DOWN"}
          /\ prof' = [prof EXCEPT !.row = IF key = "UP" THEN "name" ELSE "look"]
          /\ Stay /\ UNCHANGED <<roster, look, typing>>
       \/ key = "A" /\ prof.row = "name" /\ BeginRename(prof.cursor, roster)
       \/ /\ key = "A" /\ prof.row = "look"
          /\ prof' = [prof EXCEPT !.mode = "grid"]
          /\ look' = [look EXCEPT !.slot = prof.cursor]
          /\ Goto("APPEARANCE") /\ UNCHANGED <<roster, typing>>

\* run_delete(): the roster without the player, the first one active if it
\* was the active one's, and the screen in the theme of whoever is.
Removed(r, p) ==
    [r EXCEPT !.used = @ \ {p}, !.name[p] = <<>>, !.theme[p] = "", !.look[p] = Starter[p],
              !.active = IF @ = p THEN 0 ELSE @]
Delete ==
    /\ roster' = Removed(roster, prof.cursor)
    /\ prof' = [prof EXCEPT !.mode = "grid"]
    /\ app' = [app EXCEPT !.theme = ThemeByName(roster'.theme[roster'.active])]
    /\ UNCHANGED <<look, typing>>

\* update_confirm(), and the deletion at the end of the same frame.
ConfirmKey(key) ==
    /\ prof.mode = "confirm"
    /\ \/ /\ key = "B" \/ (key = "A" /\ prof.keep)
          /\ prof' = [prof EXCEPT !.mode = "grid"]
          /\ Stay /\ UNCHANGED <<roster, look, typing>>
       \/ /\ key \in {"LEFT", "RIGHT"}
          /\ prof' = [prof EXCEPT !.keep = ~@]
          /\ Stay /\ UNCHANGED <<roster, look, typing>>
       \/ key = "A" /\ ~prof.keep /\ Delete

ProfilesKey(key) ==
    /\ On("PROFILES") /\ Ready
    /\ PickerKey(key) \/ EditKey(key) \/ ConfirmKey(key)
    /\ UNCHANGED <<tour, plate, music, shelf, config>>
-----------------------------------------------------------------------------
(***************************************************************************)
(* The keyboard.  Its layout is in TextEntry; here a letter is typed at    *)
(* the caret, the caret is moved, B deletes or, with nothing left, leaves. *)
(***************************************************************************)
Typed(c) ==
    [kb EXCEPT !.text = InsertAt(@, kb.caret + 1, c), !.caret = @ + 1]
Deleted == [kb EXCEPT !.text = RemoveAt(@, kb.caret), !.caret = @ - 1]

\* confirm(): the text goes to whoever asked.
Confirm ==
    /\ kb.text # <<>> \/ kb.empty
    /\ kb' = [kb EXCEPT !.accepted = TRUE]
    /\ app' = [app EXCEPT !.next = kb.back]
    /\ IF kb.back = "PROFILES"
       THEN prof' = [prof EXCEPT !.name = kb.text] /\ UNCHANGED sheet
       ELSE sheet' = [sheet EXCEPT !.name = kb.text] /\ UNCHANGED prof

KeyboardKey(key) ==
    /\ On("KEYBOARD")
    /\ \/ /\ key = "B" /\ kb.text = <<>>
          /\ app' = [app EXCEPT !.next = kb.back] /\ UNCHANGED <<kb, sheet, prof>>
       \/ key = "B" /\ kb.caret > 0 /\ kb' = Deleted /\ Stay /\ UNCHANGED <<sheet, prof>>
       \/ key = "START" /\ Confirm
       \/ /\ key = "A" /\ Len(kb.text) < kb.limit
          /\ \E c \in Letters : kb' = Typed(c)
          /\ Stay /\ UNCHANGED <<sheet, prof>>
       \/ /\ key \in {"LEFT", "RIGHT"}
          /\ \E at \in 0 .. Len(kb.text) : kb' = [kb EXCEPT !.caret = at]
          /\ Stay /\ UNCHANGED <<sheet, prof>>
    /\ UNCHANGED <<tour, plate, music, lib, grid, roster, look, asked, config>>
-----------------------------------------------------------------------------
(***************************************************************************)
(* The appearance screen.  Its panes are in LookPanes; here an icon or a   *)
(* colour is picked.  B and START both mean done, and apply() refuses a    *)
(* look with no icon, one that cannot be seen, or another player's.        *)
(***************************************************************************)
Refused(x, p) == x.icon = NoIcon \/ x.ink = x.plate \/ Owners(roster, x, p) # {}

Apply ==
    /\ ~Refused(look.now, look.slot)
    /\ roster' = [roster EXCEPT !.look[look.slot] = look.now]
    /\ app' = [app EXCEPT !.next = "PROFILES"]
    /\ UNCHANGED look

AppearanceKey(key) ==
    /\ On("APPEARANCE")
    /\ \/ key \in {"B", "START"} /\ Apply
       \/ /\ key = "A"
          /\ \E x \in Looks : look' = [look EXCEPT !.now.icon = x.icon]
          /\ Stay /\ UNCHANGED roster
       \/ /\ key \in {"LEFT", "RIGHT"}
          /\ \E x \in Looks :
                look' = [look EXCEPT !.now = [x EXCEPT !.icon = look.now.icon]]
          /\ Stay /\ UNCHANGED roster
    /\ UNCHANGED <<tour, plate, music, shelf, prof, typing, config>>
-----------------------------------------------------------------------------
(***************************************************************************)
(* The sheet of one title.                                                 *)
(***************************************************************************)
AskCode(good, back) ==
    /\ "CODE" \in tour /\ app' = [app EXCEPT !.next = "CODE", !.code = <<good, back>>]

SheetKey(key) ==
    /\ On("DETAIL") /\ ~sheet.closing
    /\ \/ /\ key = "C-UP"
          /\ sheet' = [sheet EXCEPT !.pending = TRUE, !.name = <<>>, !.at = lib.table[sheet.rom]]
          /\ Ask(<<"title", sheet.path>>, NameOf(lib, lib.table[sheet.rom]), TextLimit, "DETAIL", TRUE)
          /\ UNCHANGED lib
       \/ /\ key = "C-RIGHT" /\ "LIKES" \in tour
          /\ lib' = Toggled(lib, lib.table[sheet.rom])
          /\ Stay /\ UNCHANGED <<sheet, typing>>
       \/ key = "C-LEFT" /\ AskCode("DETAIL", "DETAIL") /\ UNCHANGED <<lib, sheet, typing>>
       \/ key = "Z" /\ Goto("CHEATS") /\ UNCHANGED <<lib, sheet, typing>>
       \/ /\ key = "B"
          /\ sheet' = [sheet EXCEPT !.closing = TRUE]
          /\ Stay /\ UNCHANGED <<lib, typing>>
       \/ /\ key \in {"A", "START"}
          /\ AskCode("LAUNCH", "DETAIL") \/ Goto("LAUNCH")
          /\ UNCHANGED <<lib, sheet, typing>>
    /\ UNCHANGED <<tour, plate, music, grid, people, config>>

\* The sheet slides away, and the grid is behind it.
SheetCloses ==
    /\ On("DETAIL") /\ sheet.closing
    /\ app' = [app EXCEPT !.next = "GRID"]
    /\ UNCHANGED <<tour, plate, music, shelf, people, typing, config>>
-----------------------------------------------------------------------------
(***************************************************************************)
(* The settings.  A song chosen on the track row plays once the row has    *)
(* been left alone for Settle frames, or when the screen is left; B and    *)
(* START save.  The theme is the player's own and is saved with the        *)
(* roster; the box art row and the parental row save everything.           *)
(***************************************************************************)
Rows == <<"theme", "boxart", "sfx", "music", "track", "clock", "parental", "cheatdb",
          "engine", "sysinfo", "credits">>
Row == Rows[list.cursor]
Step(key) == IF key = "LEFT" THEN -1 ELSE 1

Around(i, d, n) == ((i - 1 + d) % n) + 1
NextTheme(name, d) ==
    Themes[Around(CHOOSE i \in DOMAIN Themes : Themes[i] = name, d, Len(Themes))]
\* step_track(): Shuffle stands before the first song.
StepTrack(t, d) == ((t + 1 + d) % (Cardinality(Tracks) + 1)) - 1

\* The frame's first act: the track settles.
Settled ==
    IF list.settle = 1 THEN SetTrack(music, set.track) ELSE {music}
Ticked == [list EXCEPT !.settle = IF @ > 0 THEN @ - 1 ELSE 0]

ChangeTheme(d) ==
    /\ app' = [app EXCEPT !.theme = NextTheme(@, d)]
    /\ roster' = [roster EXCEPT !.theme[roster.active] = app'.theme]

ChangeMusic(d) ==
    /\ set' = [set EXCEPT !.music = Volume(@ + d)]
    /\ IF set'.music = set.music THEN music' \in Settled
       ELSE \E m \in Settled : music' \in SetVolume(m, set'.music)

RowKey(key) ==
    /\ Row \in tour
    /\ \/ /\ Row = "theme" /\ ChangeTheme(Step(key)) /\ list' = Ticked
          /\ music' \in Settled /\ UNCHANGED <<set, saved>>
       \/ /\ Row = "boxart" /\ set' = [set EXCEPT !.boxart = ~@] /\ saved' = set'
          /\ music' \in Settled /\ list' = Ticked /\ UNCHANGED <<app, roster>>
       \/ /\ Row = "music" /\ ChangeMusic(Step(key)) /\ list' = Ticked
          /\ UNCHANGED <<app, roster, saved>>
       \/ /\ Row = "track" /\ set' = [set EXCEPT !.track = StepTrack(@, Step(key))]
          /\ music' \in Settled /\ list' = [list EXCEPT !.settle = Settle]
          /\ UNCHANGED <<app, roster, saved>>
       \/ /\ Row \in {"sfx", "cheatdb", "engine"} /\ set' = [set EXCEPT !.others = ~@]
          /\ music' \in Settled /\ list' = Ticked /\ UNCHANGED <<app, roster, saved>>

\* What A opens, the cursor to be kept for the way back; behind the parental
\* code if there is one.
OpenRow ==
    /\ \/ Row = "clock" /\ (AskCode("CLOCK", "SETTINGS") \/ Goto("CLOCK")) /\ UNCHANGED saved
       \/ Row = "parental" /\ (AskCode("PARENTAL", "SETTINGS") \/ Goto("PARENTAL")) /\ saved' = set
       \/ Row = "sysinfo" /\ Goto("SYSINFO") /\ UNCHANGED saved
       \/ Row = "credits" /\ Goto("CREDITS") /\ UNCHANGED saved
    /\ music' \in Settled /\ list' = [Ticked EXCEPT !.returning = TRUE]
    /\ UNCHANGED <<roster, set>>

SettingsKey(key) ==
    /\ On("SETTINGS")
    /\ \/ /\ key \in {"B", "START"} /\ Goto("GRID") /\ saved' = set
          /\ music' \in Settled /\ list' = Ticked /\ UNCHANGED <<roster, set>>
       \/ /\ key \in {"UP", "DOWN"}
          /\ list' = [Ticked EXCEPT !.cursor =
                         IF key = "UP" THEN (IF @ > 1 THEN @ - 1 ELSE 1)
                         ELSE IF @ < Len(Rows) THEN @ + 1 ELSE @]
          /\ music' \in Settled /\ Stay /\ UNCHANGED <<roster, set, saved>>
       \/ key \in {"LEFT", "RIGHT", "A"} /\ RowKey(key)
       \/ key = "A" /\ OpenRow
    /\ UNCHANGED <<tour, plate, shelf, prof, look, typing>>

\* A frame without a button, which only lets the track settle.
SettingsRest ==
    /\ On("SETTINGS") /\ list.settle > 0
    /\ music' \in Settled /\ list' = Ticked
    /\ UNCHANGED <<tour, app, plate, shelf, people, typing, set, saved>>
-----------------------------------------------------------------------------
(***************************************************************************)
(* The screens modelled elsewhere, as the places they return to.           *)
(***************************************************************************)
Returns(s, key) ==
    CASE s = "CODE" -> IF key = "B" THEN app.code[2] ELSE app.code[1]
      [] s = "CHEATS" -> "DETAIL"
      [] OTHER -> "SETTINGS"

AwayKey(key) ==
    /\ key \in {"B", "START"}
    /\ \E s \in Away : On(s) /\ Goto(Returns(s, key))
    /\ UNCHANGED <<tour, plate, music, shelf, people, typing, config>>

\* playstate_played(): what was played last outranks everything played before;
\* here the stamps are ranks.
Played(l) ==
    LET s == l.stamp[roster.active]
        t == sheet.path
        others == {u \in Titles \ {t} : s[u] > 0}
    IN  [l EXCEPT !.stamp[roster.active] =
            [u \in Titles |->
                IF u = t THEN Cardinality(others) + 1
                ELSE IF s[u] = 0 THEN 0
                ELSE Cardinality({v \in others : s[v] <= s[u]})]]

\* The end of do_load(): the console becomes the game's; a game that cannot
\* be started leaves a message that stays; and in an emulator, without a
\* cartridge, the menu comes back.
LaunchEnds ==
    /\ On("LAUNCH")
    /\ \/ /\ app' = [app EXCEPT !.screen = "off", !.next = "off"]
          /\ music' = Release(music) /\ UNCHANGED lib
       \/ /\ app' = [app EXCEPT !.next = "FAULT"]
          /\ music' = Release(music) /\ UNCHANGED lib
       \/ /\ app' = [app EXCEPT !.next = "GRID"]
          /\ music' \in Resume(Release(music)) /\ lib' = Played(lib)
    /\ UNCHANGED <<tour, plate, grid, sheet, people, typing, config>>

\* Nothing but the power switch ends these.
Over == app.screen \in {"off", "FAULT"} /\ UNCHANGED vars
-----------------------------------------------------------------------------
Keys == {"A", "B", "START", "L", "R", "Z", "UP", "DOWN", "LEFT", "RIGHT", "C-UP", "C-LEFT", "C-RIGHT"}

Press(key) ==
    \/ GridKey(key) \/ ProfilesKey(key) \/ KeyboardKey(key) \/ AppearanceKey(key)
    \/ SheetKey(key) \/ SettingsKey(key) \/ AwayKey(key)
Frame == PlateStep \/ MusicStarts \/ Turn \/ SheetCloses \/ SettingsRest \/ LaunchEnds

\* app_init(): the settings and the roster are read, the song is made ready,
\* and the first screen is the picker when there is a choice to make, or the
\* fault screen.
Init ==
    /\ \E b \in Boots :
          /\ tour = b.tour /\ roster = b.roster /\ lib = Finished(b.lib) /\ set = b.set /\ saved = b.set
          /\ music \in Prepare(Silent, b.set.track, b.set.music)
    /\ plate = Armed(Unarmed)
    /\ \E broken \in BOOLEAN :
          LET many == Count(roster) > 1 /\ ~broken
          IN  /\ app = [screen |-> "none", started |-> FALSE, code |-> <<"GRID", "GRID">>,
                        next |-> IF broken THEN "FAULT" ELSE IF many THEN "PROFILES" ELSE "GRID",
                        theme |-> ThemeByName(roster.theme[roster.active])]
              /\ prof = [picking |-> many, mode |-> "grid", cursor |-> 0, keep |-> TRUE,
                         row |-> "name", slot |-> -1, name |-> <<>>]
    /\ grid = [opened |-> FALSE, tab |-> 1, cursor |-> 0, focus |-> -1]
    /\ sheet = [rom |-> 1, path |-> lib.table[1], closing |-> FALSE, pending |-> FALSE,
                name |-> <<>>, at |-> 1]
    /\ kb = [text |-> <<>>, caret |-> 0, accepted |-> FALSE, back |-> "GRID", empty |-> FALSE, limit |-> 0]
    /\ look = [slot |-> 0, now |-> roster.look[0]]
    /\ list = [cursor |-> 1, returning |-> FALSE, settle |-> 0]
    /\ asked = <<"nobody", 0>>

Next == (\E key \in Keys : Press(key)) \/ Frame \/ SongEnds \/ Over

\* The loop never stops turning: frames and screens follow whatever the
\* player does.
Fairness ==
    /\ WF_vars(PlateStep) /\ WF_vars(MusicStarts) /\ WF_vars(Turn) /\ WF_vars(SheetCloses)
    /\ WF_vars(SettingsRest) /\ WF_vars(LaunchEnds)
Spec == Init /\ [][Next]_vars /\ Fairness
-----------------------------------------------------------------------------
TypeOK ==
    /\ app.screen \in Home \cup Away \cup {"none", "off", "KEYBOARD", "APPEARANCE", "DETAIL", "SETTINGS", "LAUNCH", "FAULT"}
    /\ grid.tab \in DOMAIN Tabs /\ grid.cursor \in Nat /\ prof.cursor \in Slots
    /\ roster.active \in roster.used /\ 0 \in roster.used /\ roster.used \subseteq Slots
    /\ kb.caret \in 0 .. Len(kb.text) /\ list.settle \in 0 .. Settle
    /\ music.selected \in Tracks \cup {Shuffle} /\ music.volume \in 0 .. Loudest

\* At a boot with several players nothing of anyone's is shown before one is
\* chosen: until then there is only the picker, the keyboard and the
\* appearance it opens, and the fault screen.  And what is shown is never
\* beyond the view: the grid's cursor is on a title of the tab, or the tab is
\* empty (screen_profiles.c:238, screen_grid.c:157).
PickBeforePlay ==
    /\ prof.picking => app.screen \in {"none", "PROFILES", "KEYBOARD", "APPEARANCE"}
    /\ (app.screen = "GRID" /\ View(grid, lib, roster) # <<>>) =>
           grid.cursor < Len(View(grid, lib, roster))
    /\ TypeOK

Shown(t) == \E i \in DOMAIN View(grid, lib, roster) : lib.table[View(grid, lib, roster)[i]] = t

\* What comes back from the keyboard goes to whoever asked and to nobody
\* else, though the sheet, the picker and the cursor moved meanwhile and the
\* renamed title changes its place in the library: only the one asked about is
\* renamed, to the text accepted; the sheet still shows its title; and when
\* it closes the grid's cursor is on that title, if the tab has it
\* (screen_detail.c:106, screen_profiles.c:178, screen_grid.c:681).
NamesStay ==
    [][/\ \A p \in roster.used \cap roster'.used :
             roster'.name[p] # roster.name[p] =>
                kb.accepted /\ asked = <<"player", p>> /\ roster'.name[p] = Trimmed(kb.text)
       /\ \A t \in Titles :
             lib'.custom[t] # lib.custom[t] =>
                kb.accepted /\ asked = <<"title", t>> /\ lib'.custom[t] = kb.text
       /\ app'.screen = "DETAIL" => lib'.table[sheet'.rom] = sheet'.path
       /\ (app.screen = "DETAIL" /\ app'.screen = "GRID" /\ Shown(sheet.path)') =>
             TitleAt(grid', lib', roster') = sheet.path]_vars

\* Away from the settings, what was set is what holds: the file has it, the
\* song selected is the one chosen last, even one left in a hurry, it is the
\* one that sounds and only Shuffle's songs end; the volume is the one set
\* unless there was no memory for the music; and the theme on the screen is
\* the active player's (screen_settings.c:124, :188, screen_profiles.c:218).
WhatWasSetHolds ==
    app.screen \in Home \cup {"DETAIL", "KEYBOARD", "APPEARANCE", "CHEATS"} =>
        /\ saved = set
        /\ music.selected = Track(set.track)
        /\ music.tables => music.volume = Volume(set.music)
        /\ music.playing => /\ music.loops = (music.selected # Shuffle)
                            /\ music.loops => music.sounding = music.selected
        /\ app.theme = ThemeByName(roster.theme[roster.active])

\* The plate lifts however long the art takes, and a player who does nothing
\* but press B always comes back to the grid or the picker - save from the
\* keyboard with the caret before the text, and from a look that cannot be
\* kept (boot_plate.c:138, screen_keyboard.c:429, screen_appearance.c:234).
Caught ==
    \/ app.screen = "KEYBOARD" /\ kb.caret = 0 /\ kb.text # <<>>
    \/ app.screen = "APPEARANCE" /\ Refused(look.now, look.slot)
Lost == app.screen \in {"FAULT", "off"}
OnlyB == <>[][Press("B") \/ Frame \/ SongEnds]_vars /\ WF_vars(Press("B"))
WayOut ==
    /\ <>(plate.done \/ Lost)
    /\ OnlyB => []<>(app.screen \in Home \/ Caught \/ Lost)
=============================================================================
