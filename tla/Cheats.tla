------------------------------- MODULE Cheats -------------------------------
(***************************************************************************)
(* The cheats of the game on the sheet: the database's                     *)
(* (src/cheats/cheatdb.c), those the user typed (src/cheats/usercheats.c)  *)
(* and which of them are ticked (src/cheats/cheatstate.c), with the four   *)
(* screens that show and change them: the sheet (screen_detail.c), the     *)
(* list (screen_cheats.c), the editor (screen_cheatedit.c) and its         *)
(* keyboard (screen_keyboard.c), and the launch that hands them on         *)
(* (screen_launch.c).                                                      *)
(*                                                                         *)
(* One set of groups is in memory, the one the sheet loaded last; it       *)
(* outlives the sheet.  Ticks are kept by a game's key and a group's name  *)
(* as spelled, typed cheats by key and name whatever its case, and the     *)
(* sheet itself by the record's place in the library, which a rename       *)
(* sorts.                                                                  *)
(*                                                                         *)
(* A cheat's lines are one value, a code; the place of a title in the      *)
(* library is all that is kept of the library.  Memory never runs out and   *)
(* the card accepts every write; PlayerData has refused and torn ones.     *)
(***************************************************************************)
EXTENDS Naturals, FiniteSets, Sequences, SequencesExt, Functions

CONSTANTS
    Games,       \* the titles, each its own playstate_key()
    Header,      \* what a title's header says: its check code, stem, region and version
    Copies,      \* cheats.db on the card and in the cartridge
    MaxGames,    \* the most rows an index is believed to have
    AnyVersion,  \* CHEATDB_ANY_VERSION
    AnyRegion,   \* '?'
    Fold,        \* a name with its case forgotten
    Trim,        \* a name without the spaces at its end
    Empty,       \* the name with no characters
    NewName,     \* "NEW CHEAT"
    LongNames,   \* names the store cannot hold
    Typed,       \* the names that are typed on the keyboard
    Codes,       \* the codes that are entered in the editor
    Blank,       \* the code with a line of zeros
    Lines,       \* how many lines a code has
    MaxLines,    \* USERCHEAT_MAX_LINES
    PakCodes,    \* codes that write above the first 4 MB
    UserMax,     \* UC_MAX
    EmitLines,   \* how many lines CHEAT_EMIT_MAX_WORDS holds
    Paks,        \* whether the Expansion Pak may be in at a boot
    Setups,      \* dummy: does a launch come back to the grid, as under ares?
                 \* hasty: may B be pressed in the frame that opens the sheet?
    MaxBoots     \* bound: how often the console is switched on

Names == DOMAIN Fold
Listed == [name : Names, code : DOMAIN Lines]
Shown == [name : Names, code : DOMAIN Lines, on : BOOLEAN]
Kept == [game : Games, name : Names, code : DOMAIN Lines]

\* No console comes back from a launch and is quick enough for the first
\* frame of a sheet.
ASSUME CheatsAssumption ==
    /\ IsFiniteSet(Games)
    /\ Fold \in [Names -> Names] /\ Trim \in [Names -> Names]
    /\ {Empty, NewName} \cup Typed \subseteq Names
    /\ Codes \cup {Blank} \subseteq DOMAIN Lines
    /\ Paks \subseteq BOOLEAN /\ MaxBoots \in Nat
    /\ \A s \in Setups : ~ (s.dummy /\ s.hasty)

Boots == 0 .. MaxBoots
Orders == {o \in [1 .. Cardinality(Games) -> Games] : IsInjective(o)}
NoGame == 0
NoEditor == [name |-> Empty, code |-> Blank]
NothingRun == [game |-> NoGame, cheats |-> <<>>]

VARIABLES
    setup,      \* the member of Setups it is
    boots,      \* how often it was switched on
    screen,     \* app->screen, "off" without power
    pak,        \* is_memory_expanded()
    useDb,      \* settings.use_cheat_database
    order,      \* the library's records, sorted
    rom,        \* launch.rom_id
    set,        \* app->cheats, each group with its name, code and tick
    loadedFor,  \* cheats_for_rom, NoGame for none
    fromDb,     \* cheats_from_db
    pending,    \* cheats_pending
    rows,       \* cheatstate's rows and, as it is saved whenever it moves, its file
    table,      \* usercheats' table
    tableDirty, \* usercheats_dirty()
    file,       \* usercheats.dat
    editor,     \* the editor's name and nibbles
    naming,     \* pending_name_edit
    ran,        \* history: what was booted last, with which cheats
    asked,      \* history: the ticks the user last left on each list
    typed       \* history: the codes the user last gave, by game and name

sheet == <<order, rom, set, loadedFor, fromDb, pending>>
kept == <<rows, table, tableDirty, file>>
editing == <<editor, naming>>
ghosts == <<ran, asked, typed>>
vars == <<setup, boots, screen, pak, useDb, sheet, kept, editing, ghosts>>

SameName(a, b) == Fold[a] = Fold[b]

\* What a loop that skips leaves of s: its members at the places I, in order.
Picked(s, I) ==
    LET picked[k \in 0 .. Len(s)] ==
          IF k = 0 THEN <<>>
          ELSE IF k \in I THEN Append(picked[k - 1], s[k]) ELSE picked[k - 1]
    IN  picked[Len(s)]

----------------------------------------------------------------------------
(* The database.                                                           *)

\* cheatdb_open(): the card's copy before the cartridge's, whatever it holds.
\* One of another kind or version, that claims no games or too many, or that
\* ends within its index, is no database.
Opened(copies) ==
    LET copy == IF copies.card.there THEN copies.card ELSE copies.cartridge
    IN  IF copy.there /\ copy.known /\ copy.count \in 1 .. MaxGames /\ copy.count <= Len(copy.rows)
        THEN SubSeq(copy.rows, 1, copy.count) ELSE <<>>
Database == Opened(Copies)

\* What a database is taken to be.  tools/mkcheatdb.py writes one row per key
\* (:328) and a cheat once per row, though it tells names in two cases apart
\* (:340); that no game has both a row for any region and one version and a
\* row for one region and any version is the data's (find_row() takes the
\* former, which its comment denies).
ASSUME DatabaseAssumption ==
    /\ Database \in Seq(Range(Database))
    /\ \A i \in DOMAIN Database :
          LET groups == Database[i].groups
          IN  /\ groups \in Seq(Listed)
              /\ \A j, k \in DOMAIN groups : j # k => ~SameName(groups[j].name, groups[k].name)
    /\ \A i, j \in DOMAIN Database : i # j =>
          LET r == Database[i]
              s == Database[j]
          IN  /\ r.check = s.check => r.check = 0
              /\ r.stem = s.stem => /\ r.region = s.region => r.version # s.version
                                    /\ r.region = AnyRegion /\ s.region # AnyRegion =>
                                           r.version = AnyVersion \/ s.version # AnyVersion

RowMatches(r, h) ==
    /\ r.stem = h.stem
    /\ r.region \in {h.region, AnyRegion}
    /\ r.version \in {h.version, AnyVersion}

\* Mutant: the first row that matches, as find_row() once did.
RowRankFlat(r, h) == 1

RowRank(r, h) ==
    LET wild == r.region = AnyRegion
    IN  IF r.version = h.version
        THEN IF wild THEN 3 ELSE 4
        ELSE IF wild THEN 1 ELSE 2

\* The places of the rows that find_row() may return: by check code, or the
\* first of the best rank.
FindRow(h) ==
    LET named == {i \in DOMAIN Database : h.check # 0 /\ Database[i].check = h.check}
        fit   == {i \in DOMAIN Database : RowMatches(Database[i], h)}
        best  == {i \in fit : \A j \in fit : RowRank(Database[i], h) >= RowRank(Database[j], h)}
    IN  IF named # {} THEN named
        ELSE {i \in best : \A j \in best : i <= j}

NeedsPak(code) == code \in PakCodes

\* Without the Expansion Pak the groups that need it are not shown.
DatabaseGroups(g) ==
    LET usable(r) == {i \in DOMAIN r.groups : pak \/ ~NeedsPak(r.groups[i].code)}
        unticked(x) == [name |-> x.name, code |-> x.code, on |-> FALSE]
        shown(r) == Picked([i \in DOMAIN r.groups |-> unticked(r.groups[i])], usable(r))
    IN  {shown(Database[i]) : i \in FindRow(Header[g])}

----------------------------------------------------------------------------
(* The user's own, and the ticks.                                          *)

Group(s, n) == {i \in DOMAIN s : SameName(s[i].name, n)}

\* A group of the same name, whatever its case, gets the lines and keeps its
\* spelling and its tick; otherwise a group is appended, not ticked.
WithTyped(s, n, c) ==
    IF Group(s, n) = {}
    THEN Append(s, [name |-> n, code |-> c, on |-> FALSE])
    ELSE LET i == CHOOSE k \in Group(s, n) : \A j \in Group(s, n) : k <= j
         IN  [s EXCEPT ![i].code = c]

\* usercheats_apply(): the table's records of the game, one after the other.
TypedApplied(s, g) ==
    LET applied[k \in 0 .. Len(table)] ==
          IF k = 0 THEN s
          ELSE IF table[k].game = g THEN WithTyped(applied[k - 1], table[k].name, table[k].code)
          ELSE applied[k - 1]
    IN  applied[Len(table)]

TicksApplied(s, g, ticks) ==
    [i \in DOMAIN s |-> [s[i] EXCEPT !.on = @ \/ <<g, s[i].name>> \in ticks]]

Ticked(s) == {s[i].name : i \in {j \in DOMAIN s : s[j].on}}

\* The game's ticks are what the list shows, the rest stays.
Captured(g) == {t \in rows : t[1] # g} \cup {<<g, n>> : n \in Ticked(set)}

\* cheatstate_capture(), and cheatstate_save() when something moved.
CaptureAndSave(g) == rows' = Captured(g)

\* The groups are handed on whole, in their order, up to the first that does
\* not fit.
Emitted ==
    LET ticked == Picked(set, {i \in DOMAIN set : set[i].on})
        lines[k \in 0 .. Len(ticked)] == IF k = 0 THEN 0 ELSE lines[k - 1] + Lines[ticked[k].code]
        room == {k \in 1 .. Len(ticked) : lines[k] <= EmitLines}
    IN  IF pak THEN SubSeq(ticked, 1, Cardinality(room)) ELSE <<>>

----------------------------------------------------------------------------
(* The console.                                                            *)

Init ==
    /\ setup \in Setups /\ boots = 0 /\ screen = "off" /\ pak \in Paks /\ useDb = TRUE
    /\ order \in Orders
    /\ rom = NoGame /\ set = <<>> /\ loadedFor = NoGame
    /\ fromDb = FALSE /\ pending = FALSE
    /\ rows = {} /\ table = <<>> /\ tableDirty = FALSE /\ file = <<>>
    /\ editor = NoEditor /\ naming = FALSE
    /\ ran = NothingRun /\ asked = {} /\ typed = {}

TypedOf(t) == {[game |-> t[i].game, name |-> Fold[t[i].name], code |-> t[i].code] : i \in DOMAIN t}

\* app_init(): the files are read, the statics are as the program has them.
Boot ==
    /\ screen = "off" /\ boots < MaxBoots
    /\ boots' = boots + 1 /\ screen' = "grid" /\ pak' \in Paks
    /\ rom' = NoGame /\ set' = <<>> /\ loadedFor' = NoGame
    /\ fromDb' = FALSE /\ pending' = FALSE
    /\ table' = file /\ tableDirty' = FALSE
    /\ editor' = NoEditor /\ naming' = FALSE
    /\ ran' = NothingRun /\ asked' = rows /\ typed' = TypedOf(file)
    /\ UNCHANGED <<setup, useDb, order, rows, file>>

PowerOff ==
    /\ screen # "off"
    /\ screen' = "off" /\ ran' = NothingRun
    /\ UNCHANGED <<setup, boots, pak, useDb, sheet, kept, editing, asked, typed>>

\* Settings, reached from the grid.
ToggleDatabase ==
    /\ screen = "grid"
    /\ useDb' = ~useDb
    /\ UNCHANGED <<setup, boots, screen, pak, sheet, kept, editing, ghosts>>

----------------------------------------------------------------------------
(* The sheet.                                                              *)

\* Mutant: a set that is not empty is taken for this game's.
OwedWhenEmpty(r, loaded) == set = <<>> \/ fromDb # useDb

Owed(r, loaded) == loaded # r \/ fromDb # useDb

OpenSheet(r) ==
    /\ screen = "grid"
    /\ screen' = "sheet" /\ rom' = r /\ pending' = Owed(r, loadedFor)
    /\ ran' = NothingRun
    /\ UNCHANGED <<setup, boots, pak, useDb, order, set, loadedFor, fromDb, kept, editing,
                   asked, typed>>

\* load_cheats_now()
Loaded(g, ticks) ==
    LET base == IF useDb /\ DatabaseGroups(g) # {}
                THEN CHOOSE s \in DatabaseGroups(g) : TRUE ELSE <<>>
    IN  TicksApplied(TypedApplied(base, g), g, ticks)

LoadCheats(ticks) ==
    /\ set' = Loaded(order[rom], ticks)
    /\ loadedFor' = rom /\ fromDb' = useDb /\ pending' = FALSE

\* The sheet's background, in its first frame and after its buttons.
Background ==
    /\ screen = "sheet" /\ pending
    /\ LoadCheats(rows)
    /\ UNCHANGED <<setup, boots, screen, pak, useDb, order, rom, kept, editing, ghosts>>

OpenList ==
    /\ screen = "sheet" /\ ~pending
    /\ screen' = "list" /\ editor' = NoEditor
    /\ UNCHANGED <<setup, boots, pak, useDb, sheet, kept, naming, ghosts>>

CloseSheet ==
    /\ screen = "sheet" /\ ~pending
    /\ screen' = "grid"
    /\ CaptureAndSave(order[rom])
    /\ set' = <<>> /\ loadedFor' = NoGame
    /\ UNCHANGED <<setup, boots, pak, useDb, order, rom, fromDb, pending, table, tableDirty, file,
                   editing, ghosts>>

\* B in the frame that opens the sheet: what is captured is what was in memory
\* before, and the load follows.
CloseSheetAtOnce ==
    /\ setup.hasty /\ screen = "sheet" /\ pending
    /\ screen' = "grid"
    /\ CaptureAndSave(order[rom])
    /\ LoadCheats(rows')
    /\ UNCHANGED <<setup, boots, pak, useDb, order, rom, table, tableDirty, file, editing, ghosts>>

\* apply_pending_rename() and the rest of detail_enter(): the library is sorted
\* by the new title, the sheet follows its game.  A name refused by the keyboard
\* or the card leaves the order.
Place(g, o) == CHOOSE i \in DOMAIN o : o[i] = g

Rename ==
    /\ screen = "sheet" /\ ~pending
    /\ \E o \in Orders :
        /\ Picked(o, {i \in DOMAIN o : o[i] # order[rom]}) = Picked(order, DOMAIN order \ {rom})
        /\ order' = o
        /\ rom' = Place(order[rom], o)
        /\ loadedFor' = rom'
        /\ pending' = Owed(rom', rom')
    /\ UNCHANGED <<setup, boots, screen, pak, useDb, set, fromDb, kept, editing, ghosts>>

\* usercheats_save()
SaveTyped ==
    IF tableDirty THEN file' = table /\ tableDirty' = FALSE ELSE UNCHANGED <<file, tableDirty>>

\* do_load() once the game is in the cartridge: the ticks are captured and
\* saved; on the way out app_deinit() saves what was typed.  A dummy cartridge
\* comes back to the grid with the set still in memory.
Launch ==
    /\ screen = "sheet" /\ ~pending
    /\ CaptureAndSave(order[rom])
    /\ ran' = [game |-> order[rom], cheats |-> Emitted]
    /\ IF setup.dummy
       THEN /\ screen' = "grid"
            /\ UNCHANGED <<file, tableDirty>>
       ELSE screen' = "off" /\ SaveTyped
    /\ UNCHANGED <<setup, boots, pak, useDb, sheet, table, editing, asked, typed>>

----------------------------------------------------------------------------
(* The list and the editor.                                                *)

CloseList ==
    /\ screen = "list"
    /\ screen' = "sheet" /\ pending' = Owed(rom, loadedFor)
    /\ UNCHANGED <<setup, boots, pak, useDb, order, rom, set, loadedFor, fromDb, kept, editing, ghosts>>

Toggle(i) ==
    /\ screen = "list"
    /\ set' = [set EXCEPT ![i].on = ~@]
    /\ asked' = IF set[i].on THEN asked \ {<<order[rom], set[i].name>>}
                             ELSE asked \cup {<<order[rom], set[i].name>>}
    /\ UNCHANGED <<setup, boots, screen, pak, useDb, order, rom, loadedFor, fromDb, pending,
                   kept, editing, ran, typed>>

\* screen_cheatedit_can_edit()
CanEdit(x) == Lines[x.code] <= MaxLines /\ x.name \notin LongNames

\* screen_cheatedit_open() and cheatedit_enter(): unless it is the keyboard
\* that comes back, the editor shows the group, or a new cheat of one line.
\* (What a cancelled or saved edit leaves behind is overwritten here, and
\* forgotten in the model as it leaves.)
Edit(e) ==
    /\ screen = "list"
    /\ screen' = "editor"
    /\ editor' = IF naming THEN editor ELSE e
    /\ naming' = FALSE
    /\ UNCHANGED <<setup, boots, pak, useDb, sheet, kept, ghosts>>

EditGroup(i) == CanEdit(set[i]) /\ Edit([name |-> set[i].name, code |-> set[i].code])
AddCheat == Edit([name |-> NewName, code |-> Blank])

\* Nibbles wound, lines added and removed.
EnterCode(c) ==
    /\ screen = "editor"
    /\ editor' = [editor EXCEPT !.code = c]
    /\ UNCHANGED <<setup, boots, screen, pak, useDb, sheet, kept, naming, ghosts>>

AskName ==
    /\ screen = "editor"
    /\ screen' = "keyboard" /\ naming' = TRUE
    /\ UNCHANGED <<setup, boots, pak, useDb, sheet, kept, editor, ghosts>>

\* The keyboard writes to the editor's name and comes back through its
\* enter(); it refuses no letters at all, and then B leaves it.
EnterName(n) ==
    /\ screen = "keyboard"
    /\ screen' = "editor" /\ naming' = FALSE
    /\ editor' = IF n = Empty THEN editor ELSE [editor EXCEPT !.name = n]
    /\ UNCHANGED <<setup, boots, pak, useDb, sheet, kept, ghosts>>

CancelEdit ==
    /\ screen = "editor"
    /\ screen' = "list" /\ editor' = NoEditor
    /\ UNCHANGED <<setup, boots, pak, useDb, sheet, kept, naming, ghosts>>

Slot(g, n) == {i \in DOMAIN table : table[i].game = g /\ SameName(table[i].name, n)}

\* usercheats_add(): the record of that name is replaced; the list on the
\* screen follows.
Put(g, n, c) ==
    LET r == [game |-> g, name |-> n, code |-> c]
    IN  table' = IF Slot(g, n) = {} THEN Append(table, r)
                 ELSE [table EXCEPT ![CHOOSE i \in Slot(g, n) : \A j \in Slot(g, n) : i <= j] = r]

\* Mutant: replacing a record is not taken for a change.
DirtiedByNew(g, n) == tableDirty \/ Slot(g, n) = {}
Dirtied(g, n) == TRUE

\* save(): refused while a line is blank, without a name and without room.
SaveCheat ==
    LET n == Trim[editor.name]
        g == order[rom]
    IN  /\ screen = "editor"
        /\ editor.code # Blank /\ n # Empty
        /\ Slot(g, n) # {} \/ Len(table) < UserMax
        /\ Put(g, n, editor.code)
        /\ set' = WithTyped(set, n, editor.code)
        /\ tableDirty' = Dirtied(g, n)
        /\ screen' = "list" /\ editor' = NoEditor
        /\ typed' = {t \in typed : ~(t.game = g /\ t.name = Fold[n])}
                        \cup {[game |-> g, name |-> Fold[n], code |-> editor.code]}
        /\ UNCHANGED <<setup, boots, pak, useDb, order, rom, loadedFor, fromDb, pending,
                       rows, file, naming, ran, asked>>

----------------------------------------------------------------------------
Next ==
    \/ Boot
    \/ PowerOff
    \/ ToggleDatabase
    \/ \E r \in DOMAIN order : OpenSheet(r)
    \/ Background
    \/ OpenList
    \/ CloseSheet
    \/ CloseSheetAtOnce
    \/ Rename
    \/ Launch
    \/ CloseList
    \/ \E i \in DOMAIN set : Toggle(i) \/ EditGroup(i)
    \/ AddCheat
    \/ \E c \in Codes : EnterCode(c)
    \/ AskName
    \/ \E n \in Typed : EnterName(n)
    \/ CancelEdit
    \/ SaveCheat

Spec == Init /\ [][Next]_vars

----------------------------------------------------------------------------
(* What the user relies on.                                                *)

TypeOK ==
    /\ setup \in Setups /\ boots \in Boots /\ pak \in Paks /\ useDb \in BOOLEAN
    /\ screen \in {"off", "grid", "sheet", "list", "editor", "keyboard"}
    /\ order \in Orders /\ {rom, loadedFor} \subseteq {NoGame} \cup DOMAIN order
    /\ Range(set) \subseteq Shown /\ fromDb \in BOOLEAN /\ pending \in BOOLEAN
    /\ rows \subseteq Games \X Names
    /\ Range(table) \cup Range(file) \subseteq Kept /\ tableDirty \in BOOLEAN
    /\ editor \in [name : Names, code : DOMAIN Lines] /\ naming \in BOOLEAN
    /\ asked \subseteq Games \X Names /\ typed \subseteq Kept

\* A game is booted with cheats that were ticked for that game, under that
\* name, and with the lines that the user last gave them.  (What
\* cheatstate.c keeps by name, usercheats.c by name whatever its case and
\* screen_detail.c by place must mean the same cheat.)
EmittedIsAsked ==
    \A i \in DOMAIN ran.cheats :
        LET c == ran.cheats[i]
        IN  /\ <<ran.game, c.name>> \in asked
            /\ \A t \in typed : (t.game = ran.game /\ t.name = Fold[c.name]) => c.code = t.code

\* No cheat is on the list twice, whatever the case it was typed in, so no copy
\* of it stays ticked behind the one that was edited.
OneCheatPerName ==
    /\ \A i, j \in DOMAIN set : i # j => Fold[set[i].name] # Fold[set[j].name]
    /\ \A i, j \in DOMAIN table :
          i # j => ~(table[i].game = table[j].game /\ Fold[table[i].name] = Fold[table[j].name])

\* r is for exactly this region rather than s, or for as narrow a region and
\* exactly this version.
Narrower(r, s) ==
    \/ r.region # AnyRegion /\ s.region = AnyRegion
    \/ (r.region = AnyRegion) = (s.region = AnyRegion) /\ r.version # AnyVersion /\ s.version = AnyVersion

Narrowest(h) ==
    LET own == {i \in DOMAIN Database : h.check # 0 /\ Database[i].check = h.check}
        fit == {i \in DOMAIN Database : RowMatches(Database[i], h)}
    IN  IF own # {} THEN own ELSE {i \in fit : \A j \in fit : ~Narrower(Database[j], Database[i])}

\* The list shows what there is for this very cartridge: the database's
\* narrowest row, if it is on, as far as this console can use it, and all
\* that the user typed for the game, each once and nothing else.  (find_row()
\* and the sheet's idea of which game's set is in memory.)
ListIsThisCartridges ==
  /\ TypeOK /\ OneCheatPerName
  /\ screen = "list" =>
        LET g     == order[rom]
            given == IF ~useDb THEN {}
                     ELSE UNION {Range(Database[i].groups) : i \in Narrowest(Header[g])}
            names == {Fold[x.name] : x \in {y \in given : pak \/ y.code \notin PakCodes}}
                        \cup {t.name : t \in {u \in typed : u.game = g}}
        IN  /\ {Fold[set[i].name] : i \in DOMAIN set} = names
            /\ \A i \in DOMAIN set :
                  LET own == {t \in typed : t.game = g /\ t.name = Fold[set[i].name]}
                  IN  IF own # {} THEN \A t \in own : set[i].code = t.code
                      ELSE \E x \in given : x.name = set[i].name /\ x.code = set[i].code

\* After a boot of a game the card holds every cheat that was typed.
NothingTypedIsLost == (screen = "off" /\ ran # NothingRun) => TypedOf(file) = typed

=============================================================================
