# Verification of MainMenu

MainMenu is a menu for the Nintendo 64 that runs from a flash cartridge. It scans an SD card, shows
its games as a grid of box art, remembers who plays what, patches cheats into a game and starts it.
It is one program on one CPU without an operating system: nothing runs in parallel, but work is
spread over frames, decodes call back later, files are written one after another, the cartridge goes
on by itself after the menu is gone, and the power goes whenever somebody reaches for the switch.
That is how most sessions end. This directory models the program, checks the models with TLC, and
proves the most important properties of eight of them with TLAPS.

Paths below are relative to the repository's `src/`; modules are in this directory.

## 1. The system

| Component | State | Operations | Modules |
|---|---|---|---|
| Application shell, `app.c` | current and next screen | init in a fixed order, frame loop, transitions, deinit | `Screens`, `ThumbCache`, `Launch`, `PlayerData` |
| Library scan, `library/library.c` | the record table, sorted by title | scan, resolve art, rename, sort | `LibIndex` |
| Library index, `library/libindex.c` | `library.idx`: records and directory signatures | load, save, repair directory by directory | `LibIndex` |
| Cache files, `library/cache.c` | one file per name: magic, version, CRC | load (removes what it rejects), store (truncates), drop, probe | `ThumbStore` |
| Art atlas, `library/thumbstore.c` | `thumbs.pak` (slots), `thumbs.idx` (rows), both mirrored in memory | open, has, fetch, put, flush, close | `ThumbStore`, `TileAtlas` |
| Tile pool and build, `library/thumbcache.c` | slots of decoded tiles, one decode in flight, a walk of the library | begin_frame, get, fetch, run, build, shuffle, rebind, reshape | `ThumbCache` |
| Image decoder and probe, `menu/image_decoder.c`, `image_probe.c` | one decode | start, poll, abort; crop and scale; size of a JPEG | `Scaler`, `ThumbCache` |
| Box shapes and memory, `library/boxart.c`, `memprofile.c` | the shape per system, the size of the pool | sections of `boxart.ini`, snap, reserve | `BoxShape` |
| Grid, `screens/screen_grid.c` | tab, cursor, scroll, view | moves, views, what is asked for, favourite | `GridView`, `Screens` |
| Other screens, `screens/*.c` | statics they leave for one another | every button, enter and exit | `Screens`, `TextEntry`, `Pickers`, `BootPlate` |
| Players, `menu/profile.c` | roster of ten slots in `profiles.ini`, the active one | load, add, activate, remove, erase saves | `PlayerData` |
| Play state, `library/playstate.c` | favourites and history of the active player, a dirty flag, the newest stamp | load, save, played | `PlayerData` |
| Padlocks, `library/locks.c` | which games are locked, for everybody; a dirty flag | load (migrates from play state), save | `PlayerData`, `Parental` |
| Parental controls, `menu/parental.c`, `screens/screen_code.c` | code, failures, waiting time, hours | load, attempt, success, tick, check | `Parental` |
| Cheats, `cheats/*.c` | the set of the game on the sheet, ticks, typed cheats | query, merge, toggle, edit, emit | `Cheats` |
| Launch, `screens/screen_launch.c`, `menu/cart_load.c` | the game being started, the cartridge's image and save | load, record, patch, hand off | `Launch` |
| Flash cartridge, `flashcart/` | ROM, save type, write-back | as above, and where each part lies | `Launch`, `CartLayout` |
| ROM patches and cheat engines, `menu/rompatch*.c`, `boot/` | the image in SDRAM, the exception vector | find, assemble, place, install, run | `RomPatch`, `Vr4300`, `CheatEngine`, `CartLayout` |
| ROM database, `menu/rom_info.c` | table of games, options beside a game | search, header, overrides, description | `RomInfo`, `Options` |
| Text files, paths, settings | `.ini` files | parse, write, limits | `IniFile`, `Paths`, `Settings` |
| Input, icons, music, sound, clock, card report | small machines of their own | | `Repeat`, `Icons`, `Music`, `Sound`, `Clock`, `CardStat` |
| Vendored libraries, drawing, development tools, 64DD, controller pak | | | none, see section 7 |

How they interact. A frame draws the screen and its background half does one piece of work: with an
atlas the grid fetches tiles (`thumbcache_fetch`) and continues the build (`thumbcache_build`);
without one it decodes on demand (`thumbcache_run`). The decoder reports through a callback that was
handed a pointer to a record. A rename sorts the record table in place, so every index and pointer
anyone holds goes stale at once: in the pool, in the decoder, on the detail sheet, in the grid's
view and in the set of cheats. Screens call each other by setting a next screen and leave their
questions in static variables. Players, padlocks and history share one flag word per record and are
saved to different files at different moments: some at once, some at launch, some in `app_deinit()`,
which runs only when a game really starts. The cartridge carries a game's saves to the card while
the game runs and after a reset.

What is hard here: the power going between two writes of one operation; two users of one decoder;
callbacks after a sort or a change of settings; background work that must stop; tiles that must
come; data of one player under another's name; flags that say "saved" when it is not; an index that
is believed about a card that was changed elsewhere; machine code written into somebody else's
program. `PROJECT.json` lists each at its line under `hazards`.

## 2. What makes each part correct

* **Atlas**: a lookup returns the cover's own tile or nothing, whatever was interrupted before;
  slots that are named are never rewritten.
* **Pool and build**: what is drawn for a title is its own tile at its present shape; records, slots
  and decoder agree about who is where; a title is given up only when its cover is unusable; what is
  on screen is eventually drawn; the background falls silent; complete means built.
* **Library**: however it was put together, from the index, a repair or a scan, it is what a scan of
  the whole card would give, covers included, and the next boot finds an index that holds.
* **Player data**: a clear dirty flag means the file says what memory says; nobody inherits
  another's history, cheats or saves; the padlocks do not move when players do; Recent is in order.
* **Parental controls**: the wait is never shorter than the wrong answers earned, and ends; a
  guarded screen is come to with the code; the code stored is what was keyed in twice; a boot brings
  back what the menu is enforcing; the promised opening time is the first one.
* **Launch**: a game runs with its own player's save and saves to it; no save is lost on the way
  back; a play is counted once; what is handed over can boot.
* **Cheats**: a game gets what was ticked for it, under the name and with the lines the user last
  saw; the engine does in memory what the list means and nothing else, and always ends.
* **Screens**: nothing of anyone's before a player is chosen; a typed name reaches whoever asked;
  what was set holds; B always leads home.
* **Files and tables**: what is written is what is read; every row of a table can be found; every
  piece has its place.

## 3. Modules

Each state machine is one module; pure parts are modules of operators that the machines use or that
are checked by themselves. `MC*` modules hold instances.

| Module | Models |
|---|---|
| `TileAtlas` | abstract: a set of tiles that only grows by `Store` and may lose any of them |
| `ThumbStore` | `thumbstore.c` on `cache.c`, one action per file operation; implements `TileAtlas` |
| `ThumbCache` | `thumbcache.c`, the decoder as it uses it, the grid's frame, rename, change of shape; uses `TileAtlas` |
| `LibIndex` | `library.c` and `libindex.c` over a card that is edited elsewhere |
| `PlayerData` | `profile.c`, `playstate.c`, `locks.c`, `cheatstate.c`, the saves, and the screens that call them |
| `Parental` | `parental.c`, the code pad, the panel, and the screens that ask for the code |
| `Launch` | `screen_launch.c`, `cart_load.c` and the cartridge, before, during and after a game |
| `Vr4300`, `RomPatch`, `CheatEngine` | the processor as far as the engines use it; `rompatch_find.c` and `rompatch.c`; a launch with cheats and the exceptions after it |
| `Cheats` | `cheatdb.c`, `usercheats.c`, `cheatstate.c` and the four screens that change them |
| `Screens` with `GridView`, `Music`, `BootPlate` | the main loop, the grid, the sheet, the picker, the keyboard, appearance, settings; the tabs and the cursor; the song; the plate |
| `TextEntry`, `Icons`, `Pickers`, `Repeat` | the keyboard's geometry, the faces' caches, panes and lists, the pad |
| `IniFile`, `Paths`, `Options`, `Settings` | text files, paths, options and the settings |
| `BoxShape`, `RomInfo` | box shapes and the memory they take, the table of games, what is known of a cartridge |
| `Scaler`, `CartLayout`, `Clock`, `CardStat`, `Sound` | scaling and probing covers, addresses on the cartridge, boot chips, the clock page, the report on the card, effects and the mixer |
| `ThumbStore_proofs`, `ThumbCache_proofs`, `LibIndex_proofs`, `PlayerData_proofs`, `Parental_proofs`, `Launch_proofs`, `Cheats_proofs`, `Screens_proofs` | the theorems |

What holds of the pure modules is stated as `ASSUME`s over bounded inputs in the `MC` module of a
related run, since TLC evaluates the `ASSUME`s of what it checks and refuses to start when one is
false: the screens' parts, the grid, the music and names in `MCScreens`; text files, paths,
settings, box shapes and the table of games in `MCPlayerData`; covers' scaling, the cartridge's
layout, boot chips, clock, card report and effects in `MCLaunch`; the database's file in `MCCheats`.

### ThumbStore and TileAtlas

`pak`, `count`, `data` are `thumbs.pak`: whether its header can be read, the `slot_count` in it, the
tile in each slot. `idx`, `irows` are `thumbs.idx`. `handle`, `slotCount`, `rows`, `dirty` are the
statics of `thumbstore.c`; `pc` is the next file operation of the call in progress. `OpenPak`,
`RejectPak`, `DropIndexToo`, `NoPak`, `CreatePak`, `PakCreated`, `CreateFailed`, `LoadIndex` are
`thumbstore_open()`; `PutTile`, `PutHeader`, `PutSync` and the flush that follows are
`thumbstore_put()`; `TruncateIndex`, `EndFlush`, `FlushFailed` are `thumbstore_flush()` with
`cache_store()`; `Flush` and `CloseClean` start a flush and the close. `PowerCut` is enabled
wherever the power is on. It may garble the slot that was not yet synced. `Faults` names the
operations that may fail. Three of them, `open`, `header` and `torn`, leave the header behind the
index or unreadable; the others leave the files intact. A cover is a model value that stands for a
path and a size; `cache_hash64` is assumed not to collide, as the code does. An empty index is
dropped, not written (`EndFlush` without rows); the run does not come to it, the proofs cover it.

`TileAtlas` has `found`, what lookups can return. `Store` files the tile of a cover that has none;
`Lose` drops any of them: a card may forget tiles, it may not answer with the wrong one.
`ThumbStore` implements it with `Found`, computed from the index in memory while one is loaded and
from the one on the card otherwise. `ThumbCache` uses `Store`, `Known` and `Fits` for the atlas, so
what it relies on is what `ThumbStore` was shown to provide.

### ThumbCache

`order` is the record table, `art` and `located` the two fields of a record that matter, `slots`,
`age`, `decodingSlot` the pool, `buildActive`, `buildNext`, `buildComplete` the build, `job` the
decoder, with the *index* its callback will write to (`rec`) beside the game it is decoding (`src`).
`age` ranks `last_wanted` so that the frame counter needs no bound; `wanted` maps each title a frame
asked for to its turn, the cursor's first, then the rows on screen, then the margin. `Frame` is a
frame of the grid; `Fetch`, `BuildStart`, `BuildFinished`, `BuildDone`, `RunStart`, `RunNoSlot`,
`RunDry`, `DecodeDone` are the branches of the background half; `Shuffle` is prepare, sort and
rebind; `Reshape` a change of the box-art setting. Walks over the library within one call are one
step with the record they stop at chosen by minimum. Time budgets only split such a walk between
frames and are left out. Covers are of five kinds: none, broken (the decoder refuses it), corrupt
(it fails part way), cheap and costly. Memory for one decode is assumed to be there.

### LibIndex

The card is `dirs`, `files`, `saves` and `pack`; a directory's entries are ROM builds, covers (named
by game code or by file) and the sidecars with typed names. `PutFile`, `DropFile`, `MakeDir`,
`DropDir` and `InstallPack` edit it with the power off; with the power on the menu writes sidecars
and saves folders itself. `index` is none, torn, or whole: records with a signature per directory,
which is a count and a sum of sizes. A boot is `LoadNothing`, `LoadAsIs`, `Repair`,
`RepairAbandoned` or `GiveUp`, by what the index and the walk of the card say; the last two and the
first lead to `FullScanDone`. `SaveStarts`, `SaveEnds`, `SaveFails`, `SaveRefused` are the save at
boot and again on the way into a game. One allocation of a boot may fail, in the repair or in the
scan. The library is a bag of records, so one that was pushed twice shows; titles and their
collisions, and loose art, are worked out over all of it, as `library_finish()` and
`library_resolve_loose_art()` do. `settled` is a history variable: the index was written and nothing
it is about has changed since. `NoCoverOverlooked` leaves out a cover that went and came back
(deviation 3).

### PlayerData

A handler changes memory in one step and puts its writes in `todo`; `WriteFile` does them one by one
and `PowerOff` may come between any two or, with `Torn`, in the middle of one. Nothing reads memory
between two writes of a handler, so this has the same files at every moment as the code. `disk` maps
each place (roster, padlocks, and history, cheats and saves per player) to what is in it; an empty
set stands for no file, and for one `cache_load()` would discard. Handlers: `Favourite`,
`ToggleLock`, `LeaveSheet`, `Launch`, `Choose`, `AddProfile`, `Delete`, and `Boot` for `app_init()`.
The roster is written through `ini_parser.c`, whose eight sections are `IniSections`: `SaveRoster`
keeps the slots that fit. Timestamps are numbers up to `MaxStamp` with the code's wrap. `touched` is
a history variable: the games each slot's player did something to.

### Parental

`mem` is `state`, `file` is `parental.ini`, `wait` is `wait_left` in units of five seconds, one for
every failure, so that `PenaltyMax` stands for the 120 that make ten minutes. `parental_save()` is
`Save` and, when the file is closed, `WriteOut`; `Restart` in between finds the old file or an empty
one. An empty file reads as no code: a cut during the save inside `guess()` can turn the whole lock
off, which the properties about waiting and agreement allow for. A guess is `Guess` (counted,
saved), `Accept` or `Refuse` (compared), `Deed` (what the pad was armed for), with a reset possible
between any two. `ask` is what `screen_code_ask()` armed, with the way on and the way back. `entry`
is the part of `digits` that counts; the rest of the array is never read. A code is kept as itself:
the hash in the file is taken to tell the 4,096 codes apart. `Browse` stands for the grid and the
way to Settings and the detail sheet. The padlocks in `locked` are reloaded at a boot as
`PlayerData` leaves them. `wrongs` (wrong answers since the last right one), `served` (what was sat
through since the pad was armed), `proved` and `typed` are history variables.

### Launch

The cartridge outlives the menu: `image`, `config`, `save`, `target` and `pending` are its ROM, its
save type and write protection, its save memory, the file it writes back to and whether it still has
to. `phase` is the menu's step. `LoadRom`, `CoreMissing`, `LoadEmulated`, `MakeDirectory`,
`SetType`, `CreateSave`, `CardFull`, `FillSave`, `LoadSave`, `EnableWriteback` are `cart_load.c`
over `sc64.c`, with `LoadFails` beside each; `Record` is what `do_load()` counts and saves;
`WriteEngine`, `WriteHook`, `WriteHeader` are `rompatch_install()`; `HandOff` leaves for the boot.
`GameSaves` and `Writeback` go on in the game and after `Reset`; `InitCart` waits for the
write-back, as `sc64_init()` does. The history of plays is written in one step here; what a cut in
the middle of that write leaves is in `PlayerData` (`Torn`). A save file is what was saved last and
by whom, or `Junk` when it was allocated and never filled.

### Vr4300, RomPatch, CheatEngine

`RomPatch` is functional: what of a list can be carried (`CheatsFit`), the search for the preamble
(`Find`, which gives up at data that looks like a preamble and leads between two words, unless the
best there can be was found before), the padding (`PaddingRuns`, `Reserve`), the engine's words
(`EmitEngine`), their cutting up and placing (`PlaceEngine`). A word is a record, an immediate has
its half-word's range and the lower half of an address is sign-extended, at a smaller scale: `Byte`
is the number of values of a byte. `Vr4300` is the processor, one instruction at a time with its
delay slots; an access that is out of place faults, which in an exception is the end. `CheatEngine`
puts them together: `FindSite`, `Emit`, `Place`, `Write` are the launch, `Boot` is IPL3 with its
checksum, `InstallHandlers` the game's copy of its preamble, `Raise` an exception, `Execute` an
instruction, `Handle` the game's own handler. The classic engine of `boot/cheats.c` is beside it as
it is built.

### Cheats

A cheat is a name as spelled and a code. `set` is the list in memory and `loadedFor` the place of
the game it was loaded for; `rows` the ticks of `cheatstate.c`; `table` and `file` those the user
typed, in memory and on the card; `editor` and `naming` the editor and its question to the keyboard.
`Database` is the copy on the card, or the cartridge's where the card has none. A sheet loads the
row that `find_row()` ranks highest and merges what was typed over it; leaving a sheet captures the
ticks; a launch emits what is ticked. The code's loops that skip (`Picked`) and that merge
(`TypedApplied`) are recursive functions, so that proofs can follow them. `order` is the library's
order, which a rename changes under all of them. `asked` and `typed` are history variables: what the
user left ticked, and what was typed. `NewName` stands for the code's NEW CHEAT; the instance gives
it a name the database has, so that a new cheat collides.

### Screens, GridView, Music, BootPlate

One step is one turn of the main loop with one screen's `enter()` or `update()` in it. Within a turn
the order is transition, enter, input, update, render, background; a press is at most one key a
frame (C-up is also the direction up). `tour` limits a session to the screens and rows it visits, so
that each pair of screens that leave something for one another is explored without all at once.
`app` is the loop, `grid`, `sheet`, `prof`, `kb`, `look`, `list` each screen's statics, `roster`,
`lib`, `set`, `saved` what they change. The code pad, the parental panel, the cheats' screens, the
clock, the facts and the credits are here only as places that come back; they are modelled in
modules of their own. When the cover of what is on screen is drawn, and when a song cannot be read,
is left open. `settings_save()` always succeeds here; a card that refuses writes is outside this
module, so `WhatWasSetHolds` says nothing of it. `lib` is the table: its order (`table`), the titles
as read and as typed, and the flags; `library_sort()` and the views put what they hold in order by a
comparison (`InOrder`), and that the insertion sort the code writes out for Recent gives the same is
checked beside it (`RecentIsNewestFirst`). `GridView` has the views and the cursor's moves, `Music`
the selected and the sounding song and the random order with its generator, `BootPlate` the plate's
times.

### The pure modules

* `TextEntry` is the keyboard with its real geometry in pixels; `Icons` the two caches, least
  recently used out, and the frame's pump that draws one icon; `Pickers` the panes of the appearance
  screen and the scrolling of lists; `Repeat` the stick's directions and the accelerating repeat,
  measured in time.
* `IniFile` is the parser and the writer line by line, with limits as constants; `Paths` a path with
  its buffer; `Options` and `Settings` what each option reads as and is written as (the code for
  starting a ROM at power-on is compiled out and left out).
* `BoxShape` is the geometry of `boxart.c` and `theme.h`, the snap to a kind, the sections of
  `boxart.ini`, and how many tiles `memprofile.c` makes room for. 1.4286 is 10:7 here, and rounding
  is exact.
* `RomInfo` has the table of games row by row, games that say the same next to each other as one
  row, and the byte order, the header, the overrides and the sources of a description.
* `Scaler` has the crop and the folding of source rows and columns into a tile: a picture is the
  sets of source rows and columns that were averaged into each of its own, so a wrong average, a gap
  or a row drawn twice shows. Packing to 5-5-5-1 is left out. It has also the walk of
  `image_probe.c` over the parts of a JPEG.
* `CartLayout` counts in sectors: where the parts of a ROM, an emulator with its game and a save
  lie. `CartLayout` also has the boot chips and their seeds, without the arithmetic of the checksum.
  `Clock` is the date page, `CardStat` the report's warnings without their wording, `Sound` the
  effects and the mixer's clock.

## 4. Runs

| Run | Module | Result | Shows |
|---|---|---|---|
| `thumbstore` | `ThumbStore` | pass | 3 covers, 3 shapes of which one is not storable, 3 slots, honest faults, cuts anywhere: every lookup is the cover's own tile, the index never lies, one row per cover, named slots are final, `TileAtlas` is implemented |
| `thumbcache` | `MCThumbCache` | pass | 3 titles, 2 slots, renames and changes of setting at any moment, an atlas of 2 that fills, refuses and goes away: no tile for the wrong game, no record stuck, none settled as artless without cause |
| `thumbcache_live` | `MCThumbCache` | pass | 3 titles, one that does not open, 1 slot, renames: tiles come after the last rename, the background stops, complete means built |
| `libindex` | `MCLibIndex` | pass | 4 directories, one beyond the walk's room and one beyond its depth, 2 games of one title, 2 edits away from the console, one failing allocation, failing writes, cuts: the library is the card's |
| `playerdata` | `MCPlayerData` | pass | 2 players, 2 games that leave the card and return, cheats for one and a padlock for the other, storage that refuses, torn files, nobody deleted: clean means saved, for history, cheats, padlocks and roster, Recent is in order |
| `playerdata_shared` | `MCPlayerData` | pass | with cheats, padlocks, saves and players deleted: no inheritance, no leftovers, padlocks do not move |
| `playerdata_delete` | `MCPlayerData` | violation | item 1 below |
| `parental` | `MCParental` | pass | 2 buttons, codes of 2, ceiling 2, 3 failures, a card that is written or not, resets anywhere, every window of a six-hour day: all about the padlock and the opening time |
| `launch` | `MCLaunch` | pass | 3 games (own, for a core, for a core that is not there), 2 players, both engines, cartridge or none, every step failing, resets and cuts: own save, progress kept, counted once, bootable image |
| `cheatengine` | `MCCheatEngine` | pass | 6 games, every list of up to 3 of 14 lines, 2 states of memory: the words that were written do what the list means |
| `cheats` | `MCCheats` | pass | 2 cartridges of one code, 4 rows, a cheat typed under a database's name, pak in and out, database on and off, renames, launches that come back: what is emitted was asked for |
| `screens` | `MCScreens` | pass | 2 titles, 1 and 2 players, 2 songs, tours through every pair of screens that leave something for one another: `PickBeforePlay`, `WhatWasSetHolds`, `NamesStay`, `WayOut` |

Each passing run has an invariant with the types of its variables among its conjuncts.

**Bounds.** Two covers are the least that can be confused and three let a third be put between;
three slots let an index name a slot past the end of a pak that was recreated, and one before it. A
pool of two with three titles is the least in which one is evicted while another is kept; `Margin`
is one in the safety run, so that more is asked for than the pool holds. `AtlasRoom` of two with
three titles fills the atlas; `thumbcache_live` has room for every title, without which complete
means that the walk ended. In `libindex`, `MaxDirs` and `ScanDepth` are one less than the tree,
`Powers` gives every entry a size of its own so that signatures tell all directories apart (what
they cannot tell apart is deviation 2), and two edits let one undo, replace or hide the other. Two
players are the least that can be confused. `MaxNewest` stops launches once a stamp exceeds it and
`MaxStamp` is past it, so that the 32-bit wrap, a matter of the stamps a card starts with, is out of
the passing runs' reach; `Liked`, `Ticked`, `Locked` limit which games can be favourited, ticked and
locked. `playerdata` has the view `WithoutSaves`: states that differ only in the saves beside the
games and in `touched` count as one, since with nobody deleted no step depends on them and its
properties do not read them but for their types. Its two slots are within the roster file's room:
what happens beyond it is deviation 11. The players of `playerdata_shared` are deleted only while
another is active and its games stay on the card. In `parental`, three failures exceed the ceiling
of two; two presses give an entry a middle; `Times` holds a moment inside the default window, one in
the middle of an hour outside it and the last before midnight, and `EditHours` lets the panel move
its start by one. `launch` bounds the saves a game makes and the plays of each (`MaxSaves`,
`MaxPlays`): two of each tell an old one from a new one. In `cheatengine`, lists of three lines have
every pair of a condition, a repeater and its operand with something before or after; the games have
one long and several short runs of padding, padding behind a delay slot, decoys before the preamble,
a table that looks like padding, a checksum that never was right, data that leads between two words
before and after the preamble, and a game that is not libultra's; one exception is enough, as each
starts from what the last left in memory. In `cheats` two boots let a launch come back; `UserMax` of
one and `EmitLines` of two reach both limits. `screens` has keyboards of one letter and the space
and texts of one letter, so that limits are met at once; times are in steps. The rest of a screen's
arithmetic is in the `ASSUME`s, with real sizes. Deadlock is checked where the system does not stop:
`cheatengine` ends when its exceptions are spent or the console refuses the image, and `cheats` when
the bound of boots is reached.

**Fairness.** In `ThumbCache`: weak fairness of a frame of the grid that does not move
(`StillFrame`) and of the three branches of the background half. `app_run()` draws a frame and then
calls the screen's background function, on every turn of its loop, so each is taken again and again
while enabled. What the user does is not fair, and the liveness properties only speak of users who
eventually rest (`UserRests`). Nothing is assumed of the card: that the atlas refuses or disappears
is never required to happen or not to.

In `Parental`: weak fairness of what a frame on the pad does without the user (`WaitTicks`,
`FlashEnds`), which `code_update()` does on every frame, and of the steps a call takes by itself
(`WriteOut`, `Accept`, `Refuse`, `Deed`). Presses, time and resets are not fair.

In `Screens`: weak fairness of the frame's own steps (the plate, the music's start, a transition,
the closing of a sheet, the settling of a track, a launch's end), all of which the loop takes
whatever is pressed. `WayOut` speaks of a player who from some moment on presses nothing but B, and
does so again and again. In `CheatEngine`: weak fairness of the next instruction and of the game's
handler.

### Disagreements and known deviations

Where the code does not do what it, a comment or a document says. The first has a run; the others
were met while modelling and are in a model's steps, excluded from an instance by a named constant,
or computed by an `ASSUME`.

1. *Deleting the player who is active* (run `playerdata_delete`). `profile_remove()` moves to player
   1 before `profile_activate()` flushes what is dirty, so an unsaved favourite takes the deleted
   player's whole history into player 1's file.

Library.

2. A ROM swapped for another of the same size, or renamed, leaves its directory's count and sum of
   sizes as they were, and the index is believed (`libindex.c:155`). With `Equal` for `Size` in the
   instance `LibraryIsTheCard` fails.
3. Records that are kept are not asked for their art again: a cover that went and came back stays
   missing (`libindex.c:314`), a pack installed later goes unnoticed for titles settled as missing,
   and a picture of a title's own elsewhere does not beat the pack's (`docs/CARD.md:74`).
4. A name typed for a game without an N64 header is lost when its directory is scanned again
   (`library.c:711`).
5. A library cut short by an allocation on a fresh scan is saved over an index that was good
   (`libindex.c:592`).
6. `menu/metadata` and the `.ini` beside a game are not part of the signatures; two ROMs of one stem
   share the `.ini`.

Art.

7. A wrong tile from an old index: rejecting a pak drops two files; if the power goes between them
   the old index survives, and if the next session stores a tile and loses power before the index is
   rewritten, an old row names the new tile. `thumbstore.c:478` says a tile whose index was lost is
   "wasted space, not a wrong tile". The card it starts from is the one `thumbstore.c:132` reports
   (`Legacy`). A cut during one tile's flush loses the rows of all sessions (`thumbstore.c:511`).
8. `thumbstore_has()` compares path and size, not shape, so after a change of setting the build
   calls an atlas complete in which nothing fits; `thumbcache.c:310` expects it to miss.
9. `thumbcache.h:194` says a 4 MB console builds its own tiles. `thumbstore_put()` refuses their
   width, so each boot decodes them in vain. In a pool smaller than what the grid asks for, margin
   included, the title under the cursor may wait for the margin (`screen_grid.c:919`); a decode that
   fails for want of memory settles the title as one without art (`thumbcache.c:965`).
10. `theme.h:95` says nothing is ever upscaled. That holds of the three kinds and the built-in
    table, not of a section of `boxart.ini` (`NothingIsUpscaled`: 17x20 becomes 109x128 beside a
    square of 140). A section called Automatic or NTSC is not found again at the next boot
    (`RegionsAreKept`).

Players.

11. There are ten players (`profile.h:65`) and eight sections in a text file (`ini_parser.c:23`),
    one of them the file's own: players eight to ten are never saved, and whoever is given such a
    slot after the next boot inherits its files. `SevenPlayersAreKept` computes it, and with slot 7
    in the instance `CleanMeansSaved` fails. No run has it: the hazard is listed without a property.
12. On a card from before `locks.dat`, the first write of `playstate.dat` drops the padlocks from
    it, and `locks.dat` is written only by `app_deinit()`: switch off from the menu in between and
    nothing is locked (`locks.h:26`). Its play files keep their padlocks until they are written
    again, and `playstate_load()` sets what it finds in them (`playstate.c:48`): a padlock the
    parent took off is back after a switch of players or a boot, where `locks.h:17` says locks are
    nobody's own. The runs' cards and the proofs are without such rows (`OldLocksGone`).
13. A roster torn by the power reads as an old one with fewer players (`ini_parser.c:592`); saves
    beside games that are not on the card when a player is deleted stay (`profile.c:484`); on
    storage that refuses writes so do all the others, for the next player of that session; with two
    copies of one game the first one's favourite wins at the next boot (`playstate.c:99`); a play
    stamped `0xFFFFFFFF` makes the next stamp 0; an index or a history that is being rewritten when
    the power goes is lost whole.
14. `parental.ini` cut short inside the code is read as a code nobody can enter, where
    `parental.h:45` wants it read like no file.

Launch and cheats.

15. `fs.c:81` says a new save is "filled with zeros". Its clusters hold what they held until the
    fill ends; power lost in between leaves a file of the right size that counts as a save from then
    on. A card that is full leaves a short one, which refuses the game until somebody deletes it.
    Games of one stem in a folder share one `.sav`. A core longer than 2 MB would be overwritten
    from its end by the game it runs (`cart_load.c:218`).
16. `rompatch.c:228`: the repeater gives the low 32 bits of `$t0` back. When a write fails half-way
    only the hook is restored, on a path nothing leads to.
17. The classic engine is built as its tail alone (`cheats.c:486`), so no cheat works with it, where
    `docs/CARD.md:102` says to try it; without a preamble and with the watch exception it would jump
    to where nothing was put. A copy of `cheats.db` on the card that cannot be used hides the
    cartridge's good one (`cheatdb.c:112`, `DatabaseIsWhole`).
18. `cheatdb.c:226` says a region beats a version; the ranks put a row for any region and this
    version above one for this region and any version. The instance has no such pair.
19. Leaving a sheet replaces all ticks of its game by those of the list in memory. With the database
    off, the Expansion Pak out, memory short at load, or B pressed in the sheet's first frame, the
    others are forgotten (`cheatstate.c:148`), as is one whose name was typed again in another case.
    Typed cheats are on the card only after `app_deinit()`, and a torn file is discarded whole.
    `hasty` and `dummy` together would leak ticks; no console has both (`MCSetups`).

Screens, tables and devices.

20. Without an icon pack the appearance screen cannot be left by B (`app.c:220`,
    `screen_appearance.c:234`); on the keyboard B does nothing with the caret before the text
    (`screen_keyboard.c:429`). Both are `Caught` in `WayOut`. A starter look may be another player's
    (`profile.h:179`).
21. `screen_appearance.c:300` says L and R page from anywhere; in the categories a turned page is
    turned back (`PagesTurn`). `screens.h:32` says a name has no digits or case. One press can
    overshoot the credits' end, the next corrects it (`CreditsEndAtTheEnd`).
22. With the eight icons of a console without the pak a page never settles, and of nine players one
    face is missing in every frame, so the plate waits out its ceiling (`SmallCacheNeverSettles`);
    an icon that cannot be drawn holds back those farther from the cursor
    (`BadFaceKeepsOthersBack`); a pack whose buffers could not be had still counts icons
    (`icon.c:173`).
23. The starved branch of `app.c:564` reads a screen's entry before `app.c:642` has made sure there
    is one.
24. The table of games has NDQ and NYW twice with different save types; the second rows are never
    used (`EveryRowIsFound`). An `.ini` that exists and cannot be read is overwritten by the one
    option that was changed (`rom_info.c:1233`, `OptionsAreKept`). Three settings are never written.
25. A path that outgrows its first buffer keeps its root in the old one (`path.c:28`, `:61`,
    `BufferHolds`).
26. With the effects' volume at 0 their files are still open when a game starts
    (`SilentEffectsStayOpen`); `cardstat.h` speaks of six cores, `cardstat.c` looks for five.
27. `screen_profiles.c:201` says the cursor is not reset on the way back from the appearance editor,
    and `:353` that `profiles_enter()` leaves it where it was. Whenever no name is pending, and
    after the editor none is, it goes to the active player (`screen_profiles.c:203`,
    `EnterProfiles`): after another player's look was changed the cursor is on one's own card. After
    a rename it stays.

## 5. Proofs

`ThumbStore_proofs` proves about `ThumbStore`, for every set of covers and shapes, every number of
slots and every set of faults:

* `TypeCorrect`: `Spec => []TypeOK`.
* `RowsStayWithinPak`, `CoversHaveOneRow`, `SlotsAreFinal`: what holds of a session in memory. The
  inductive invariant is `MemoryInv`: rows are below `slotCount`, no two rows name one slot or one
  cover, and outside an open pak there are no rows.
* `IndexIsTrue`, `FetchIsTrue`, `StoreImplementsAtlas`: what holds of the card, under the assumption
  `Sound`: the card is not one an earlier build damaged, and the faults `open`, `header` and `torn`
  do not occur. Without it they are false, as deviation 7 says. The invariant is `CardInv`, on top
  of `MemoryInv`: an index with rows has a good pak (*PakFirst*), the header counts at least what
  the index names except between a tile's write and its header's (*Counts*, *Unsynced*), and rows
  name filled slots (*RowsAreFilled*). It is stronger than `IndexNeverLies`, because truth of the
  index after the rewrite depends on what was true of memory and the header several writes before.
  The step of the refinement is by cases on the action: `PutTile` is `Store`, `PowerCut` and the
  drops are `Lose`, everything else stutters.

`ThumbCache_proofs` proves about `ThumbCache`, for every library, order of titles, set of covers,
pool and atlas:

* `SlotsShowTheirOwnArt`, `PoolStaysConsistent`, `UsableArtIsNotGivenUp`. None of the three is
  inductive alone. `CacheInv` is all of them, and three things the callbacks rely on without
  checking: a decode for the pool has a slot that is empty and marked with the record it is for, and
  one for the build has none (`DecodeHasItsPlace`); what is shown, stored or in the decoder has a
  cover (`ArtHasCover`); slots are of titles the table has (`SlotsAreForTitles`). The step that
  needs them is `DecodeDone` after a `Shuffle`, where the callback's pointer is to a record that has
  changed hands; that a sorted table is a permutation (`EveryTitleHasAPlace`) comes from the
  library's theorems on injections between finite sets.
* `CompleteIsBuilt`: `Spec => []CompleteMeansBuilt`, where `EveryTileFits`: the atlas has room for
  the library and takes each title's one tile, which no setting cuts differently (deviations 8 and 9
  are what goes wrong otherwise). `BuildInv` says that what the walk has passed is in the atlas, or
  is the one title the build is decoding; a tick that finds work starts at the least title left
  (`MinIsLeast`), so the walk overlooks none, and a title that is not in the atlas finds room in it
  (`RoomForOneMore`), by counting.

`LibIndex_proofs` proves about `LibIndex`, for every tree, card and sequence of edits:

* `IndexHoldsUntilTheCardChanges`: `Spec => []SettledStaysSettled`, and
  `SettledBootReadsTheIndex`: the boot that finds such an index reads it as it is. `SettledInv` adds
  that a settled index is of a walk that fits its table, and that no index is settled while its file
  is being written.
* `LibraryIsAlwaysTheCard`: `Spec => []LibraryIsTheCard`, under `SizesTell` (two sets of files that
  a directory may hold never have the same sum of sizes) and `NamesAreForN64` (names are typed for
  games with an N64 header), and `NoCoverIsOverlooked`: `Spec => []NoCoverOverlooked`, under
  `SizesTell` alone. The first hypothesis is what the index itself goes by; without it the library
  is not the card (deviation 2), so the theorem says that nothing else can go wrong with it: not a
  directory that comes and goes, nor a boot that keeps one half of the index and scans the other, a
  write torn or refused, an allocation that fails, a name typed in between. The second leaves out
  deviation 4. Both hold in the instance that TLC checks. `LibraryInv` says of an index that there
  are files `F`, of those sizes, that its records list, each game once and, while no allocation has
  failed, all of them; what has become of the card since does not matter. A directory whose
  signature is as it was then has those files again (`KnownAgain`). Of a library it says the same of
  the files there are now, and that its titles are those `library_finish()` gives. What two such
  lists show is alike (`OneCoreForAGame`, `SameCollisions`, `SeenAlike`). A bag of records is never
  more than a set, so of the fold that counts them only the sum of one number is needed
  (`SumOfOne`).

`PlayerData_proofs` proves about `PlayerData`, for any games, slots, clocks and stamps:

* `TypeCorrect`: `Spec => []TypeOK`.
* `PlayedOutranksAll`: `Spec => PlayedIsNewest`, where `MaxNewest < MaxStamp`: no game is started
  on the last timestamp there is. The invariant is that `newest` is no less than any stamp in
  memory; that there is a greatest one is shown by the library's well-founded induction.
* `LocksAreTheParents`: `Spec => OnlyTheParentMovesLocks`, where `OldLocksGone` (deviation 12). The
  invariant is that no play file has a row with a padlock, nor a write still to be done.
* `HistoryIsOnesOwn`, `FreeSlotsAreEmpty`: `Spec => []OwnHistoryOnly` and `Spec =>
  []FreeSlotIsEmpty`. One invariant, `PlayersInv`, in three parts. `RosterInv` says that the roster
  in memory is the one on the card or the last one in `todo`; `FreeInv` that a file of a free slot
  is empty or about to be, and that the writes which empty it come before the roster's;
  `HistoryInv` that every row on the card, in `todo` and in memory is of a game its player touched.
  They are about what is still to be written, since the properties are lost between two writes of a
  handler if they are lost at all. `OrdinaryRoster` leaves out what is wrong in the code: slots the
  file has no section for (deviation 11), a torn roster and storage that refuses writes while a
  player is deleted (13), the active player deleted (1). The second theorem also needs
  `AllReached`, that each save is in a folder a ROM of the library is in (13). The instances of the
  runs satisfy all of this, but for the run about 1.
* `CleanIsSaved`: `Spec => []CleanMeansSaved`. `SavedInv` says the same of the files as the writes
  in `todo` will leave them (`Final`), in every state but those on the way into a game, so each
  write done leaves it as it was (`FinalKept`). That a load gives back what a save wrote is
  `RowsReadBack`. Torn files and any deletion are allowed; `RoomForAll` (deviation 11), `NoTwins`,
  that no card has two copies of one game (13), and `OldLocksGone` (12) are needed.

`Parental_proofs` proves about `Parental`, for every alphabet, length of code, ceiling and set of
games:

* `TypeCorrect`: `Spec => []TypeOK`, in three parts: policy, pad and place.
* `WaitCannotBeSkipped`: `Spec => WaitIsEarned`. The invariant is `WaitInv`: what the pad still
  holds back and what was sat through make up what the count costs; the count in memory, and on a
  card that is written the one in the file, is at least the number of wrong answers, and ahead of it
  while an answer is being worked out. The last part is the order in which `guess()` saves and
  compares; without it a reset after the answer would bring back a count that is short.
* `CodeGuardsTheScreens`: `Spec => GuardedScreens`. `GuardInv` follows the way in: inside the panel
  the code was right or there is none, the pad the panel asked for leads back into it, and a deed
  is waiting only on the pad, once the answer was right.
* `CardHoldsThePolicy`: `Spec => []CardAgrees`; `SyncInv` says it of what a boot would make of both,
  which differs from the file because `parental_load()` normalises.
* `NewCodeWasTypedTwice`: `Spec => CodeIsWhatWasTypedTwice`. `TypedInv` relates the presses that
  were not taken back to the two entries.
* `PromisedTimeIsTheFirst`: `Spec => []OpeningTimeIsExact`, from the types and `HourAfter`, which
  hour it is some steps from now: the steps left of this hour, whole hours after it, modulo the day.

`Launch_proofs` proves about `Launch`, for any games, players and bounds:

* `TypeCorrect`, `GameHasItsOwnSave`, `NothingSavedIsLost`, `PlaysAreCountedOnce`,
  `ImageIsBootable`. One invariant, `LaunchInv`, in parts: `CountInv` (counts never run ahead of
  launches, and equal them while storage has taken every write), `SaveInv` (the cartridge owes one
  save at most, to the file it was told; every other file has the last one made in it),
  `ReadyInv` and `ImageInv` (how far save memory and image are at each step). What the properties
  say of a running game is put together over a dozen steps before it, each of which may fail, so
  the invariant says it of each.

`Cheats_proofs` proves about `Cheats`, for any games, names, codes and consoles, and any database
that has no doubles:

* `InvariantHolds`: `Spec => []IInv`, the inductive invariant, in parts: types; which screens have
  the sheet's set in memory (*Session*, *Live*); the table is what was typed and the file has it
  unless the table is dirty (*TablesAgree*); the set in memory is the list of the game it was loaded
  for, also when the sheet is closed, the database switched over, or the game has moved
  (*SetIsRight*); every tick, in memory or kept, was asked for, but for the kept ones of the game on
  the sheet (*TicksAsked*). The steps that need all of them are a launch, and a load after a launch
  that came back.
* `BootedAsAsked`, `ListIsRight`, `TypedReachesTheCard`: `Spec => []EmittedIsAsked`, `Spec =>
  []ListIsThisCartridges`, `Spec => []NothingTypedIsLost`.
* What they rest on about data: what `Picked` leaves comes from the places it was given, all of
  them, each once (`PickedIsSound`); the table laid over a list without doubles gives a list without
  doubles, with the user's lines wherever there are any (`TypedAppliedIsSound`); the row
  `find_row()` takes is the narrowest, and the only one (`FindRowIsNarrowest`); a record that is put
  in the table replaces what was typed under that name and nothing else (`PutIsRight`).

The first two are inductions over the length of a sequence. The library's induction theorems cannot
be used, since they take an operator; `Induction` states the principle with a set of numbers
instead, from `LeastNumber`, and that from the well-foundedness of the numbers. `StepsExist` gives
from it the function that a recursive definition chooses. `DatabaseAssumption` says what is taken of
a database: keys and, within a row, names are distinct, names whatever their case; and no game has
both rows of deviation 18. `tools/mkcheatdb.py` keeps keys apart, and names as spelled (`:328`,
`:340`); the rest is true of the data only. Where a row has a name in two cases, the first alone
gets lines that are typed. `CheatsAssumption` has types, and no console is both `hasty` and `dummy`
(deviation 19).

`Screens_proofs` proves about `Screens`, for any titles, names, players, songs, screen sizes and
tours:

* `PickBeforePlayHolds`: `Spec => []PickBeforePlay`. `PickOK` follows the way in: until a player is
  chosen there are the picker, the keyboard it asked and the appearance screen, and a keyboard leads
  back to the picker. `CursorOK` says that the grid's cursor is on a title of the view as it would
  be built now: on every way to the grid the view is built anew and the cursor clamped, a favourite
  toggled builds it anew on the favourites, and leaves it as it is on every other tab
  (`ToggleKeepsView`).
* `WhatWasSetAlwaysHolds`: `Spec => []WhatWasSetHolds`. `SavedOK` says that what is set and not
  saved is so on the settings screen and those it opens only, `SongOK` where a chosen song may still
  be waiting to settle, and what the module of the music then selects and sounds, whatever memory
  it found; `ThemeOK` whose theme is shown while players are chosen, renamed and deleted.
* `NamesAlwaysStay`: `Spec => NamesStay`, an action property, with a second invariant beside `IInv`,
  `NamesInv`: the table has the sheet's title at the sheet's path (`SheetNamed`); the keyboard goes
  back to the screen that opened it, and is not entered with an answer already given (`BackOK`); a
  name that is awaited is the one the keyboard was opened for, and the answer, once given, is the
  keyboard's text (`TitleAsked`, `PlayerAsked`); while the sheet, or a screen it opened, is up, the
  grid's focus is on the sheet's title, or the title is under its cursor (`FocusOK`). The last is
  the hard one: on the way back the grid looks for the title again, in a view the sheet may have
  changed. So `UnderCursor` is said of the view as it would be were the title a favourite: toggling
  leaves that view alone (`LikedOnce`), and it is the view shown wherever the tab has the title
  (`LikedIsShown`, `GridFindsTheTitle`). A record that moved is found by its path, since no title
  is in the table twice (`TableIsInjective`).
* `SessionsAreSound` is the invariant under all three, `IInv`: the types of every screen's statics
  (`RecordsOK`) and how they are related (`Related`). What it rests on about data are lemmas: an
  order that is strict and total puts a finite set in a sequence, each once (by counting
  alone), the order of titles is one, and a word typed stays within its limit.

The constants enter through `StoreAssumption`, `CacheAssumption`, `IndexAssumption`,
`DataAssumption`, `CheatsAssumption`, `DatabaseAssumption`, `PadAssumption`, `ClockAssumption`,
`FilesAssumption`, `LaunchAssumption`, `ScreensAssumption`, `GridAssumption` and `MusicAssumption`,
which TLC evaluates on each run, and the hypotheses named above.

Only model-checked, and why:

* All liveness, and ENABLED: out of the prover's reach.
* `LibraryIsTheCard` and `NoCoverOverlooked` where two sets of files have one sum of sizes: there
  the first is false (deviation 2), and the second may be.
* `EngineDoesWhatTheCheatsSay`, `NeverNests`, `GameIsKept` run generated code in an image the game
  changes; for every image they would need assumptions on what games look like that the code does
  not justify, since it goes by patterns.
* Everything of `IniFile`, which declares RECURSIVE operators.

## 6. Plan

Left to prove: the type invariant of `CheatEngine`, and `NeverNests`.

Left to model: a player changed while a set of cheats is in memory; the watch exception of the
classic engine; a run of `PlayerData` with the eighth slot, for deviation 11.

## 7. Not modelled

* Vendored libraries (`libs/`), and what is under all models: libdragon's heap, its stdio and FatFs
  are taken to do each file operation whole or, where a fault is modelled, not.
* Drawing, fonts and texts, but for what decides where a cursor or a tile is; the two image codecs;
  the synthesis of music.
* Functions without a caller in this program: 64DD disks (`disk_info.c`, the 64DD half of `sc64.c`),
  controller pak files (`cpakfs_utils.c`), USB (`usb_comm.c`), the history of the menu this one grew
  from (`bookkeeping.c`).
* Development tools and diagnostics; the launch's diary, which nothing reads.
* The boot's registers and the arithmetic of checksums, which act on hardware that is not in the
  repository; the beacon and the watch exception.
* Memory running out, except in `LibIndex` and for the songs of `Screens`; the order of the
  library's records in `LibIndex` (`Screens` has it); the words of a cheat's lines in `Cheats`
  (`CheatEngine` has them). `grid_open()` clears a description without freeing it, a leak no model
  has.

## 8. Running

    tlc -config ThumbStore.cfg ThumbStore
    tlapm ThumbStore_proofs.tla

Each run of section 4 is the `.cfg` of that name (`ThumbCacheLive.cfg` for `thumbcache_live`, and so
on) with the module in its row.
The other proofs are checked as `ThumbStore_proofs` is; `PlayerData_proofs` and `Screens_proofs`
take some minutes.
