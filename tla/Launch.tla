------------------------------- MODULE Launch -------------------------------
(***************************************************************************)
(* Starting a game: src/screens/screen_launch.c, which asks                *)
(* src/menu/cart_load.c to put the game and the player's save on the       *)
(* cartridge through src/flashcart, records the play, edits the image when *)
(* cheats are ticked, and leaves for the boot code.                        *)
(*                                                                         *)
(* The cartridge outlives the menu.  While a game runs it carries what the *)
(* game saves back to the card by itself, and the menu that comes up after *)
(* a reset finds it still doing so (sc64_init).                            *)
(*                                                                         *)
(* A save file is the one place of a game and a player, <dir>/saves/[pN/]; *)
(* SaveOf is one-to-one, see the README for two games that share a name.   *)
(***************************************************************************)
EXTENDS Integers, FiniteSets

CONSTANTS
    Games, Players,
    Emulated,   \* games that need a core beside them
    Cores,      \* emulated games whose core is on the card
    Saving,     \* games that have a save type
    Ticked,     \* games with cheats ticked
    Engines,    \* the settings of the cheat engine: "cartridge", "classic"
    Carts,      \* what the console may have in its slot: "sc64", "none"
    Nobody,
    MaxSaves,   \* bound: times a player saves
    MaxPlays    \* bound: launches of a game

ASSUME LaunchAssumption ==
    /\ Games # {} /\ Players # {}
    /\ Cores \subseteq Emulated /\ Emulated \subseteq Games
    /\ Saving \subseteq Games /\ Ticked \subseteq Games
    /\ Engines \subseteq {"cartridge", "classic"} /\ Carts \subseteq {"sc64", "none"}
    /\ Nobody \notin Games \X Players
    /\ MaxSaves \in Nat /\ MaxPlays \in Nat

VARIABLES
    cart,       \* "sc64" or "none"
    phase,
    game,       \* app->launch: the game and the player who starts it
    player,
    image,      \* what the cartridge's memory is filled with
    config,     \* its configuration registers
    save,       \* its save memory
    target,     \* the file it carries the save memory to, if any
    pending,    \* has the game written what the card does not have yet?
    files,      \* the save files on the card
    saved,      \* the last save made in each, losses to the power switch excused
    loaded,     \* launches that got the game and its save onto the cartridge
    plays,      \* play counts in memory
    recorded,   \* and on the card
    dirty,      \* playstate_dirty()
    refused,    \* storage has refused a write
    cheats      \* boot_params->cheat_list is set

cartVars == <<image, config, save, target>>
menuVars == <<plays, dirty>>
counts == <<loaded, recorded, refused>>
vars == <<cart, phase, game, player, cartVars, pending, files, saved, menuVars, counts, cheats>>

Places == Games \X Players
SaveOf == <<game, player>>

Steps == {"rom", "emulated", "directory", "type", "create", "fill", "save", "writeback"}
Phases == {"off", "init", "grid"} \cup Steps \cup
          {"record", "patch", "hook", "header", "hand", "game", "fault"}

\* Save contents: whose they are and how many saves went into them.
Content(is, by, n) == [is |-> is, by |-> by, n |-> n]
NoFile == Content("none", Nobody, 0)
ShortFile == Content("short", Nobody, 0)    \* the card was full
Junk == Content("junk", Nobody, 0)          \* allocated, what the clusters held
Erased == Content("save", Nobody, 0)        \* 0xFF throughout
Contents == {NoFile, ShortFile, Junk, Erased} \cup [is : {"save"}, by : Places, n : 1 .. MaxSaves]

\* The image: whose it is, whether all of it is there, and what the patch did.
Image(of, whole) == [of |-> of, whole |-> whole, engine |-> FALSE, hook |-> FALSE, header |-> TRUE]
NoImage == Image(Nobody, FALSE)

Defaults == [type |-> FALSE, writable |-> TRUE]

Fault == phase' = "fault"

-----------------------------------------------------------------------------
(* The cartridge.                                                          *)

PowerOn ==
    /\ phase = "off"
    /\ phase' = "init"
    /\ UNCHANGED <<cart, game, player, cartVars, pending, files, saved, menuVars, counts, cheats>>

\* Mutant: the menu does not wait for the save still on its way.
InitCartAtOnce ==
    /\ phase = "init"
    /\ phase' = "grid"
    /\ config' = Defaults
    /\ target' = Nobody
    /\ pending' = FALSE
    /\ plays' = recorded /\ dirty' = FALSE
    /\ UNCHANGED <<cart, game, player, image, save, files, saved, counts, cheats>>

\* sc64_init() waits for the write-back, then sets every register; a save
\* type of none ends the write-back.
InitCart ==
    /\ phase = "init" /\ ~ pending
    /\ phase' = "grid"
    /\ config' = Defaults
    /\ target' = Nobody
    /\ plays' = recorded /\ dirty' = FALSE
    /\ UNCHANGED <<cart, game, player, image, save, pending, files, saved, counts, cheats>>

\* Firmware that is too old, a register that does not take, no card.
InitFails ==
    /\ phase = "init" /\ cart = "sc64"
    /\ Fault
    /\ UNCHANGED <<cart, game, player, cartVars, pending, files, saved, menuVars, counts, cheats>>

\* The cartridge carries the save memory to the card, whatever the console
\* is doing.
Writeback ==
    /\ pending /\ phase # "off"
    /\ files' = [files EXCEPT ![target] = save]
    /\ pending' = FALSE
    /\ UNCHANGED <<cart, phase, game, player, cartVars, saved, menuVars, counts, cheats>>

Reset ==
    /\ phase \notin {"off", "init"}
    /\ phase' = "init"
    /\ cheats' = FALSE
    /\ plays' = [g \in Games |-> 0] /\ dirty' = FALSE
    /\ UNCHANGED <<cart, game, player, cartVars, pending, files, saved, counts>>

\* What was not written back yet is gone, and nobody expects it.
PowerOff ==
    /\ phase # "off"
    /\ phase' = "off"
    /\ image' = NoImage /\ config' = Defaults /\ save' = Junk
    /\ target' = Nobody /\ pending' = FALSE
    /\ saved' = [f \in Places |-> files[f].n]
    /\ plays' = [g \in Games |-> 0] /\ dirty' = FALSE /\ cheats' = FALSE
    /\ UNCHANGED <<cart, game, player, files, counts>>

-----------------------------------------------------------------------------
(* cart_load.c and flashcart.c.  Any step may fail, and the fault page     *)
(* that shows then has no way out but the power switch or reset.           *)

Choose(g, p) ==
    /\ phase = "grid"
    /\ loaded[g] < MaxPlays
    /\ game' = g /\ player' = p
    /\ phase' = IF cart = "none" THEN "record" ELSE "rom"
    /\ UNCHANGED <<cart, cartVars, pending, files, saved, menuVars, counts, cheats>>

AfterRom(g) == IF g \in Saving THEN "directory" ELSE "type"

\* The game, or the core that plays it.
LoadRom ==
    /\ phase = "rom" /\ (game \in Emulated => game \in Cores)
    /\ image' = Image(game, game \notin Emulated)
    /\ phase' = IF game \in Emulated THEN "emulated" ELSE AfterRom(game)
    /\ UNCHANGED <<cart, game, player, config, save, target, pending, files, saved, menuVars, counts, cheats>>

CoreMissing ==
    /\ phase = "rom" /\ game \in Emulated \ Cores
    /\ Fault
    /\ UNCHANGED <<cart, game, player, cartVars, pending, files, saved, menuVars, counts, cheats>>

LoadEmulated ==
    /\ phase = "emulated"
    /\ image' = [image EXCEPT !.whole = TRUE]
    /\ phase' = AfterRom(game)
    /\ UNCHANGED <<cart, game, player, config, save, target, pending, files, saved, menuVars, counts, cheats>>

MakeDirectory ==
    /\ phase = "directory"
    /\ phase' = "type"
    /\ UNCHANGED <<cart, game, player, cartVars, pending, files, saved, menuVars, counts, cheats>>

\* Without a save type there is nothing to load.
SetType ==
    /\ phase = "type"
    /\ config' = [config EXCEPT !.type = game \in Saving]
    /\ target' = Nobody
    /\ phase' = IF game \notin Saving THEN "record"
                ELSE IF files[SaveOf] = NoFile THEN "create" ELSE "save"
    /\ UNCHANGED <<cart, game, player, image, save, pending, files, saved, menuVars, counts, cheats>>

\* file_allocate() only sizes the file.
CreateSave ==
    /\ phase = "create"
    /\ files' = [files EXCEPT ![SaveOf] = Junk]
    /\ phase' = "fill"
    /\ UNCHANGED <<cart, game, player, cartVars, pending, saved, menuVars, counts, cheats>>

CardFull ==
    /\ phase = "create"
    /\ files' = [files EXCEPT ![SaveOf] = ShortFile]
    /\ Fault
    /\ UNCHANGED <<cart, game, player, cartVars, pending, saved, menuVars, counts, cheats>>

FillSave ==
    /\ phase = "fill"
    /\ files' = [files EXCEPT ![SaveOf] = Erased]
    /\ phase' = "save"
    /\ UNCHANGED <<cart, game, player, cartVars, pending, saved, menuVars, counts, cheats>>

\* A file of another size is refused.
LoadSave ==
    /\ phase = "save"
    /\ \/ /\ files[SaveOf] = ShortFile
          /\ Fault
          /\ UNCHANGED save
       \/ /\ files[SaveOf] # ShortFile
          /\ save' = files[SaveOf]
          /\ phase' = "writeback"
    /\ UNCHANGED <<cart, game, player, image, config, target, pending, files, saved, menuVars, counts, cheats>>

\* Mutant: the file of the game's first player, whoever plays.
EnableWritebackOfFirst ==
    /\ phase = "writeback"
    /\ target' = <<game, CHOOSE p \in Players : TRUE>>
    /\ phase' = "record"
    /\ UNCHANGED <<cart, game, player, image, config, save, pending, files, saved, menuVars, counts, cheats>>

EnableWriteback ==
    /\ phase = "writeback"
    /\ target' = SaveOf
    /\ phase' = "record"
    /\ UNCHANGED <<cart, game, player, image, config, save, pending, files, saved, menuVars, counts, cheats>>

\* A read or a register fails: nothing later than this step has happened.
LoadFails ==
    /\ phase \in Steps
    /\ Fault
    /\ image' = IF phase = "rom" THEN NoImage ELSE image
    /\ save' \in IF phase = "save" THEN {save, Junk} ELSE {save}
    /\ UNCHANGED <<cart, game, player, config, target, pending, files, saved, menuVars, counts, cheats>>

-----------------------------------------------------------------------------
(* screen_launch.c, once the game is on the cartridge.                     *)

\* A save of the play history: done, or left dirty.
Keep(now) ==
    \/ recorded' = now /\ dirty' = FALSE /\ UNCHANGED refused
    \/ refused' = TRUE /\ dirty' = TRUE /\ UNCHANGED recorded

\* Mutant: the play is counted here and by the hand-off's save again.
RecordTwice ==
    /\ phase = "record"
    /\ loaded' = [loaded EXCEPT ![game] = @ + 1]
    /\ plays' = [plays EXCEPT ![game] = @ + 2]
    /\ Keep(plays')
    /\ phase' = "patch"
    /\ UNCHANGED <<cart, game, player, cartVars, pending, files, saved, cheats>>

\* Mutant: the play is left for app_deinit() to save.
RecordLater ==
    /\ phase = "record"
    /\ loaded' = [loaded EXCEPT ![game] = @ + 1]
    /\ plays' = [plays EXCEPT ![game] = @ + 1]
    /\ dirty' = TRUE
    /\ phase' = "patch"
    /\ UNCHANGED <<cart, game, player, cartVars, pending, files, saved, recorded, refused, cheats>>

Record ==
    /\ phase = "record"
    /\ loaded' = [loaded EXCEPT ![game] = @ + 1]
    /\ plays' = [plays EXCEPT ![game] = @ + 1]
    /\ Keep(plays')
    /\ phase' = "patch"
    /\ UNCHANGED <<cart, game, player, cartVars, pending, files, saved, cheats>>

\* One engine or the other, on a cartridge and for a game of the console's own.
Cheated(engine) == engine \in Engines /\ game \in Ticked \ Emulated /\ cart = "sc64"

\* Nothing to do, or memory, an image, a place or a selection that will not
\* have it.
NoPatch ==
    /\ phase = "patch"
    /\ phase' = IF cart = "none" THEN "grid" ELSE "hand"
    /\ cheats' \in {FALSE, Cheated("classic")}
    /\ UNCHANGED <<cart, game, player, cartVars, pending, files, saved, menuVars, counts>>

\* Engine, hook and header, in this order.
WriteEngine ==
    /\ phase = "patch" /\ Cheated("cartridge")
    /\ image' = [image EXCEPT !.engine = TRUE, !.header = FALSE]
    /\ phase' = "hook"
    /\ UNCHANGED <<cart, game, player, config, save, target, pending, files, saved, menuVars, counts, cheats>>

WriteHook ==
    /\ phase = "hook"
    /\ image' = [image EXCEPT !.hook = TRUE]
    /\ phase' = "header"
    /\ UNCHANGED <<cart, game, player, config, save, target, pending, files, saved, menuVars, counts, cheats>>

\* Mutant: the header still describes the image as it was.
WriteHeaderStale ==
    /\ phase = "header"
    /\ phase' = "hand"
    /\ UNCHANGED <<cart, game, player, cartVars, pending, files, saved, menuVars, counts, cheats>>

WriteHeader ==
    /\ phase = "header"
    /\ image' = [image EXCEPT !.header = TRUE]
    /\ phase' = "hand"
    /\ UNCHANGED <<cart, game, player, config, save, target, pending, files, saved, menuVars, counts, cheats>>

\* app_deinit(): what is still dirty is tried once more, and the cartridge
\* is closed to writes.
HandOff ==
    /\ phase = "hand"
    /\ IF dirty THEN Keep(plays) ELSE UNCHANGED <<recorded, dirty, refused>>
    /\ config' = [config EXCEPT !.writable = FALSE]
    /\ phase' = "game"
    /\ UNCHANGED <<cart, game, player, image, save, target, pending, files, saved, plays, loaded, cheats>>

GameSaves ==
    /\ phase = "game" /\ config.type /\ save.n < MaxSaves
    /\ save' = Content("save", SaveOf, save.n + 1)
    /\ saved' = [saved EXCEPT ![SaveOf] = save'.n]
    /\ pending' = TRUE
    /\ UNCHANGED <<cart, phase, game, player, image, config, target, files, menuVars, counts, cheats>>

-----------------------------------------------------------------------------
Init ==
    /\ cart \in Carts /\ phase = "off"
    /\ game = CHOOSE g \in Games : TRUE
    /\ player = CHOOSE p \in Players : TRUE
    /\ image = NoImage /\ config = Defaults /\ save = Junk
    /\ target = Nobody /\ pending = FALSE
    /\ files = [f \in Places |-> NoFile] /\ saved = [f \in Places |-> 0]
    /\ loaded = [g \in Games |-> 0] /\ plays = loaded /\ recorded = loaded
    /\ dirty = FALSE /\ refused = FALSE /\ cheats = FALSE

Next ==
    \/ PowerOn \/ InitCart \/ InitFails \/ Writeback \/ Reset \/ PowerOff
    \/ \E g \in Games, p \in Players : Choose(g, p)
    \/ LoadRom \/ CoreMissing \/ LoadEmulated \/ MakeDirectory \/ SetType
    \/ CreateSave \/ CardFull \/ FillSave \/ LoadSave \/ EnableWriteback \/ LoadFails
    \/ Record \/ NoPatch \/ WriteEngine \/ WriteHook \/ WriteHeader \/ HandOff
    \/ GameSaves

Spec == Init /\ [][Next]_vars

-----------------------------------------------------------------------------
(* Properties.                                                             *)

\* Every variable has its type.
TypeOK ==
    /\ cart \in Carts /\ phase \in Phases
    /\ game \in Games /\ player \in Players
    /\ image \in [of : Games \cup {Nobody}, whole : BOOLEAN, engine : BOOLEAN, hook : BOOLEAN, header : BOOLEAN]
    /\ config \in [type : BOOLEAN, writable : BOOLEAN]
    /\ save \in Contents /\ files \in [Places -> Contents]
    /\ target \in Places \cup {Nobody} /\ pending \in BOOLEAN
    /\ saved \in [Places -> 0 .. MaxSaves]
    /\ {loaded, plays, recorded} \subseteq [Games -> 0 .. MaxPlays]
    /\ {dirty, refused, cheats} \subseteq BOOLEAN

\* A game that runs has its own player's save before it, and what it saves
\* goes to that player's file (flashcart_load_save()).
OwnSave ==
    /\ TypeOK
    /\ phase = "game" =>
        /\ config.type <=> game \in Saving
        /\ config.type => /\ target = SaveOf
                          /\ save.by \in {Nobody, SaveOf}
                          /\ pending \/ save = files[SaveOf]

\* Once the menu is up, every save ever made is on the card, but for what
\* the power switch took (sc64_init(), flashcart_load_save()).
ProgressKept ==
    phase \in {"grid"} \cup Steps => ~ pending /\ \A f \in Places : files[f].n = saved[f]

\* A play is counted when the game got onto the cartridge, once, and is on
\* the card before anything is done that the console may not come back from
\* (do_load()).
CountedOnce ==
    /\ \A g \in Games : recorded[g] <= loaded[g]
    /\ phase \in {"patch", "hook", "header", "hand", "game"} /\ ~ refused => recorded = loaded

\* The console is handed a whole image its header describes, closed to
\* writes, whose hook has an engine behind it; and one engine at most.
BootableImage ==
    phase = "game" =>
        /\ image.of = game /\ image.whole /\ image.header /\ ~ config.writable
        /\ image.hook <=> image.engine
        /\ ~ (cheats /\ image.engine)
=============================================================================
