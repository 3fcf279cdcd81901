------------------------------ MODULE LibIndex ------------------------------
(***************************************************************************)
(* The library and its index: src/library/library.c walks the card and     *)
(* builds a record per game, src/library/libindex.c keeps the result in    *)
(* library.idx with a signature per directory, and on the next boot        *)
(* believes it, repairs it directory by directory, or gives it up.         *)
(*                                                                         *)
(* The card is edited on a computer while the console is off.  While it is *)
(* on, the menu itself writes beside the games: a sidecar with the name a  *)
(* user typed, and a saves folder.                                         *)
(*                                                                         *)
(* Directories are numbered in the order of the walk.  The order of the    *)
(* records is left out: library_finish() sorts them.                       *)
(***************************************************************************)
EXTENDS Integers, FiniteSets, FiniteSetsExt, Functions, Bags

CONSTANTS
    Dirs,       \* 1 .. n, 1 is the root
    Parent,     \* [Dirs -> 0 .. n - 1]
    Depth,      \* [Dirs -> Nat]
    ScanDepth,  \* LIBRARY_SCAN_MAX_DEPTH
    MaxDirs,    \* SIG_MAX_DIRS
    Games,      \* games by the stem of their file
    N64,        \* those with an N64 header, and so with a game code
    Builds,     \* builds of a game: what replacing its file changes
    Header,     \* the title in a build's header
    NoName,     \* a header without a title, or one that cannot be read
    Typed,      \* the names a user may type
    MayName,    \* the names a user gives to games
    Size,       \* bytes of an entry
    MayHold,    \* the entries a directory may ever hold
    FirstCards, \* the cards a console may be switched on with
    LowMemory,  \* may one allocation fail?
    WriteFaults,\* may storage refuse a write?
    MaxEdits    \* bound: changes made to the card away from the console

Entries == [kind : {"rom"}, game : Games, is : Builds]
             \cup [kind : {"cover"}, game : Games, is : {"code", "name"}]
             \cup [kind : {"sidecar"}, game : Games, is : Typed]

ASSUME IndexAssumption ==
    /\ Dirs = 1 .. Cardinality(Dirs) /\ IsFiniteSet(Dirs)
    /\ Parent \in [Dirs -> 0 .. Cardinality(Dirs)] /\ \A d \in Dirs : Parent[d] < d
    /\ Depth \in [Dirs -> Nat]
    /\ N64 \subseteq Games /\ MayName \subseteq Games \X (Typed \cup {NoName})
    /\ Header \in [Games \X Builds -> Typed \cup {NoName}] /\ NoName \notin Typed \cup Games
    /\ Size \in [Entries -> Nat]
    /\ MayHold \in [Dirs -> SUBSET Entries]
    \* One file of a name in a directory.
    /\ \A c \in FirstCards :
        /\ c.dirs \subseteq Dirs /\ c.files \in [Dirs -> SUBSET Entries]
        /\ \A d \in Dirs : \A x, y \in c.files[d] :
              d \in c.dirs /\ (x.kind = y.kind /\ x.game = y.game /\ x.kind # "cover" => x = y)
    /\ MaxEdits \in Nat /\ ScanDepth \in Nat /\ MaxDirs \in Nat \ {0}

VARIABLES
    dirs,       \* directories on the card
    files,      \* what each holds
    saves,      \* directories with a saves folder
    pack,       \* games the art pack in /metadata has a cover for
    index,      \* library.idx: none, torn, or whole
    phase,      \* where the boot, or the way out, has got to
    lib,        \* lib->records, a bag
    dirty,      \* lib->dirty
    writable,   \* what the probe of this boot answered
    starved,    \* an allocation has failed since the console was new
    settled,    \* the last index was written whole, and no name was typed since
    edits

card == <<dirs, files, saves, pack>>
vars == <<card, index, phase, lib, dirty, writable, starved, settled, edits>>

Phases == {"off", "scan", "save", "write", "on", "exit", "exitWrite"}

-----------------------------------------------------------------------------
(* The walk.                                                               *)

Walked == {d \in dirs : Depth[d] <= ScanDepth}

\* Mutant: the saves folder is an entry like any other.
SignatureWithSaves(d) ==
    [entries |-> Cardinality(files[d]) + Cardinality({k \in dirs : Parent[k] = d}) + (IF d \in saves THEN 1 ELSE 0),
     size    |-> SumFunctionOnSet(Size, files[d])]

\* Reserved folders, saves among them, count for nothing.
Signature(d) ==
    [entries |-> Cardinality(files[d]) + Cardinality({k \in dirs : Parent[k] = d}),
     size    |-> SumFunctionOnSet(Size, files[d])]

WalkFits == Cardinality(Walked) <= MaxDirs

Walk == [d \in Walked |-> Signature(d)]

-----------------------------------------------------------------------------
(* The scan.                                                               *)

NoArt == [at |-> 0, is |-> "none"]
Loose(d, how) == [at |-> d, is |-> how]
Packed == [at |-> 0, is |-> "pack"]

\* What a game is called before the rest of the library is known.
TypedFor(d, g) == {e.is : e \in {x \in files[d] : x.kind = "sidecar" /\ x.game = g}}

Given(d, g, b) ==
    IF g \in N64 /\ TypedFor(d, g) # {} THEN CHOOSE n \in TypedFor(d, g) : TRUE
    ELSE IF g \in N64 /\ Header[g, b] # NoName THEN Header[g, b]
    ELSE g

NewRecord(d, e) ==
    [dir |-> d, game |-> e.game, build |-> e.is,
     given |-> Given(d, e.game, e.is),
     custom |-> e.game \in N64 /\ TypedFor(d, e.game) # {},
     title |-> NoName, art |-> NoArt, missing |-> FALSE]

ScanDir(d) == {NewRecord(d, e) : e \in {x \in files[d] : x.kind = "rom"}}

\* The bag of f[r] for the r of a bag.
Mapped(f, B) == [x \in Range(f) |-> SumFunctionOnSet(B, {r \in DOMAIN B : f[r] = x})]

Scan(S) == SetToBag(UNION {ScanDir(d) : d \in S})

\* The covers of the whole walk; the first directory that has one wins, the
\* code before the file's name.
CoverDirs(g, how) == {d \in Walked : [kind |-> "cover", game |-> g, is |-> how] \in files[d]}

FindArt(g) ==
    IF g \in N64 /\ CoverDirs(g, "code") # {} THEN Loose(Min(CoverDirs(g, "code")), "code")
    ELSE IF CoverDirs(g, "name") # {} THEN Loose(Min(CoverDirs(g, "name")), "name")
    ELSE NoArt

\* Mutant: only the covers beside the game.
ResolveBeside(r) ==
    IF r.art = NoArt /\ FindArt(r.game) # NoArt /\ FindArt(r.game).at = r.dir
    THEN [r EXCEPT !.art = FindArt(r.game), !.missing = FALSE]
    ELSE r

ResolveArt(r) ==
    IF r.art = NoArt /\ FindArt(r.game) # NoArt
    THEN [r EXCEPT !.art = FindArt(r.game), !.missing = FALSE]
    ELSE r

\* Two games with one name are told apart by their files, unless the user
\* named them.
Collides(B, r) ==
    /\ ~ r.custom
    /\ \E o \in BagToSet(B) : ~ o.custom /\ o.given = r.given /\ (o # r \/ B[o] > 1)

\* Mutant: a title once given is kept.
TitledOnce(B, r) ==
    IF r.title # NoName THEN r
    ELSE [r EXCEPT !.title = IF Collides(B, r) THEN r.game ELSE r.given]

Titled(B, r) == [r EXCEPT !.title = IF Collides(B, r) THEN r.game ELSE r.given]

Finish(B) == Mapped([r \in BagToSet(B) |-> Titled(B, r)], B)

Resolved(B) == Mapped([r \in BagToSet(B) |-> ResolveArt(r)], B)

FullScan == Finish(Resolved(Scan(Walked)))

\* An allocation failed: the scan goes on without the one record, the load
\* of an index that holds stops there.
Short(B) == {B} \cup IF LowMemory /\ ~ starved THEN {B (-) SetToBag({r}) : r \in BagToSet(B)} ELSE {}
Begun(B) == {B} \cup IF LowMemory /\ ~ starved
                    THEN {RestrictDomain(B, LAMBDA r : r \in S) : S \in SUBSET BagToSet(B)} ELSE {}

-----------------------------------------------------------------------------
(* The index.                                                              *)

Index(state, ss, recs) == [state |-> state, sigs |-> ss, recs |-> recs]
NoIndex == Index("none", <<>>, EmptyBag)
TornIndex == Index("torn", <<>>, EmptyBag)
IsWhole(i) == i.state = "whole"

\* Titles are given again on every load; art that was being looked for is
\* pending again, art known to be missing is not.
Stored(B) == Mapped([r \in BagToSet(B) |-> [r EXCEPT !.title = NoName]], B)

\* Mutant: any directory the file knows is believed.
UnchangedByName == DOMAIN index.sigs \cap Walked

Unchanged == {d \in DOMAIN index.sigs \cap Walked : index.sigs[d] = Signature(d)}

Kept == RestrictDomain(index.recs, LAMBDA r : r.dir \in Unchanged)

Repaired == Finish(Resolved(Kept (+) Scan(Walked \ Unchanged)))

CanRepair == WalkFits /\ Unchanged # {}

MenuGone ==
    /\ phase' = "off"
    /\ lib' = EmptyBag /\ dirty' = FALSE /\ writable' = TRUE

SwitchOn ==
    /\ phase = "off"
    /\ writable' \in (IF WriteFaults THEN BOOLEAN ELSE {TRUE})
    /\ dirty' = FALSE

\* No file, or one that fails its checks and is removed.
LoadNothing ==
    /\ SwitchOn
    /\ ~ IsWhole(index)
    /\ index' \in {NoIndex} \cup IF writable' THEN {} ELSE {index}
    /\ phase' = "scan"
    /\ lib' = EmptyBag
    /\ UNCHANGED <<card, starved, settled, edits>>

\* Every directory is as it was.
LoadAsIs ==
    /\ SwitchOn
    /\ IsWhole(index) /\ WalkFits /\ Walk = index.sigs
    /\ \E B \in Begun(index.recs) :
        /\ lib' = Finish(B)
        /\ starved' = (starved \/ B # index.recs)
        /\ phase' = IF B # EmptyBag THEN "on" ELSE "scan"
    /\ UNCHANGED <<card, index, settled, edits>>

\* Some are; the others are scanned, and the result is written back.
Repair ==
    /\ SwitchOn
    /\ IsWhole(index) /\ (WalkFits => Walk # index.sigs) /\ CanRepair
    /\ lib' = Repaired
    /\ phase' = IF lib' = EmptyBag THEN "scan" ELSE "save"
    /\ UNCHANGED <<card, index, starved, settled, edits>>

\* A record could not be loaded: what was loaded is let go.
RepairAbandoned ==
    /\ SwitchOn
    /\ IsWhole(index) /\ (WalkFits => Walk # index.sigs) /\ CanRepair
    /\ LowMemory /\ ~ starved
    /\ starved' = TRUE
    /\ lib' = EmptyBag
    /\ phase' = "scan"
    /\ UNCHANGED <<card, index, settled, edits>>

\* None is, or there are too many to look at.
GiveUp ==
    /\ SwitchOn
    /\ IsWhole(index) /\ (WalkFits => Walk # index.sigs) /\ ~ CanRepair
    /\ lib' = EmptyBag
    /\ phase' = "scan"
    /\ UNCHANGED <<card, index, starved, settled, edits>>

FullScanDone ==
    /\ phase = "scan"
    /\ \E B \in Short(Scan(Walked)) :
        /\ lib' = Finish(Resolved(lib (+) B))
        /\ starved' = (starved \/ B # Scan(Walked))
    /\ phase' = IF WalkFits THEN "save" ELSE "on"
    /\ UNCHANGED <<card, index, dirty, writable, settled, edits>>

-----------------------------------------------------------------------------
(* The save.  cache_store() truncates the file, writes it and, when that   *)
(* fails, removes it.                                                      *)

\* The boot goes on, or the console leaves the menu and its memory is gone.
SaveDone ==
    \/ /\ phase \in {"save", "write"}
       /\ phase' = "on"
       /\ UNCHANGED <<lib, dirty, writable>>
    \/ /\ phase \in {"exit", "exitWrite"}
       /\ MenuGone

SaveRefused ==
    /\ phase \in {"save", "exit"}
    /\ ~ writable \/ lib = EmptyBag \/ WriteFaults
    /\ SaveDone
    /\ UNCHANGED <<card, index, starved, settled, edits>>

SaveStarts ==
    /\ phase \in {"save", "exit"}
    /\ writable /\ lib # EmptyBag
    /\ index' = TornIndex
    /\ settled' = FALSE
    /\ phase' = IF phase = "save" THEN "write" ELSE "exitWrite"
    /\ UNCHANGED <<card, lib, dirty, writable, starved, edits>>

SaveEnds ==
    /\ phase \in {"write", "exitWrite"}
    /\ index' = Index("whole", Walk, Stored(lib))
    /\ settled' = TRUE
    /\ SaveDone
    /\ UNCHANGED <<card, starved, edits>>

SaveFails ==
    /\ phase \in {"write", "exitWrite"} /\ WriteFaults
    /\ index' = NoIndex
    /\ SaveDone
    /\ UNCHANGED <<card, starved, settled, edits>>

-----------------------------------------------------------------------------
(* The session.                                                            *)

ArtIsThere(r) ==
    IF r.art = Packed THEN r.game \in pack
    ELSE r.art # NoArt /\ r.art.at \in dirs
           /\ [kind |-> "cover", game |-> r.game, is |-> r.art.is] \in files[r.art.at]

Replace(r, s) == (lib (-) SetToBag({r})) (+) SetToBag({s})

\* The grid asks for a title's art.  A cover of the pack is remembered
\* without a word to the index.
LookUpArt(r) ==
    /\ phase = "on" /\ r \in BagToSet(lib) /\ ~ r.missing
    /\ \/ /\ r.art = NoArt /\ r.game \in N64 \cap pack
          /\ lib' = Replace(r, [r EXCEPT !.art = Packed])
          /\ UNCHANGED dirty
       \/ /\ IF r.art = NoArt THEN r.game \notin N64 \cap pack ELSE ~ ArtIsThere(r)
          /\ lib' = Replace(r, [r EXCEPT !.missing = TRUE])
          /\ dirty' = TRUE
    /\ UNCHANGED <<card, index, phase, writable, starved, settled, edits>>

Sidecars(g) == {e \in Entries : e.kind = "sidecar" /\ e.game = g}

\* library_set_title(): the sidecar first, then the record, then every title.
Rename(r, name) ==
    /\ phase = "on" /\ r \in BagToSet(lib) /\ <<r.game, name>> \in MayName
    /\ writable
    /\ files' = [files EXCEPT ![r.dir] =
          (@ \ Sidecars(r.game)) \cup (IF name = NoName THEN {} ELSE {[kind |-> "sidecar", game |-> r.game, is |-> name]})]
    /\ lib' = Finish(Replace(r, [r EXCEPT
          !.custom = name # NoName,
          !.given  = IF name # NoName THEN name
                     ELSE IF r.game \in N64 /\ Header[r.game, r.build] # NoName
                     THEN Header[r.game, r.build] ELSE r.game]))
    /\ dirty' = TRUE
    /\ settled' = FALSE
    /\ UNCHANGED <<dirs, saves, pack, index, phase, writable, starved, edits>>

\* Starting a game creates saves beside it; then app_deinit() runs.
Play(r) ==
    /\ phase = "on" /\ r \in BagToSet(lib)
    /\ saves' = saves \cup IF writable THEN {r.dir} ELSE {}
    /\ \/ /\ dirty /\ WalkFits
          /\ phase' = "exit"
          /\ UNCHANGED <<lib, dirty, writable>>
       \/ /\ ~ (dirty /\ WalkFits)
          /\ MenuGone
    /\ UNCHANGED <<dirs, files, pack, index, starved, settled, edits>>

PowerCut ==
    /\ phase # "off"
    /\ MenuGone
    /\ UNCHANGED <<card, index, starved, settled, edits>>

-----------------------------------------------------------------------------
(* The card in a computer.                                                 *)

Edit ==
    /\ phase = "off" /\ edits < MaxEdits
    /\ edits' = edits + 1
    /\ settled' = FALSE
    /\ UNCHANGED <<index, phase, lib, dirty, writable, starved, saves>>

PutFile(d, e) ==
    /\ Edit
    /\ d \in dirs /\ e \in MayHold[d] \ files[d]
    \* One file of a name: a new build replaces the old.
    /\ files' = [files EXCEPT ![d] =
          {x \in @ : ~ (x.kind = e.kind /\ x.game = e.game /\ e.kind # "cover")} \cup {e}]
    /\ UNCHANGED <<dirs, pack>>

DropFile(d, e) ==
    /\ Edit
    /\ d \in dirs /\ e \in files[d]
    /\ files' = [files EXCEPT ![d] = @ \ {e}]
    /\ UNCHANGED <<dirs, pack>>

MakeDir(d) ==
    /\ Edit
    /\ d \notin dirs /\ Parent[d] \in dirs
    /\ dirs' = dirs \cup {d}
    /\ UNCHANGED <<files, pack>>

DropDir(d) ==
    /\ Edit
    /\ d \in dirs \ {1} /\ \A k \in dirs : Parent[k] # d
    /\ dirs' = dirs \ {d}
    /\ files' = [files EXCEPT ![d] = {}]
    /\ UNCHANGED pack

InstallPack(g) ==
    /\ Edit
    /\ g \in N64 \ pack
    /\ pack' = pack \cup {g}
    /\ UNCHANGED <<dirs, files>>

-----------------------------------------------------------------------------
Init ==
    /\ \E c \in FirstCards : dirs = c.dirs /\ files = c.files
    /\ saves = {} /\ pack = {}
    /\ index = NoIndex /\ phase = "off" /\ lib = EmptyBag
    /\ dirty = FALSE /\ writable = TRUE
    /\ starved = FALSE /\ settled = FALSE /\ edits = 0

Next ==
    \/ LoadNothing \/ LoadAsIs \/ Repair \/ RepairAbandoned \/ GiveUp \/ FullScanDone
    \/ SaveRefused \/ SaveStarts \/ SaveEnds \/ SaveFails
    \/ \E r \in BagToSet(lib) : LookUpArt(r) \/ Play(r) \/ \E n \in Typed \cup {NoName} : Rename(r, n)
    \/ PowerCut
    \/ \E d \in Dirs : MakeDir(d) \/ DropDir(d) \/ \E e \in MayHold[d] : PutFile(d, e) \/ DropFile(d, e)
    \/ \E g \in Games : InstallPack(g)

Spec == Init /\ [][Next]_vars

-----------------------------------------------------------------------------
(* Properties.                                                             *)

RecordSet == [dir : Dirs, game : Games, build : Builds, given : Typed \cup Games,
              custom : BOOLEAN, title : Typed \cup Games \cup {NoName},
              art : {NoArt, Packed} \cup [at : Dirs, is : {"code", "name"}], missing : BOOLEAN]

\* Every variable has its type; the records are a bag, and each has a title.
TypeOK ==
    /\ dirs \subseteq Dirs
    /\ \A d \in Dirs : files[d] \subseteq Entries /\ (d \notin dirs => files[d] = {})
    /\ saves \subseteq Dirs /\ pack \subseteq N64
    /\ IsWhole(index) => DOMAIN index.recs \subseteq RecordSet /\ DOMAIN index.sigs \subseteq Dirs
    /\ phase \in Phases
    /\ IsABag(lib) /\ DOMAIN lib \subseteq {r \in RecordSet : r.title # NoName}
    /\ {dirty, writable, starved, settled} \subseteq BOOLEAN
    /\ edits \in 0 .. MaxEdits

\* What the user sees of a record, its art aside.
Facts(r) == <<r.dir, r.game, r.build, r.given, r.custom, r.title>>
Seen(B) == {Facts(r) : r \in BagToSet(B)}

\* A boot that is short of memory may leave games out.  It never shows one
\* twice, nor one that is not there (libindex.c's merge and its way back).
NoneTwiceNoneInvented ==
    phase = "on" =>
        /\ \A r, s \in BagToSet(lib) : r.dir = s.dir /\ r.game = s.game => r = s /\ lib[r] = 1
        /\ \A r \in BagToSet(lib) : [kind |-> "rom", game |-> r.game, is |-> r.build] \in files[r.dir]

\* However the library was put together, from the index, from a repair of it
\* or from the card, it lists what a scan of the whole card would list, under
\* the titles a scan would give, each once (library.c, libindex.c).
LibraryIsTheCard ==
    /\ TypeOK /\ NoneTwiceNoneInvented
    /\ (phase = "on" /\ ~ starved) => Seen(lib) = Seen(FullScan)

\* A title without art has no picture anywhere in the walk, whichever
\* directory of the two was read again (library_resolve_loose_art()).
NoCoverOverlooked ==
    phase = "on" => \A r \in BagToSet(lib) : r.art = NoArt => FindArt(r.game) = NoArt

\* Once written, the index holds for the next boot whatever is played and
\* looked at: saves and the cache are not the card's contents
\* (library_scan_skipped(), save_with_sigs()).
SettledStaysSettled ==
    settled => IsWhole(index) /\ index.sigs = Walk
=============================================================================
