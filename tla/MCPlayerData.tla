----------------------------- MODULE MCPlayerData -----------------------------
(***************************************************************************)
(* Instances of PlayerData for TLC; and what holds of the files the menu   *)
(* keeps and reads - text files, paths, settings, box shapes, what is known *)
(* of a cartridge - over all their inputs within small bounds, or with     *)
(* their real sizes where these are named.                                 *)
(***************************************************************************)
EXTENDS PlayerData, Sequences, SequencesExt, TLC

CONSTANTS mario, zelda, n64, nes

TwoGames == {1, 2}
TwoKeys == [g \in Games |-> IF g = 1 THEN mario ELSE zelda]
TwoFolders == [g \in Games |-> IF g = 1 THEN n64 ELSE nes]

Complete == {Games}
AnyLibrary == SUBSET Games

\* A view of everything but the saves beside the games and who did what: no
\* step depends on them where nobody is deleted, and neither do CleanMeansSaved
\* (but for their types) and PlayedIsNewest.
WithoutSaves ==
    <<on, ram, [i \in DOMAIN todo |-> IF todo[i].at[1] = "saves" THEN Write(todo[i].at, {}) ELSE todo[i]],
      [f \in {g \in Places : g[1] # "saves"} |-> disk[f]]>>

-----------------------------------------------------------------------------
Words(chars, n) == UNION {[1 .. k -> chars] : k \in 0 .. n}

(***************************************************************************)
(* Text files, with the real limits and with small ones.                   *)
(***************************************************************************)
I == INSTANCE IniFile WITH MaxSections <- 8, MaxPairs <- 64, MaxName <- 63, MaxValue <- 255
T == INSTANCE IniFile WITH MaxSections <- 2, MaxPairs <- 2, MaxName <- 2, MaxValue <- 3

Sections == {<<>>, <<"s">>, <<"t">>}
OneKey == {<<"k">>, <<"l">>}

\* Whatever text a value is - blanks, quotes, backslashes, a remark's sign - it
\* is read back as it was set; so is a file of several, and writing it again
\* writes the same (ini_parser.c:576, 589).
ASSUME WhatIsSetIsRead ==
    /\ \A v \in Words({"a", " ", ";", "\"", "'", "\\", "="}, 4) :
           I!GetString(I!Parse(I!Save(I!Set(I!NoFile, <<"s">>, <<"k">>, v))), <<"s">>, <<"k">>, <<"none">>) = v
    /\ \A s1, s2 \in Sections, k1, k2 \in OneKey, v1, v2 \in {<<>>, <<"a">>, <<" ", ";">>} :
           LET ini == I!Set(I!Set(I!NoFile, s1, k1, v1), s2, k2, v2)
               again == I!TryLoad(I!Readable(I!Save(ini)))
           IN  /\ \A s \in Sections, k \in OneKey :
                      I!GetString(again, s, k, <<"none">>) = I!GetString(ini, s, k, <<"none">>)
               /\ I!Save(again) = I!Save(ini)

\* A deleted key stays deleted, and the others stay.
ASSUME DeletedIsGone ==
    \A s1, s2 \in Sections, k1, k2 \in OneKey :
        LET ini == I!Set(I!Set(I!NoFile, s1, k1, <<"a">>), s2, k2, <<"b">>)
            again == I!TryLoad(I!Readable(I!Save(I!Delete(ini, s1, k1))))
        IN  /\ I!GetString(again, s1, k1, <<"none">>) = <<"none">>
            /\ <<s1, k1>> # <<s2, k2>> => I!GetString(again, s2, k2, <<"none">>) = <<"b">>
            /\ I!TryLoad(I!Unreadable) = I!NoFile
        /\ I!IsEmpty(again) <=> <<s1, k1>> = <<s2, k2>>

\* Whatever a text says, what is read keeps to the limits, has no section and
\* no key twice, and is read the same once it was written again.
ASSUME AnyTextIsRead ==
    \A line \in Words({"a", "=", "[", "]", ";", "\""}, 5), more \in {<<>>, <<"b", "=", "c">>} :
        LET ini == T!Parse(<<line, more>>)
        IN  /\ Len(ini) <= 2 /\ \A i \in DOMAIN ini : Len(ini[i].pairs) <= 2
            /\ IsInjective([i \in DOMAIN ini |-> ini[i].name])
            /\ \A i \in DOMAIN ini : IsInjective([j \in DOMAIN ini[i].pairs |-> ini[i].pairs[j].key])

\* The players' file needs a section for itself and one for each of ten players
\* (profile.c:378-400); there is room for eight.  The eighth, ninth and tenth
\* player are not in it.
Player == <<"p1", "p2", "p3", "p4", "p5", "p6", "p7", "p8", "p9", "p10">>
Roster(n) == FoldLeft(LAMBDA ini, p : I!Set(ini, <<p>>, <<"used">>, <<"1">>),
                      I!Set(I!NoFile, <<"profiles">>, <<"version">>, <<"2">>), SubSeq(Player, 1, n))
ASSUME SevenPlayersAreKept ==
    \A n \in 1 .. 10 :
        {p \in 1 .. 10 : I!GetString(I!Parse(I!Save(Roster(n))), <<Player[p]>>, <<"used">>, <<"0">>) = <<"1">>}
            = {p \in 1 .. 7 : p <= n}

(***************************************************************************)
(* Paths, with a buffer of eight that grows by four.                       *)
(***************************************************************************)
P == INSTANCE Paths WITH Smallest <- 7, Aligned <- 4
Leaves == Words({"a", "."}, 3) \ {<<>>}
Roots == {P!Opened(<<>>, <<>>), P!Opened(<<"s", ":", "/">>, <<>>), P!Opened(<<"s", ":">>, <<>>)}

\* Down and up again is back where it was, the name on the way is the one that
\* was asked for, and up stops at the root - however the storage is spelt.
ASSUME DownAndUp ==
    \A root \in Roots : \A d, f \in Leaves :
        LET p == P!Push(P!Push(root, d), <<"/">> \o f)
        IN  /\ P!IsRoot(root) /\ P!Pop(root) = root
            /\ P!LastName(p) = f /\ P!LastName(P!Pop(p)) = d
            /\ P!Pop(p).buf = P!Push(root, d).buf /\ P!Pop(P!Pop(p)).buf = root.buf

\* A save goes into a directory beside its game and keeps its name, but for the
\* extension (cart_load.c); the game's name is not touched.
ASSUME BesideTheGame ==
    \A root \in Roots : \A d, stem \in {<<"a">>, <<"a", "b">>} : \A dir \in {<<"d">>, <<"d", ".", "e">>} :
        LET p == P!Push(P!Push(root, dir), stem \o <<".", "z">>)
            save == P!ExtReplaced(P!PushSubdir(p, d), <<"s", "v">>)
        IN  /\ P!LastName(save) = stem \o <<".", "s", "v">> /\ P!LastName(P!Pop(save)) = d
            /\ P!Pop(P!Pop(save)).buf = P!Pop(p).buf
            /\ P!ExtRemoved(P!ExtRemoved(p)) = P!ExtRemoved(p)

\* The buffer always holds the text.  A path that outgrew the buffer it began
\* with has its root in the old one (path.c:28, 61); a copy does not.
ASSUME BufferHolds ==
    \A root \in Roots : \A d, f \in Leaves :
        LET p == P!Push(P!Push(root, d), f)
        IN  /\ Len(p.buf) <= p.capacity
            /\ p.lost <=> Len(p.buf) > root.capacity
            /\ ~ P!Clone(p).lost

(***************************************************************************)
(* Settings.                                                               *)
(***************************************************************************)
S == INSTANCE Settings
SomeSettings ==
    {[S!Defaults EXCEPT !["sfx_volume"] = v, !["music_track"] = t, !["pal60"] = b, !["cheat_engine"] = e,
                        !["boxart_region"] = r] :
        v \in {0, 10}, t \in {-1, 3}, b \in BOOLEAN, e \in {"classic", "cartridge"}, r \in {"NTSC", "pal"}}

\* What is set is what the next boot has; a card without the file has the
\* defaults, and the three settings nobody can change always do.
ASSUME SettingsAreKept ==
    /\ \A s \in SomeSettings : S!Load(S!Save(s)) = s
    /\ \A f \in S!Unwritten : \A s \in SomeSettings :
           S!Load(S!Save([s EXCEPT ![f] = ~ @]))[f] = S!Defaults[f]
    /\ S!Booted(FALSE, S!NoOptions(S!Keys)) = S!Defaults

\* Any line may be missing or be nonsense: the others are read as they are, the
\* volumes stay between nothing and ten, and the old switch is off until a
\* volume was set (settings.c:86-99).
ASSUME DamagedSettings ==
    \A k \in S!Keys : \A v \in {S!Absent, S!Word("what"), S!Number(-5), S!Number(99)} :
        LET f == [S!Save(S!Defaults) EXCEPT ![k] = v]
        IN  /\ \A g \in S!Fields \ {k} : S!Load(f)[g] = S!Defaults[g]
            /\ \A g \in S!Volumes : S!Load(f)[g] \in 0 .. 10
            /\ S!Load([f EXCEPT !["soundfx_enabled"] = S!Bool(FALSE), !["sfx_volume"] = S!Absent])["sfx_volume"] = 0
            /\ S!Load([f EXCEPT !["soundfx_enabled"] = S!Bool(FALSE), !["sfx_volume"] = S!Number(4)])["sfx_volume"] = 4

(***************************************************************************)
(* Box shapes, with the real geometry.                                     *)
(***************************************************************************)
B == INSTANCE BoxShape
Ratios == (1 .. 40) \X (1 .. 40)
Drawn == {B!ShapeAt(B!Kinds[i]) : i \in 1 .. 3} \cup {B!ShapeFrom(B!Builtin[sys]) : sys \in B!Systems}

\* The shapes are what theme.h:84-86 says they are, and four or five of them
\* and their gaps are a row.
ASSUME ShapesAreTheirs ==
    /\ <<B!WideW, B!NarrowW, B!TwoRowH>> = <<140, 109, 162>>
    /\ [i \in 1 .. 3 |-> B!ShapeAt(B!Kinds[i])]
        = <<[w |-> 109, h |-> 155], [w |-> 140, h |-> 140], [w |-> 140, h |-> 98]>>
    /\ \A s \in Drawn : LET n == (B!GridW + B!Gap) \div (s.w + B!Gap)
                         IN  n \in {4, 5} /\ n * s.w + (n - 1) * B!Gap <= B!GridW

\* Every shape keeps to its bounds, a narrower picture is never in a wider
\* column, and a spec is refused exactly when it would have had to be clamped.
ASSUME ShapesFit ==
    /\ \A a \in Ratios :
           LET s == B!FitAspect(a)
               fits == B!HeightAt(s.w, a) \in B!MinH .. B!MaxH
           IN  /\ s.w \in {B!WideW, B!NarrowW} /\ s.h \in B!MinH .. B!MaxH
               /\ s.w = B!WideW => s.h <= B!TwoRowH
               /\ B!ShapeFrom(a) = IF fits THEN s ELSE B!None
    /\ \A w \in 1 .. 40, h \in 1 .. 39 : B!FitAspect(<<w, h + 1>>).w <= B!FitAspect(<<w, h>>).w

\* In a cell of the tallest of them no shape is drawn larger than it is: of the
\* three, and of the built-in table, as theme.h:95 says.  A file's section may
\* ask for one that is: a 17 : 20 box, narrow and yet lower than a square.
Upscaled(s, cell) == B!FitInto(s, cell.w, cell.h).w > s.w
ASSUME NothingIsUpscaled ==
    /\ \A s, cell \in Drawn : s.h <= cell.h => ~ Upscaled(s, cell)
    /\ B!ShapeFrom(<<17, 20>>).h < B!ShapeAt("square").h
    /\ Upscaled(B!ShapeFrom(<<17, 20>>), B!ShapeAt("square"))

\* Whatever shape a spec may give a tile, a slot is large enough for it, and a
\* pool that is not at its least leaves its reserve free (memprofile.c:76).
ASSUME EverySlotHoldsATile ==
    /\ \A a \in Ratios, small \in BOOLEAN :
           LET s == B!StoreShape(B!FitAspect(a), small) IN s.w > 0 /\ s.h > 0 /\ s.w * s.h * 2 <= B!WorstTileBytes(small)
    /\ \A k \in -3 .. 60, odd \in {-1, 0, 1}, small \in BOOLEAN :
           LET free == B!Reserve + k * B!WorstTileBytes(small) + odd
               n == B!ThumbSlots(free, small)
           IN  /\ n \in B!FewestSlots .. B!MostSlots
               /\ n = B!FewestSlots \/ n * B!WorstTileBytes(small) + B!Reserve <= free
               /\ n = B!MostSlots \/ (n + 1) * B!WorstTileBytes(small) + B!Reserve > free

\* A picture that has one of the shapes gets that one; turning every picture on
\* its side never makes it the taller kind.
ASSUME SnapsToItsOwn ==
    /\ \A i \in 1 .. 3 : B!Snap(B!Aspect[B!Kinds[i]][1], B!Aspect[B!Kinds[i]][2]) = B!Kinds[i]
    /\ \A a \in Ratios : a[1] >= a[2] => B!Snap(a[1], a[2]) # "portrait"
    /\ B!Snap(0, 5) = "unknown"

\* The region in use is saved by its name and found again at the next boot,
\* unless a section took the name of another; a section that says nothing good
\* of a system leaves it as it is.
Section(name, specs) == [name |-> name, fits |-> TRUE, specs |-> specs]
ASSUME RegionsAreKept ==
    /\ \A n \in 0 .. 8 : \A same \in BOOLEAN :
           LET sections == [i \in 1 .. n |-> Section(IF same /\ i = 1 THEN "NTSC" ELSE <<"p", "q", "r", "s", "t", "u", "v", "w">>[i], <<>>)]
               names == B!Regions(sections)
           IN  /\ Len(names) <= B!MaxRegions
               /\ \A i \in DOMAIN names : B!Wanted(names, names[i]) = IF same /\ i = 3 THEN 2 ELSE i
    /\ \A spec \in {<<>>, <<0, 5>>, <<100, 1>>, <<1, 100>>, <<126, 126>>} :
           LET table == B!Table(<<Section("pal", [nes |-> spec])>>, <<"Automatic", "NTSC", "pal">>, 3)
           IN  /\ table["nes"] = IF spec = <<126, 126>> THEN [w |-> 140, h |-> 140] ELSE B!ShapeFrom(B!Builtin["nes"])
               /\ \A sys \in B!Systems \ {"nes"} : table[sys] = B!ShapeFrom(B!Builtin[sys])
               /\ B!Tallest(table).h = 155

(***************************************************************************)
(* What is known of a cartridge, with the whole table.                     *)
(***************************************************************************)
R == INSTANCE RomInfo
Header(id, region, version) ==
    [id |-> id, region |-> region, version |-> version, code |-> "none", ed |-> FALSE]
Titles == UNION {R!Database[i].ids : i \in {j \in DOMAIN R!Database : R!Database[j].by = "game"}}

\* A region's or a release's own row is found before its game's, and every
\* other row is found for each of its games: no row is there in vain, but for
\* the second rows of two games that are listed twice and do not say the same.
ListedTwice == {"NDQ", "NYW"}
ASSUME EveryRowIsFound ==
    \A i \in DOMAIN R!Database :
        LET r == R!Database[i]
        IN  \A id \in r.ids :
                LET h == IF r.by = "image" THEN [Header("", "E", 0) EXCEPT !.code = id]
                         ELSE Header(id, IF r.by = "game" THEN "K" ELSE r.region, r.version)
                IN  R!RowOf(h) = r \/ (id \in ListedTwice /\ r.save = "none" /\ R!RowOf(h).save # "none")

\* A title's save type does not depend on its release or region, but for the
\* five whose Japanese cartridge differs.
ASSUME SavesByRegion ==
    {id \in Titles : \E region \in {"E", "J", "P"}, v \in 0 .. 3 :
        R!RowOf(Header(id, region, v)).save # R!RowOf(Header(id, "K", 0)).save}
    = {"NK4", "N3H", "ND3", "ND4", "NWT"}

\* However an image's bytes are stored the same header is read.
BigHeader == <<128, 55, 18, 64, 1, 2, 3, 4, 5, 6, 7, 8>>
Stored(e) == [i \in DOMAIN BigHeader |-> BigHeader[R!Source(e, i - 1) + 1]]
ASSUME AnyByteOrder ==
    \A e \in {"big", "little", "swapped"} : R!Endianness(Stored(e)) = e /\ R!Fixed(Stored(e)) = BigHeader

\* Only homebrew says itself what it saves to, within the kinds there are; a
\* pak that is required is never only recommended.
ASSUME HomebrewSays ==
    \A v \in 0 .. 255 :
        /\ R!SaveType(R!Homebrew, v) = "none" <=> v \div 16 \notin 1 .. 6
        /\ "rtc" \in R!Features(R!Homebrew, v) <=> v % 2 = 1
        /\ R!SaveType(R!RowOf(Header("NB7", "E", v)), v) = "eeprom16k"

\* What is overridden is what the next start uses, whatever stood in the file;
\* taking it back finds what was detected.  The other options stay, and a file
\* with nothing left goes (rom_info.c:1228-1303) - unless it could not be read:
\* then it is written over and they are gone.
NoIni == [there |-> FALSE, readable |-> FALSE, options |-> R!NoOptions(R!OptionKeys)]
Beside(ini) == [ini |-> ini, archive |-> {}, flat |-> [there |-> FALSE, says |-> {}]]
Read(ini) == R!ConfigOf(Beside(ini), R!NotLent)
Inis == {R!Rename(R!Override(ini, "tv_type", tv), name) :
            ini \in {NoIni, R!Override(NoIni, "cic_type", 6105), R!SetCheats(NoIni, TRUE)},
            tv \in {-1, 1}, name \in {"", "mine"}}
ASSUME OptionsAreKept ==
    \A ini \in Inis : \A save \in {-1, 0, 3} :
        LET after == R!Override(ini, "save_type", save)
            lost == R!Override([ini EXCEPT !.readable = FALSE], "save_type", save)
        IN  /\ R!Effective(Read(after).save, 7) = IF save = -1 THEN 7 ELSE save
            /\ Read(after) = [Read(ini) EXCEPT !.save = save]
            /\ after.there <=> \E k \in R!OptionKeys : after.options[k] # R!Absent
            /\ Read(R!Rename(after, "")).name = "" /\ Read(R!Rename(after, "new")).name = "new"
            /\ R!SeedIsDetected(Read(after)) <=> Read(ini).cic = -1
            /\ Read(lost) = [Read(NoIni) EXCEPT !.save = save]

\* The cheats' switch is written as a number and read as a word would be: one is
\* a yes, and a no is not written at all.
ASSUME CheatsAreKept ==
    \A ini \in Inis : \A yes \in BOOLEAN : Read(R!SetCheats(ini, yes)).cheats = yes

\* Lending the directory's names changes nothing but the time (rom_info.h:
\* "Purely an optimisation"): what is there is found, what is not is not.
\* A file beside the game wins over the pack, and what it carries is asked only
\* when nobody gave it a name.
Meta(name) == [R!NoMeta EXCEPT !["name"] = name, !["author"] = "x"]
Files == {f \in [ini : {NoIni, R!SetCheats(NoIni, TRUE)}, archive : {{}, {Meta("zip")}},
                 flat : {[there |-> FALSE, says |-> {}], [there |-> TRUE, says |-> {Meta("flat")}],
                         [there |-> TRUE, says |-> {Meta("")}], [there |-> TRUE, says |-> {}]}] : TRUE}
NamesOf(f) == (IF f.ini.there THEN {"ini"} ELSE {}) \cup (IF f.archive # {} THEN {"meta"} ELSE {})
              \cup (IF f.flat.there THEN {"metadata.ini"} ELSE {})
ASSUME ListingIsEnough ==
    \A f \in Files : \A pack \in {[there |-> FALSE, says |-> {}], [there |-> TRUE, says |-> {Meta("pack")}]} :
        \A inside \in {[flag |-> b, says |-> m] : b \in BOOLEAN, m \in {{}, {Meta("inside")}}} :
            LET m == R!MetaOf(f, pack, inside, R!NotLent)
            IN  /\ R!MetaOf(f, pack, inside, R!Lent(NamesOf(f))) = m
                /\ R!ConfigOf(f, R!Lent(NamesOf(f))) = R!ConfigOf(f, R!NotLent)
                /\ m["name"] = CASE f.archive # {} -> "zip"
                                 [] f.archive = {} /\ f.flat.says = {Meta("flat")} -> "flat"
                                 [] f.archive = {} /\ ~ f.flat.there /\ pack.there -> "pack"
                                 [] OTHER -> IF inside.flag /\ inside.says # {} THEN "inside" ELSE ""
=============================================================================
