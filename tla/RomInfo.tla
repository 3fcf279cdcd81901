------------------------------ MODULE RomInfo ------------------------------
(***************************************************************************)
(* What the menu knows of a cartridge (menu/rom_info.c): its header, the   *)
(* row of the table that fits, the options in the .ini beside it and what  *)
(* is said of it in a metadata file, beside it, in the pack or inside.     *)
(***************************************************************************)
EXTENDS Integers, Sequences, SequencesExt, Options

(***************************************************************************)
(* The table of games: what a cartridge saves to and which paks it knows,  *)
(* by the image's check code, a game's three letters, its region or its    *)
(* release.  The first row that fits a header is the answer, so the order  *)
(* of rows that speak of one game is part of it; games that say the same   *)
(* next to each other are one row here.                                    *)
(***************************************************************************)
Row(by, id, region, version, save, feat) ==
    [by |-> by, ids |-> id, region |-> region, version |-> version, save |-> save, feat |-> feat]
GameRow(save, feat, ids) == Row("game", ids, "", 0, save, feat)
Region(id, region, save, feat) == Row("region", {id}, region, 0, save, feat)
Release(id, region, version, save, feat) == Row("release", {id}, region, version, save, feat)
Image(code, save, feat) == Row("image", {code}, "", 0, save, feat)
Homebrew == Row("homebrew", {}, "", 0, "none", {})

Images == <<
    Image("000000004CBC3B56", "sram", {"expRequired", "conversion"}),
    Image("0DD4ABABB5A2A91E", "eeprom16k", {"expRequired"}),
    Image("EB85EBC9596682AF", "flash", {}),
    Image("9A746EBF2802EA99", "eeprom4k", {}),
    Image("21548CA921548CA9", "eeprom4k", {}),
    Image("BC9B2CC34ED04DA5", "flash", {}),
    Image("5D40ED2C10D6ABCF", "eeprom4k", {"rpak"}),
    Image("7280E03F497689BA", "eeprom4k", {"rpak"}),
    Image("CDB8B4D08832352D", "sram", {"rpak"}),
    Image("B66E0F7C2709C22F", "sram", {"rpak"}),
    Image("CE84793D27ECC1AD", "sram", {"rpak", "expRequired"}),
    Image("1F95CAAA047FC22A", "sram", {"rpak", "expRequired"}),
    Image("E3FF09DFCAE4B0ED", "sram", {"rpak"}),
    Image("AE6B1E11B7CBD69E", "none", {"cpak"})>>

\* Regions and releases that differ from their game, each before it.
Differing == <<
    Release("NK4", "J", 0, "sram", {"rpak"}),
    Release("NK4", "J", 1, "sram", {"rpak"}),
    GameRow("eeprom4k", {"rpak"}, {"NK4"}),
    Release("NSM", "J", 3, "eeprom4k", {"rpak"}),
    GameRow("eeprom4k", {}, {"NSM"}),
    Release("NWR", "J", 2, "eeprom4k", {"cpak", "rpak"}),
    GameRow("eeprom4k", {"cpak"}, {"NWR"}),
    Region("N3H", "J", "sram", {}),
    GameRow("none", {"cpak"}, {"N3H"}),
    Region("ND3", "J", "eeprom16k", {"rpak"}),
    GameRow("none", {"cpak"}, {"ND3"}),
    Region("ND4", "J", "eeprom16k", {"rpak"}),
    GameRow("none", {"cpak"}, {"ND4"}),
    Region("NDK", "J", "eeprom4k", {}),
    Region("NPD", "J", "eeprom16k", {"cpak", "rpak", "tpak", "expRequired"}),
    GameRow("eeprom16k", {"cpak", "rpak", "tpak", "expRecommended"}, {"NPD"}),
    Region("NSV", "E", "eeprom4k", {"rpak"}),
    GameRow("eeprom4k", {"rpak", "expBroken"}, {"NSV"}),
    Region("NWT", "J", "eeprom4k", {}),
    GameRow("none", {"cpak"}, {"NWT"})>>

Eeprom4k == <<
    GameRow("eeprom4k", {"rpak", "combo"}, {"CLB"}),
    GameRow("eeprom4k", {"cpak", "rpak"},
       {"NAB", "NBV", "NDY", "NFG", "NFY", "NGL", "NKA", "NMG", "NMR", "NMU", "NOS", "NO2", "NP2",
        "NRA", "NSN", "NTR", "NWQ"}),
    GameRow("eeprom4k", {},
       {"NAD", "NCX", "NDR", "NEA", "NGV", "NHF", "NHP", "NJM", "NMO", "NMZ", "NN6", "NPW", "NSC",
        "NSW", "NT6", "NTM", "NTN", "NTP", "NWU"}),
    GameRow("eeprom4k", {"cpak"},
       {"NAG", "NBC", "NBM", "NBN", "NCR", "NCU", "NDQ", "NHA", "NKI", "NKT", "NMS", "NS3", "NTW"}),
    GameRow("eeprom4k", {"cpak", "tpak"}, {"NB6"}),
    GameRow("eeprom4k", {"rpak"},
       {"NBD", "NBH", "NBK", "NCH", "NCT", "NDU", "NER", "NF2", "NFH", "NFW", "NFX", "NGE", "NGU",
        "NIC", "NIR", "NJK", "NK2", "NLB", "NLL", "NLR", "NMI", "NMW", "NNA", "NPY", "NRC", "NRS",
        "NS6", "NSA", "NSS", "NSU", "NTB", "NTC", "NTJ", "NTX", "NVL", "NVY", "NWC", "NXO", "NYK"}),
    GameRow("eeprom4k", {"cpak", "rpak", "tpak"}, {"NCG"}),
    GameRow("eeprom4k", {"rpak", "expRecommended"}, {"NIJ"}),
    GameRow("eeprom4k", {"rpak", "tpak"}, {"NML", "NPT"}),
    GameRow("eeprom4k", {"rpak", "vru"}, {"NPG"})>>

Eeprom16k == <<
    GameRow("eeprom16k", {"rpak"},
       {"N3D", "NB7", "NCW", "NCZ", "ND2", "NEP", "NEV", "NFU", "NMV", "NRZ", "NYS"}),
    GameRow("eeprom16k", {"rpak", "vru"}, {"ND6"}),
    GameRow("eeprom16k", {"rpak", "expRequired"}, {"NDO"}),
    GameRow("eeprom16k", {"cpak", "rpak"}, {"NGC", "NGT", "NMX", "NNB"}),
    GameRow("eeprom16k", {}, {"NIM"}),
    GameRow("eeprom16k", {"rpak", "tpak"}, {"NM8"}),
    GameRow("eeprom16k", {"cpak"}, {"NPP"}),
    GameRow("eeprom16k", {"tpak"}, {"NR7"}),
    GameRow("eeprom16k", {"cpak", "tpak"}, {"NUB"})>>

Ram == <<
    GameRow("sram", {"rpak", "combo"}, {"CFZ", "CZL"}),
    GameRow("sram", {"tpak", "combo"}, {"CPS"}),
    GameRow("sram", {"cpak", "rpak"}, {"NA2", "NHY", "NKG", "NPS", "NVP", "NWX"}),
    GameRow("sram", {"rpak"},
       {"NAL", "NB5", "NFZ", "NG6", "NIB", "NJG", "NRE", "NTE", "NVB", "NW2", "NWL", "NZL"}),
    GameRow("sram", {"expRequired", "conversion"}, {"NDD"}),
    GameRow("sram", {"cpak"}, {"NGP", "NJ5", "NP4", "NPE", "NPM", "NRI", "NSI", "NT3"}),
    GameRow("sram", {"rpak", "tpak"}, {"NMF", "NUM"}),
    GameRow("sram", {}, {"NOB", "NYW"}),
    GameRow("sram", {"cpak", "tpak"}, {"NP6", "NPA", "NS4"}),
    GameRow("sram", {"cpak", "rpak", "tpak"}, {"NUT"}),
    GameRow("sramBanked", {"rpak", "combo"}, {"CDZ"}),
    GameRow("flash", {"tpak", "combo"}, {"CP2"}),
    GameRow("flash", {"cpak", "rtc"}, {"NAF"}),
    GameRow("flash", {"rpak"}, {"NCC", "NCK", "NJF", "NKJ", "NM6", "NMQ", "NRH"}),
    GameRow("flash", {}, {"NCV", "NPF", "NPN", "NT9"}),
    GameRow("flash", {"cpak"}, {"NDA"}),
    GameRow("flash", {"expRequired"}, {"NDP"}),
    GameRow("flash", {"tpak"}, {"NPO"}),
    GameRow("flash", {"rpak", "expRecommended"}, {"NSQ"}),
    GameRow("flash", {"cpak", "rpak"}, {"NW4"}),
    GameRow("flash", {"rpak", "expRequired"}, {"NZS"}),
    GameRow("flashPkst2", {"tpak"}, {"NP3"})>>

UnsavedToI == <<
    GameRow("none", {"cpak", "rpak"},
       {"N22", "N2M", "N2P", "N2V", "N32", "N3P", "N3T", "N64", "N8M", "N9B", "N9C", "N9H", "N9M",
        "NAC", "NAH", "NAM", "NAR", "NAS", "NB2", "NB3", "NB4", "NB8", "NBA", "NBE", "NBF", "NBI",
        "NBL", "NBP", "NBQ", "NBR", "NBS", "NBW", "NBX", "NBY", "NBZ", "NCD", "NCE", "NCL", "NCO",
        "NCS", "NDC", "NDE", "NDN", "NDT", "NDW", "NDZ", "NEG", "NFB", "NFD", "NFF", "NFL", "NFO",
        "NFQ", "NFR", "NG2", "NG5", "NGA", "NGB", "NGD", "NGM", "NGR", "NGX", "NH9", "NHC", "NHK",
        "NHL", "NHM", "NHO", "NHT", "NHV", "NHW", "NIS", "NIV"}),
    GameRow("none", {"cpak"},
       {"N4W", "N7I", "N8I", "N8W", "N9F", "NAI", "NAY", "NB9", "NBJ", "NBO", "NBU", "NDH", "NDM",
        "NDQ", "NDS", "NET", "NF9", "NFS", "NGN", "NGS", "NH5", "NHG", "NHG", "NHN", "NHS", "NHX"}),
    GameRow("none", {"rpak"}, {"NCB", "NDF"})>>

UnsavedFromJ == <<
    GameRow("none", {"cpak"},
       {"NJ2", "NJ3", "NJE", "NJL", "NJP", "NKM", "NKR", "NM9", "NMA", "NMJ", "NMM", "NNM", "NNR",
        "NOM", "NOW", "NPC", "NPK", "NPL", "NPU", "NRK", "NRT", "NRX", "NS2", "NSG", "NSH", "NSO",
        "NST", "NSY", "NTD", "NTO", "NTS", "NTT", "NTU", "NVC", "NVR", "NW8", "NWG", "NWS", "NX2",
        "NXG", "NY2", "NYW"}),
    GameRow("none", {"cpak", "rpak"},
       {"NJA", "NKK", "NL2", "NLC", "NLG", "NM4", "NMB", "NMD", "NMY", "NN2", "NNC", "NNL", "NNS",
        "NO7", "NOF", "NP9", "NPB", "NPR", "NPX", "NPZ", "NQ2", "NQ8", "NQ9", "NQB", "NQC", "NQK",
        "NR2", "NR3", "NR6", "NRD", "NRO", "NRP", "NRR", "NRU", "NRV", "NRW", "NSB", "NSD", "NSF",
        "NSJ", "NSK", "NSL", "NSP", "NSX", "NSZ", "NT2", "NT4", "NTA", "NTF", "NTH", "NTI", "NTK",
        "NTQ", "NV3", "NV8", "NVG", "NW3", "NWB", "NWD", "NWI", "NWK", "NWM", "NWN", "NWO", "NWP",
        "NWV", "NWW", "NWZ", "NX3", "NXF", "NYP", "NZO"}),
    GameRow("none", {"rpak"}, {"NJQ", "NKE", "NM3", "NMT", "NRG", "NWF"}),
    GameRow("none", {"rpak", "tpak"}, {"NOH"})>>

Database ==
    <<Homebrew>> \o Images \o Differing \o Eeprom4k \o Eeprom16k \o Ram \o UnsavedToI \o UnsavedFromJ
-----------------------------------------------------------------------------
(***************************************************************************)
(* A header: its check code, the three letters of its game, whether the    *)
(* last two are ED, its region and its version byte.                       *)
(***************************************************************************)
Fits(row, h) ==
    CASE row.by = "game" -> h.id \in row.ids
      [] row.by = "region" -> h.id \in row.ids /\ h.region = row.region
      [] row.by = "release" -> h.id \in row.ids /\ h.region = row.region /\ h.version = row.version
      [] row.by = "image" -> h.code \in row.ids
      [] row.by = "homebrew" -> h.ed

\* find_rom_in_database()
Unlisted == Row("end", {}, "", 0, "none", {})
RowOf(h) == LET at == SelectInSeq(Database, LAMBDA r : Fits(r, h)) IN IF at = 0 THEN Unlisted ELSE Database[at]
-----------------------------------------------------------------------------

(***************************************************************************)
(* fix_rom_header_endianness(): the first word says how the bytes of every *)
(* other were stored; one that is not known is taken as it is.             *)
(***************************************************************************)
Little == <<64, 18, 55, 128>>     \* 0x40123780
Swapped == <<55, 128, 64, 18>>    \* 0x37804012
Endianness(raw) ==
    LET word == SubSeq(raw, 1, 4) IN IF word = Little THEN "little" ELSE IF word = Swapped THEN "swapped" ELSE "big"
\* Where in the header, counted from 0, each byte of it was found.
Source(endianness, i) ==
    CASE endianness = "little" -> 4 * (i \div 4) + 3 - (i % 4)
      [] endianness = "swapped" -> 2 * (i \div 2) + 1 - (i % 2)
      [] OTHER -> i
Fixed(raw) == [i \in DOMAIN raw |-> raw[Source(Endianness(raw), i - 1) + 1]]
-----------------------------------------------------------------------------
(***************************************************************************)
(* extract_rom_info(): what the header and its row say.                    *)
(***************************************************************************)
\* A homebrew game says in its version byte what it saves to, and if it has a
\* clock.
HomebrewSaves == <<"none", "eeprom4k", "eeprom16k", "sram", "sramBanked", "flash", "sram1m">>
SaveType(row, version) ==
    IF row.by # "homebrew" THEN row.save
    ELSE IF version \div 16 < Len(HomebrewSaves) THEN HomebrewSaves[version \div 16 + 1] ELSE "none"
Features(row, version) ==
    IF row.by = "homebrew" /\ version % 2 = 1 THEN row.feat \cup {"rtc"} ELSE row.feat

ExpansionPak(feat) ==
    IF "expRequired" \in feat THEN "required"
    ELSE IF "expRecommended" \in feat THEN "recommended"
    ELSE IF "expEnhanced" \in feat THEN "suggested"
    ELSE IF "expBroken" \in feat THEN "faulty" ELSE "none"

\* determine_tv_type(): by the market's letter.
TvType(region) ==
    CASE region \in {"A", "E", "G", "J"} -> "ntsc"
      [] region = "B" -> "mpal"
      [] region \in {"D", "F", "H", "I", "L", "P", "S", "U", "W", "X", "Y"} -> "pal"
      [] OTHER -> "unknown"

\* fix_boot_address(): two chips start a game elsewhere than its header says.
\* Addresses count in megabytes, 2^12 of them.
BootAddress(cic, address) ==
    (address - (IF cic = "x103" THEN 1 ELSE IF cic = "x106" THEN 2 ELSE 0)) % 4096
-----------------------------------------------------------------------------
(***************************************************************************)
(* The options beside the game, <rom>.ini.  A file that is not there, or   *)
(* cannot be read, has none; listed is what the caller lent of the         *)
(* directory: the names in it, or nothing.                                 *)
(***************************************************************************)
OptionKeys == {"cheats_enabled", "patches_enabled", "display_name", "cic_type", "save_type", "tv_type"}
Automatic == -1
NotLent == {}
Lent(names) == {names}

\* sidecar_possible()
Possible(listed, name) == \A names \in listed : name \in names

\* load_rom_config_from_file(): beside is what the card has, readable or not.
ConfigOf(beside, listed) ==
    LET f == IF beside.ini.readable /\ Possible(listed, "ini") THEN beside.ini.options ELSE NoOptions(OptionKeys)
        over(k) == GetInt(f, k, Automatic)
    IN  [cheats |-> GetBool(f, "cheats_enabled", FALSE), patches |-> GetBool(f, "patches_enabled", FALSE),
         name |-> GetWord(f, "display_name", ""),
         cic |-> over("cic_type"), save |-> over("save_type"), tv |-> over("tv_type")]

\* rom_info_get_cic_type() and its like: what is overridden, else what was
\* found; and the seed is to be found again unless the chip is overridden.
Effective(over, found) == IF over # Automatic THEN over ELSE found
SeedIsDetected(config) == config.cic = Automatic

\* save_rom_config_setting_to_file(), rom_config_set_display_name(): the file is
\* read, changed and written; a default is deleted from it and a file with
\* nothing left removed.  What could not be read is written over.
WithOption(ini, key, value, default) ==
    LET read == IF ini.readable THEN ini.options ELSE NoOptions(OptionKeys)
        f == [read EXCEPT ![key] = IF value = default THEN Absent ELSE value]
    IN  IF f = NoOptions(OptionKeys) THEN [there |-> FALSE, readable |-> FALSE, options |-> f]
        ELSE [there |-> TRUE, readable |-> TRUE, options |-> f]

Override(ini, key, n) == WithOption(ini, key, Number(n), Number(Automatic))
SetCheats(ini, on) == WithOption(ini, "cheats_enabled", Number(IF on THEN 1 ELSE 0), Number(0))
Rename(ini, name) == WithOption(ini, "display_name", Word(name), Word(""))
-----------------------------------------------------------------------------
(***************************************************************************)
(* What is said of the game.  A source is what a metadata file would give: *)
(* nothing, or a function from its keys to words.                          *)
(***************************************************************************)
MetaKeys == {"name", "author", "release-date", "osi-license", "website", "short-desc"}
NoMeta == [k \in MetaKeys |-> ""]
Unsaid == [k \in MetaKeys |-> IF k \in {"name", "short-desc"} THEN "" ELSE "Not specified"]
Said(source) == [k \in MetaKeys |-> IF source[k] = "" THEN Unsaid[k] ELSE source[k]]

\* load_rom_meta_from_file(): <rom>.meta, an archive; else <rom>.metadata.ini;
\* else, and only when there is such a directory, the pack's.
FromFiles(beside, pack, listed) ==
    IF Possible(listed, "meta") /\ beside.archive # {} THEN {Said(m) : m \in beside.archive}
    ELSE IF Possible(listed, "metadata.ini") /\ beside.flat.there THEN {Said(m) : m \in beside.flat.says}
    ELSE IF pack.there THEN {Said(m) : m \in pack.says} ELSE {}

\* load_rom_meta_from_embedded_zip(): a game whose header says so carries one.
Embedded(inside) == IF inside.flag THEN {Said(m) : m \in inside.says} ELSE {}

\* rom_config_load(): a game whose name nobody gave may carry an archive.
MetaOf(beside, pack, inside, listed) ==
    LET files == FromFiles(beside, pack, listed)
        m == IF files = {} THEN Unsaid ELSE CHOOSE x \in files : TRUE
    IN  IF m["name"] # "" \/ Embedded(inside) = {} THEN m ELSE CHOOSE x \in Embedded(inside) : TRUE
=============================================================================
