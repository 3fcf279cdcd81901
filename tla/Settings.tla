------------------------------ MODULE Settings ------------------------------
(***************************************************************************)
(* The settings file (menu/settings.c): what a fresh card gets, what is    *)
(* read of the file and what is written to it.  The ROM that may be loaded *)
(* at once is a build option and left out.                                 *)
(***************************************************************************)
EXTENDS Options

Flags == {"first_run", "pal60", "force_progressive_scan", "show_protected_entries",
          "show_saves_folder", "show_save_files", "show_cheat_files", "show_rom_configuration_files",
          "cheat_beacon", "use_cheat_database",
          "show_browser_file_extensions", "show_browser_rom_tags", "rumble_enabled"}
Names == {"default_directory", "boxart_region"}
Volumes == {"sfx_volume", "music_volume"}
Numbers == {"schema_revision", "music_track"} \cup Volumes
Fields == Flags \cup Names \cup Numbers \cup {"cheat_engine"}
Keys == Fields \cup {"soundfx_enabled"}

\* Settings nobody can change: they are read and never written.
Unwritten == {"show_browser_file_extensions", "show_browser_rom_tags", "rumble_enabled"}

\* init
Defaults ==
    [f \in Fields |->
        CASE f \in Flags -> f \in {"first_run", "use_cheat_database", "show_browser_file_extensions",
                                   "show_browser_rom_tags"}
          [] f = "default_directory" -> "/"
          [] f = "boxart_region" -> "Automatic"
          [] f \in Volumes -> 6
          [] f = "music_track" -> -1
          [] f = "schema_revision" -> 1
          [] f = "cheat_engine" -> "cartridge"]

\* parse_cheat_engine(): by its first two letters, and the cartridge otherwise.
EngineOf(word) == IF word \in {"classic", "CLASSIC", "Classic"} THEN "classic" ELSE "cartridge"

\* From nothing to ten: a file edited by hand can say anything.
Clamped(n) == IF n < 0 THEN 0 ELSE IF n > 10 THEN 10 ELSE n

\* Before there were volumes there was one switch: off was volume 0.
SfxDefault(file) == IF GetBool(file, "soundfx_enabled", TRUE) THEN Defaults["sfx_volume"] ELSE 0

\* settings_load()
Load(file) ==
    [f \in Fields |->
        CASE f \in Flags -> GetBool(file, f, Defaults[f])
          [] f \in Names -> GetWord(file, f, Defaults[f])
          [] f = "sfx_volume" -> Clamped(GetInt(file, f, SfxDefault(file)))
          [] f = "music_volume" -> Clamped(GetInt(file, f, Defaults[f]))
          [] f \in {"schema_revision", "music_track"} -> GetInt(file, f, Defaults[f])
          [] f = "cheat_engine" -> EngineOf(GetWord(file, f, "cartridge"))]

\* settings_save(): the file is written afresh, with nothing of the old one.
Save(settings) ==
    [k \in Keys |->
        CASE k \in Unwritten \cup {"soundfx_enabled"} -> Absent
          [] k \in Flags \ Unwritten -> Bool(settings[k])
          [] k \in Names \cup {"cheat_engine"} -> Word(settings[k])
          [] k \in Numbers -> Number(settings[k])]

\* A card without the file is given the defaults before they are read.
Booted(there, file) == Load(IF there THEN file ELSE Save(Defaults))
=============================================================================
