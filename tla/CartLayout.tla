----------------------------- MODULE CartLayout -----------------------------
(***************************************************************************)
(* Where a game, its emulator and its save go on the cartridge             *)
(* (flashcart/sc64/sc64.c, flashcart_utils.c, flashcart.c and              *)
(* menu/cart_load.c), and the chip it is started for (boot/cic.c).  Sizes  *)
(* and addresses count in sectors of 512 bytes unless they say otherwise.  *)
(* Launch has the order of the steps.                                      *)
(***************************************************************************)
EXTENDS Integers, Sequences, SequencesExt, FiniteSets

KiB(n) == 2 * n
MiB(n) == 2048 * n
Least(a, b) == IF a < b THEN a ELSE b

RomAddress == 524288          \* 0x10000000
ExtendedAddress == 655360     \* 0x14000000
ShadowAddress == 1048064      \* 0x1FFC0000
EepromAddress == 1048336      \* 0x1FFE2000
SramAddress == 262144         \* 0x08000000

\* fatfs_fix_file_size(): a file is read to the end of its last sector.
Sectors(bytes) == (bytes + 511) \div 512

MaxRom == MiB(78)
InRam == MiB(64) - KiB(128)   \* what the cartridge's memory holds

\* sc64_load_rom(): the parts of a game of n sectors, and the two registers that
\* map the last two into the console's view of the cartridge.
Shadowed(n) == n > InRam
ExtendedIn(n) == n > MiB(64)
RamSize(n) == IF Shadowed(n) THEN InRam ELSE n
ShadowSize(n) == IF Shadowed(n) THEN Least(n - RamSize(n), KiB(128)) ELSE 0
ExtendedSize(n) == IF ExtendedIn(n) THEN n - MiB(64) ELSE 0
Parts(n) == <<
    [to |-> RomAddress, size |-> RamSize(n)],
    [to |-> ShadowAddress, size |-> ShadowSize(n)],
    [to |-> ExtendedAddress, size |-> ExtendedSize(n)]>>
\* Where each part begins in the file.
From(n, i) == IF i = 1 THEN 0 ELSE IF i = 2 THEN RamSize(n) ELSE RamSize(n) + ShadowSize(n)

\* Reading by the chunk, and load_to_flash() by the block it erases.
Chunks(size, chunk) ==
    [i \in 1 .. (size + chunk - 1) \div chunk |-> [at |-> (i - 1) * chunk, size |-> Least(size - (i - 1) * chunk, chunk)]]

\* What the console reads at sector a of the cartridge with the registers so set:
\* a place in the memory, the shadow or the flash.
Seen(shadow, extended, a) ==
    IF extended /\ a >= MiB(64) THEN ExtendedAddress + a - MiB(64)
    ELSE IF shadow /\ a >= InRam /\ a < MiB(64) THEN ShadowAddress + a - InRam ELSE RomAddress + a
-----------------------------------------------------------------------------
(***************************************************************************)
(* fatfs_get_file_sectors(): the card's sectors of a file, read off its    *)
(* chain of clusters; first has the first sector of each.                    *)
(***************************************************************************)
SectorList(chain, per, first, size, most) ==
    LET count == Least(size, most)
        needed == (count + per - 1) \div per
        run(c) == [i \in 1 .. per |-> first[chain[c]] + i - 1]
    IN  IF needed > Len(chain) THEN [error |-> TRUE, list |-> <<>>]
        ELSE [error |-> FALSE, list |-> SubSeq(FlattenSeq([c \in 1 .. needed |-> run(c)]), 1, count)]

MaxSaveSectors == 256
SaveSize == [none |-> 0, eeprom4k |-> 1, eeprom16k |-> KiB(2), sram |-> KiB(32),
             sramBanked |-> KiB(96), sram1m |-> KiB(128), flash |-> KiB(128), pkst2 |-> KiB(128)]
SaveTypes == DOMAIN SaveSize

\* sc64_set_save_type() and sc64_load_save()
CartType(type) == IF type = "pkst2" THEN "flash" ELSE type
SaveAddress(type) == IF type \in {"eeprom4k", "eeprom16k"} THEN EepromAddress ELSE SramAddress

\* file_fill(): the sizes of its writes, eight sectors at a time.
FillWrites(size) == Chunks(size, 8)
-----------------------------------------------------------------------------
(***************************************************************************)
(* cart_load_emulator(): the core, what it saves to, and the game behind   *)
(* it without the header a copier may have put before a game of the SNES.  *)
(***************************************************************************)
Emulators == [
    nes |-> [core |-> {"neon64bu.rom"}, save |-> "sram1m"],
    snes |-> [core |-> {"lithium64.z64", "sodium64.z64"}, save |-> "sram"],
    gb |-> [core |-> {"gb.v64"}, save |-> "sramBanked"],
    gbc |-> [core |-> {"gbc.v64"}, save |-> "sramBanked"],
    sms |-> [core |-> {"smsPlus64.z64"}, save |-> "none"],
    channelF |-> [core |-> {"Press-F.z64"}, save |-> "none"]]
\* Each name is looked for in emulators/, the second only where there is none
\* of the first.
HasCore(card, emu) == Emulators[emu].core \cap card # {}

GameAt == MiB(2)
Skipped(emu, bytes) == IF emu = "snes" /\ bytes % 1024 = 512 THEN 1 ELSE 0
\* flashcart_load_file(), sc64_load_file(): sizes are unsigned, so a file shorter
\* than what is skipped would be one too large.
LoadFile(size, to, skip) ==
    IF size < skip \/ size - skip > MiB(64) - to THEN [error |-> TRUE]
    ELSE [error |-> FALSE, to |-> RomAddress + to, from |-> skip, size |-> size - skip]
-----------------------------------------------------------------------------
\* sc64_init(): firmware the menu can use, and the registers as it sets them.
Supported(v) == v.major = 2 /\ v.minor >= 17
Registers ==
    [bootloader |-> FALSE, romWrite |-> TRUE, shadow |-> FALSE, dd |-> "disabled", boot |-> "menu", save |-> "none",
     seed |-> "auto", tv |-> "passthrough", ddOnCard |-> FALSE, drive |-> "retail", disk |-> "ejected",
     button |-> "none", extended |-> FALSE]
\* sc64_deinit(), sc64_set_bootmode()
Locked(registers) == [registers EXCEPT !.romWrite = FALSE]
NextBoot(registers, mode) == [registers EXCEPT !.boot = IF mode = "rom" THEN "rom" ELSE "menu"]

\* flashcart_init(): by what is in the slot.
Storage(slot) == CASE slot = "ique" -> "bbfs:/" [] slot = "sc64" -> "sd:/" [] OTHER -> "rom:/"
InitError(slot, disk, sc64) ==
    CASE slot = "ique" -> IF disk THEN "none" ELSE "ique"
      [] slot = "sc64" -> IF sc64 # "none" THEN sc64 ELSE IF disk THEN "none" ELSE "card"
      [] slot = "other" -> IF disk THEN "none" ELSE "card"
      [] OTHER -> "none"
-----------------------------------------------------------------------------
(***************************************************************************)
(* Which chip a game was made for: its boot code is summed with a chip's   *)
(* seed and the sum looked up.  Sums are words here; a boot code is the    *)
(* function from seeds to its sums.                                        *)
(***************************************************************************)
Known == <<
    [seed |-> "3F", sum |-> "45CC73EE317A", chip |-> "6101"],
    [seed |-> "3F", sum |-> "44160EC5D9AF", chip |-> "7102"],
    [seed |-> "3F", sum |-> "A536C0F1D859", chip |-> "x102"],
    [seed |-> "78", sum |-> "586FD4709867", chip |-> "x103"],
    [seed |-> "85", sum |-> "2BBAD4E6EB74", chip |-> "x106"],
    [seed |-> "91", sum |-> "8618A45BC2D3", chip |-> "x105"],
    [seed |-> "DD", sum |-> "6EE8D9E84970", chip |-> "8401"],
    [seed |-> "DD", sum |-> "6C216495C8B9", chip |-> "8301"],
    [seed |-> "DD", sum |-> "E27F43BA93AC", chip |-> "8302"],
    [seed |-> "DD", sum |-> "32B294E2AB90", chip |-> "8303"],
    [seed |-> "DD", sum |-> "083C6C77E0B1", chip |-> "5167"],
    [seed |-> "DE", sum |-> "05BA2EF0A5F1", chip |-> "8501"]>>
Seeds == {"3F", "78", "85", "91", "DD", "DE"}

\* cic_detect()
Detect(sums) ==
    LET at == SelectInSeq(Known, LAMBDA k : sums[k.seed] = k.sum)
    IN  IF at = 0 THEN "unknown" ELSE Known[at].chip

\* cic_get_seed()
SeedOf(chip) ==
    CASE chip = "5101" -> "AC"
      [] chip = "x103" -> "78"
      [] chip = "x105" -> "91"
      [] chip = "x106" -> "85"
      [] chip \in {"5167", "8301", "8302", "8303", "8401"} -> "DD"
      [] chip = "8501" -> "DE"
      [] OTHER -> "3F"

\* detect_cic_type() and rom_info_get_boot_cic() go from the one list of chips
\* to the other and back; what neither has is no chip.
Chips == {"5101", "5167", "6101", "7102", "x102", "x103", "x105", "x106", "8301", "8302", "8303", "8401", "8501"}
BootChip(type) == IF type \in Chips THEN type ELSE "unknown"
\* rom_info_get_cic_seed(): automatic, unless the chip was overridden.
Automatic == "automatic"
BootSeed(override, sums) ==
    [seed |-> SeedOf(BootChip(IF override # Automatic THEN override ELSE BootChip(Detect(sums)))),
     detect |-> override = Automatic]
=============================================================================
