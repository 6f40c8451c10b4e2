---------------------------- MODULE RBootConfig ----------------------------
(***************************************************************************)
(* The data rBoot and the applications share: the configuration sector in   *)
(* flash (rboot_config), the record in RTC memory (rboot_rtc_data) and the  *)
(* ROM slots.  A flash address is abstracted to the number of its slot:     *)
(* the address of slot r is in the sector (r \in roms) or reads as erased   *)
(* flash, and what the slot holds is or is not an image that check_image    *)
(* accepts (r \in good).                                                    *)
(***************************************************************************)
EXTENDS Naturals, FiniteSets

CONSTANTS
  MaxRoms,      \* MAX_ROMS, the entries of roms[]
  Erased,       \* what a byte of erased flash reads as (0xff)
  DefaultRom,   \* current_rom of default_config
  DefaultGpio,  \* gpio_rom of default_config
  NoRom         \* no slot: find_image returned 0, or nothing runs

ASSUME MaxRomsAssumption == MaxRoms \in Nat \ {0}
ASSUME ErasedAssumption  == Erased \in Nat /\ MaxRoms < Erased

Slots == 0..(MaxRoms - 1)
Bytes == 0..Erased

ASSUME DefaultAssumption == DefaultRom \in Slots /\ DefaultGpio \in Slots
ASSUME NoRomAssumption   == NoRom \notin Nat

\* The bits of rboot_config.mode this build looks at.
Modes == SUBSET {"GPIO_ROM", "GPIO_ERASES_SDKCONFIG"}

\* valid: magic and version are the expected ones.
Configs == [valid: BOOLEAN, mode: Modes, current_rom: Bytes, gpio_rom: Bytes,
            count: 1..Erased, roms: SUBSET Slots]

ErasedSector ==
  [valid |-> FALSE, mode |-> {"GPIO_ROM", "GPIO_ERASES_SDKCONFIG"},
   current_rom |-> Erased, gpio_rom |-> Erased, count |-> Erased, roms |-> {}]

\* default_config, and the magic and version find_image puts in front of it
DefaultConfig ==
  [valid |-> TRUE, mode |-> {}, current_rom |-> DefaultRom,
   gpio_rom |-> DefaultGpio, count |-> MaxRoms, roms |-> Slots]

(***************************************************************************)
(* The sector is programmed in order, a word at a time: magic, version,     *)
(* mode and current_rom; gpio_rom and count; then one word per slot.  A     *)
(* write cut short after w words leaves the rest as the erase left it.      *)
(***************************************************************************)
Words == 0..(MaxRoms + 2)

Torn(c, w) ==
  IF w = 0 THEN ErasedSector
  ELSE [c EXCEPT !.gpio_rom = IF w = 1 THEN Erased ELSE @,
                 !.count    = IF w = 1 THEN Erased ELSE @,
                 !.roms     = {r \in @ : r + 2 < w}]

\* ok: the checksum of the record in RTC memory matches; temp: next_mode has
\* MODE_TEMP_ROM.
RtcRecords == [ok: BOOLEAN, magic: BOOLEAN, temp: BOOLEAN, temp_rom: Bytes,
               last_rom: Bytes, last_mode: SUBSET {"TEMP_ROM", "GPIO_ROM"}]

NoRtc == [ok |-> FALSE, magic |-> FALSE, temp |-> FALSE, temp_rom |-> 0,
          last_rom |-> 0, last_mode |-> {}]

TempRequested(r) == r.ok /\ r.temp

\* r numbers a ROM of the configuration c.
InTable_OffByOne(c, r) == r <= c.count
InTable(c, r) == r < c.count

\* A slot find_image can boot: its address is in the configuration c and
\* check_image accepts what is there.
Bootable(c, g, r) == r \in c.roms /\ r \in g
=============================================================================
