----------------------------- MODULE FindImage -----------------------------
(***************************************************************************)
(* The boot loader: find_image, call_user_start and the first call of       *)
(* Cache_Read_Enable_New in the ROM it starts.  One action for each access  *)
(* to flash, to RTC memory and to the pin, so that a reset or a power cut   *)
(* (module RBoot) can fall between any two of them.                         *)
(* A definition named D_Fault is D with a fault: a property of a run that   *)
(* cannot tell the two apart would say nothing of the code.                 *)
(***************************************************************************)
EXTENDS RBootConfig

VARIABLES
  cfg,          \* the configuration sector in flash
  good,         \* the slots whose image check_image accepts
  sdk,          \* the SDK's own settings at the end of flash are there
  rtc,          \* the record in RTC memory
  pc,           \* where execution is
  romconf,      \* the sector image in RAM (find_image's or set_config's buffer)
  romToBoot,
  temp_boot,
  gpio_boot,
  updateConfig,
  pin,          \* the level of GPIO16 this boot has read
  running,      \* the slot of the ROM that runs
  mapped        \* the slot whose megabyte the cache maps

flash  == <<cfg, good, sdk>>
locals == <<romconf, romToBoot, temp_boot, gpio_boot, updateConfig, pin>>
app    == <<running, mapped>>
vars   == <<cfg, good, sdk, rtc, pc, romconf, romToBoot, temp_boot, gpio_boot,
            updateConfig, pin, running, mapped>>

BootLocations == {"readConfig", "eraseInvalid", "writeDefault", "tempRom",
                  "gpioRom", "currentRom", "checkRom", "romBad", "chosen",
                  "writeConfig", "writeRtc", "launch", "map"}
AppLocations  == {"app", "apiErase", "apiWrite"}
Locations     == BootLocations \cup AppLocations \cup {"halt"}

Step(from, to) == pc = from /\ pc' = to

-----------------------------------------------------------------------------
(* The stored configuration, or a default one in its place.                 *)

ReadConfig ==
  /\ pc = "readConfig"
  /\ romconf' = IF cfg.valid THEN cfg ELSE DefaultConfig
  /\ pc' = IF cfg.valid THEN "tempRom" ELSE "eraseInvalid"
  /\ romToBoot' = romconf'.current_rom
  /\ UNCHANGED <<flash, rtc, temp_boot, gpio_boot, updateConfig, pin, app>>

EraseInvalid ==
  /\ Step("eraseInvalid", "writeDefault")
  /\ cfg' = ErasedSector
  /\ UNCHANGED <<good, sdk, rtc, locals, app>>

WriteDefault ==
  /\ Step("writeDefault", "tempRom")
  /\ cfg' = romconf
  /\ UNCHANGED <<good, sdk, rtc, locals, app>>

-----------------------------------------------------------------------------
(* Which ROM: the stored one, unless RTC memory or the pin names another.   *)

TempRom ==
  /\ pc = "tempRom"
  /\ LET invalid == TempRequested(rtc) /\ ~InTable(romconf, rtc.temp_rom)
     IN  pc' = IF invalid THEN "halt" ELSE "gpioRom"
  /\ temp_boot' = (TempRequested(rtc) /\ InTable(romconf, rtc.temp_rom))
  /\ romToBoot' = IF temp_boot' THEN rtc.temp_rom ELSE romToBoot
  /\ UNCHANGED <<flash, rtc, romconf, gpio_boot, updateConfig, pin, app>>

\* The test of mode reads `mode & (MODE_GPIO_ROM == 0)`, which is never true:
\* the pin alone decides.
PerformGpioBoot(conf, level) == level

GpioRom(level) ==
  /\ pc = "gpioRom"
  /\ pin' = level
  /\ LET wanted == PerformGpioBoot(romconf, level)
         boot   == wanted /\ InTable(romconf, romconf.gpio_rom)
     IN  /\ pc' = IF wanted /\ ~boot THEN "halt" ELSE "currentRom"
         /\ gpio_boot' = boot
         /\ romToBoot' = IF boot THEN romconf.gpio_rom ELSE romToBoot
         /\ updateConfig' = boot
         /\ sdk' = (sdk /\ ~(boot /\ "GPIO_ERASES_SDKCONFIG" \in romconf.mode))
  /\ UNCHANGED <<cfg, good, rtc, romconf, temp_boot, app>>

\* An out-of-range selection becomes 0, for this boot and in the sector.
CurrentRom ==
  /\ Step("currentRom", "checkRom")
  /\ IF ~InTable(romconf, romconf.current_rom)
     THEN /\ romToBoot' = 0
          /\ romconf' = [romconf EXCEPT !.current_rom = 0]
          /\ updateConfig' = TRUE
     ELSE UNCHANGED <<romToBoot, romconf, updateConfig>>
  /\ UNCHANGED <<flash, rtc, temp_boot, gpio_boot, pin, app>>

-----------------------------------------------------------------------------
(* Is it good?  A ROM the pin or a temp request named has no substitute.    *)

RomGood ==
  /\ Step("checkRom", "chosen")
  /\ Bootable(romconf, good, romToBoot)
  /\ UNCHANGED <<flash, rtc, locals, app>>

GpioRomBad ==
  /\ Step("checkRom", "halt")
  /\ gpio_boot
  /\ ~Bootable(romconf, good, romToBoot)
  /\ UNCHANGED <<flash, rtc, locals, app>>

TempRomBad_KeepsRequest ==
  /\ Step("checkRom", "halt")
  /\ temp_boot /\ ~gpio_boot
  /\ ~Bootable(romconf, good, romToBoot)
  /\ UNCHANGED <<flash, rtc, locals, app>>

TempRomBad ==
  /\ Step("checkRom", "halt")
  /\ temp_boot /\ ~gpio_boot
  /\ ~Bootable(romconf, good, romToBoot)
  /\ rtc' = [rtc EXCEPT !.temp = FALSE]
  /\ UNCHANGED <<flash, locals, app>>

StoredRomBad ==
  /\ Step("checkRom", "romBad")
  /\ ~temp_boot /\ ~gpio_boot
  /\ ~Bootable(romconf, good, romToBoot)
  /\ UNCHANGED <<flash, rtc, locals, app>>

Previous_NoWrap(conf, r) == r - 1
Previous_Upwards(conf, r) == IF r + 1 = conf.count THEN 0 ELSE r + 1
Previous(conf, r) == IF r = 0 THEN conf.count - 1 ELSE r - 1

\* The loop has come round to the ROM it started from.
AllTried_AtZero(conf, r) == r = 0
AllTried_AtCount(conf, r) == r = conf.count
AllTried(conf, r) == r = conf.current_rom

\* One round of the loop: romToBoot is bad, try the one before it.
TryPrevious ==
  /\ pc = "romBad"
  /\ updateConfig' = TRUE
  /\ romToBoot' = Previous(romconf, romToBoot)
  /\ pc' = IF AllTried(romconf, romToBoot') THEN "halt"
           ELSE IF Bootable(romconf, good, romToBoot') THEN "chosen"
           ELSE "romBad"
  /\ UNCHANGED <<flash, rtc, romconf, temp_boot, gpio_boot, pin, app>>

-----------------------------------------------------------------------------
(* Store the choice, tell the ROM about it, start it.                       *)

KeepConfig ==
  /\ Step("chosen", "writeRtc")
  /\ ~updateConfig
  /\ UNCHANGED <<flash, rtc, locals, app>>

EraseConfig_Always ==
  /\ Step("chosen", "writeConfig")
  /\ romconf' = [romconf EXCEPT !.current_rom = romToBoot]
  /\ cfg' = ErasedSector
  /\ UNCHANGED <<good, sdk, rtc, romToBoot, temp_boot, gpio_boot,
                 updateConfig, pin, app>>

EraseConfig_FromDefault ==
  /\ Step("chosen", "writeConfig")
  /\ updateConfig
  /\ romconf' = [DefaultConfig EXCEPT !.current_rom = romToBoot]
  /\ cfg' = ErasedSector
  /\ UNCHANGED <<good, sdk, rtc, romToBoot, temp_boot, gpio_boot,
                 updateConfig, pin, app>>

EraseConfig ==
  /\ Step("chosen", "writeConfig")
  /\ updateConfig
  /\ romconf' = [romconf EXCEPT !.current_rom = romToBoot]
  /\ cfg' = ErasedSector
  /\ UNCHANGED <<good, sdk, rtc, romToBoot, temp_boot, gpio_boot,
                 updateConfig, pin, app>>

WriteConfig ==
  /\ Step("writeConfig", "writeRtc")
  /\ cfg' = romconf
  /\ UNCHANGED <<good, sdk, rtc, locals, app>>

BootRecord_Swapped(rom, temp, gpio) ==
  [ok |-> TRUE, magic |-> TRUE, temp |-> FALSE, temp_rom |-> rom, last_rom |-> 0,
   last_mode |-> {}]

BootRecord(rom, temp, gpio) ==
  [ok |-> TRUE, magic |-> TRUE, temp |-> FALSE, temp_rom |-> 0, last_rom |-> rom,
   last_mode |-> {m \in {"TEMP_ROM", "GPIO_ROM"} :
                    (m = "TEMP_ROM" /\ temp) \/ (m = "GPIO_ROM" /\ gpio)}]

WriteRtc ==
  /\ Step("writeRtc", "launch")
  /\ rtc' = BootRecord(romToBoot, temp_boot, gpio_boot)
  /\ UNCHANGED <<flash, locals, app>>

\* call_user_start hands the address to the stage 2 loader.
Launch ==
  /\ Step("launch", "map")
  /\ running' = romToBoot
  /\ UNCHANGED <<flash, rtc, locals, mapped>>

\* The slot Cache_Read_Enable_New maps: roms[last_rom] of the sector in flash,
\* by the last_rom of RTC memory, neither of them checked.
MappedSlot(c, r) == IF r.last_rom \in c.roms THEN r.last_rom ELSE NoRom

MapFlash ==
  /\ Step("map", "app")
  /\ mapped' = MappedSlot(cfg, rtc)
  /\ UNCHANGED <<flash, rtc, locals, running>>

FindImageNext ==
  \/ ReadConfig \/ EraseInvalid \/ WriteDefault
  \/ TempRom \/ (\E level \in BOOLEAN : GpioRom(level)) \/ CurrentRom
  \/ RomGood \/ GpioRomBad \/ TempRomBad \/ StoredRomBad \/ TryPrevious
  \/ KeepConfig \/ EraseConfig \/ WriteConfig
  \/ WriteRtc \/ Launch \/ MapFlash
=============================================================================
