------------------------------ MODULE RBootApi ------------------------------
(***************************************************************************)
(* What a running ROM does to the state it shares with the boot loader:     *)
(* the functions of rboot-api.c, and the installation of an image in a slot *)
(* by the ROM manager (ESPhttpUpdate and Updater).                          *)
(***************************************************************************)
EXTENDS FindImage

CONSTANT AppSettings  \* the settings a ROM gives rboot_set_config

\* rboot_set_config checks nothing: a ROM may drop the slot that is selected.
\* No ROM stores a table that is empty or longer than roms[].
ASSUME AppSettingsAssumption ==
  AppSettings \subseteq
    [mode: Modes, current_rom: Bytes, gpio_rom: Bytes, count: 1..MaxRoms]

\* rboot_set_current_rom: a ROM number outside the configuration is refused.
SetCurrentRom(r) ==
  /\ Step("app", "apiErase")
  /\ InTable(cfg, r)
  /\ romconf' = [cfg EXCEPT !.current_rom = r]
  /\ UNCHANGED <<flash, rtc, romToBoot, temp_boot, gpio_boot, updateConfig, pin, app>>

\* rboot_set_config, with a configuration got from rboot_get_config and edited
SetConfig(s) ==
  /\ Step("app", "apiErase")
  /\ romconf' = [cfg EXCEPT !.mode = s.mode, !.current_rom = s.current_rom,
                            !.gpio_rom = s.gpio_rom, !.count = s.count]
  /\ UNCHANGED <<flash, rtc, romToBoot, temp_boot, gpio_boot, updateConfig, pin, app>>

ApiErase ==
  /\ Step("apiErase", "apiWrite")
  /\ cfg' = ErasedSector
  /\ UNCHANGED <<good, sdk, rtc, locals, app>>

ApiWrite ==
  /\ Step("apiWrite", "app")
  /\ cfg' = romconf
  /\ UNCHANGED <<good, sdk, rtc, locals, app>>

\* rboot_set_temp_rom: any number is accepted.
TempRecord(old, r) ==
  LET basics == IF old.ok THEN old
                ELSE [old EXCEPT !.magic = TRUE, !.last_mode = {}, !.last_rom = 0]
  IN  [basics EXCEPT !.ok = TRUE, !.temp = TRUE, !.temp_rom = r]

SetTempRom(r) ==
  /\ pc = "app"
  /\ rtc' = TempRecord(rtc, r)
  /\ UNCHANGED <<flash, pc, locals, app>>

\* The ROM manager writes a part of an image.  The slot it installs to, its own
\* among the choices, may be lost to check_image or found by it half-way through;
\* an image larger than its slot runs into the next.
InstallPart(s) ==
  /\ pc = "app"
  /\ good' = IF s \in good THEN good \ {s} ELSE good \cup {s}
  /\ UNCHANGED <<cfg, sdk, rtc, pc, locals, app>>

\* It has written all of it.  Updater::end leaves a command for the boot loader of
\* the Arduino core, at the place in RTC memory where rBoot keeps its record:
\* that one's checksum does not match any longer.
InstallEnd ==
  /\ pc = "app"
  /\ rtc' = NoRtc
  /\ UNCHANGED <<flash, pc, locals, app>>

\* The SDK stores its settings (WiFi.begin).
SaveSdkConfig ==
  /\ pc = "app"
  /\ ~sdk
  /\ sdk' = TRUE
  /\ UNCHANGED <<cfg, good, rtc, pc, locals, app>>

ApiNext ==
  \/ \E s \in Slots : InstallPart(s)
  \/ \E s \in AppSettings : SetConfig(s)
  \/ \E r \in Bytes : SetCurrentRom(r) \/ SetTempRom(r)
  \/ ApiErase \/ ApiWrite \/ InstallEnd \/ SaveSdkConfig
=============================================================================
