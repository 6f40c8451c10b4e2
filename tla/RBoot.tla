------------------------------- MODULE RBoot -------------------------------
(***************************************************************************)
(* The badge: the boot loader and the ROM it started take turns on one      *)
(* processor, and a reset or a power cut may come between any two steps.    *)
(* Flash outlives both, RTC memory only the reset.                          *)
(***************************************************************************)
EXTENDS RBootApi

Init ==
  /\ cfg = ErasedSector            \* a new badge: rBoot is flashed, no sector yet
  /\ good \in SUBSET Slots
  /\ sdk \in BOOLEAN
  /\ rtc = NoRtc
  /\ pc = "readConfig"
  /\ romconf = ErasedSector
  /\ romToBoot = 0
  /\ temp_boot = FALSE /\ gpio_boot = FALSE /\ updateConfig = FALSE
  /\ pin = FALSE
  /\ running = NoRom /\ mapped = NoRom

\* A write of the sector may be under way.
Writing == pc \in {"writeDefault", "writeConfig", "apiWrite"}

\* The processor starts over.  Its locals get their values again before they
\* are read; here they go back to the ones of Init.
StartOver ==
  /\ pc' = "readConfig"
  /\ romconf' = ErasedSector
  /\ romToBoot' = 0
  /\ temp_boot' = FALSE /\ gpio_boot' = FALSE /\ updateConfig' = FALSE
  /\ pin' = FALSE
  /\ running' = NoRom /\ mapped' = NoRom
  /\ cfg' \in IF Writing THEN {Torn(romconf, w) : w \in Words} ELSE {cfg}
  /\ UNCHANGED <<good, sdk>>

\* ESP.restart, the watchdog, an exception or the reset button
Reset ==
  /\ StartOver
  /\ UNCHANGED rtc

\* What RTC memory holds after power-on is arbitrary: mostly the checksum does
\* not match, but one byte may match by chance, and only the checksum is tested.
PowerOnRecords ==
  {NoRtc} \cup {[NoRtc EXCEPT !.ok = TRUE, !.temp = TRUE, !.temp_rom = r] : r \in Bytes}

PowerCycle ==
  /\ StartOver
  /\ rtc' \in PowerOnRecords

Interrupted == Reset \/ PowerCycle

Next == FindImageNext \/ ApiNext \/ Interrupted

Spec == Init /\ [][Next]_vars

\* The processor executes the boot loader.  What a ROM does is up to the ROM.
Fairness == WF_vars(FindImageNext)

FairSpec == Spec /\ Fairness

-----------------------------------------------------------------------------
TypeOK ==
  /\ cfg \in Configs /\ romconf \in Configs
  /\ good \in SUBSET Slots
  /\ sdk \in BOOLEAN
  /\ rtc \in RtcRecords
  /\ pc \in Locations
  /\ romToBoot \in Bytes
  /\ temp_boot \in BOOLEAN /\ gpio_boot \in BOOLEAN
  /\ updateConfig \in BOOLEAN /\ pin \in BOOLEAN
  /\ running \in Bytes \cup {NoRom} /\ mapped \in Slots \cup {NoRom}

InConfig(c) == {r \in Bytes : r < c.count}

\* The ROMs the fallback passes on its way down from current_rom to r, round
\* the end of the table: those after r up to current_rom.
Above(c, r) ==
  {q \in InConfig(c) : IF r < c.current_rom THEN r < q /\ q <= c.current_rom
                       ELSE r < q \/ q <= c.current_rom}

\* A ROM of the table that can be booted.
Usable(r) == InTable(cfg, r) /\ Bootable(cfg, good, r)

\* The temp request this boot has found; one whose ROM was bad is dropped from
\* RTC memory, but the number is still there.
Requested == temp_boot \/ TempRequested(rtc)

\* Two halts the stored ROM need not suffer, both in the code as it stands.
\* The pin or a request named a ROM, but the stored number is out of range and
\* ROM 0 takes the place of the one named, whose image is never looked at
\* (rboot.c:490-495).
Redirected ==
  /\ pin \/ temp_boot
  /\ ~InTable(cfg, cfg.current_rom) /\ ~Usable(0)

\* No ROM made the request: RTC memory passed for a record after power-on,
\* because the magic of the record is never compared (rboot.c:447).
ByChance == Requested /\ ~pin /\ ~rtc.magic /\ ~Usable(rtc.temp_rom)

\* rBoot gives up for a reason: the pin, or else the request a ROM has made,
\* names a ROM that is not in the table or is not good, or no ROM of the table
\* is good, so that a standard boot fails only when every ROM it could have
\* tried is bad (find_image, its four `return 0`).  The two halts above are the
\* only others.
HaltJustified ==
  pc = "halt" =>
    \/ pin /\ ~Usable(cfg.gpio_rom)
    \/ Requested /\ ~pin /\ rtc.magic /\ ~Usable(rtc.temp_rom)
    \/ \A r \in InConfig(cfg) : ~Bootable(cfg, good, r)
    \/ Redirected
    \/ ByChance

\* The ROM rBoot is about to start is good and in the configuration as flash
\* holds it at that moment, whatever happened to the sector on the way.
LaunchedRomBootable ==
  pc \in {"launch", "map"} =>
    /\ romToBoot < cfg.count
    /\ Bootable(cfg, good, romToBoot)

\* The fallback takes the nearest good ROM below the stored one: all those it
\* passed over are bad (the while loop of find_image).
FallbackIsNearest ==
  pc = "chosen" /\ ~gpio_boot /\ ~temp_boot =>
    /\ Bootable(romconf, good, romToBoot)
    /\ romToBoot # romconf.current_rom =>
         \A q \in Above(romconf, romToBoot) : ~Bootable(romconf, good, q)

\* The megabyte the cache maps is that of the ROM that runs, although
\* Cache_Read_Enable_New finds it through RTC memory and the sector in flash
\* and checks neither.
MapsRunningRom == pc \in AppLocations => mapped = running

\* A temp boot does not update the stored configuration (rboot_set_temp_rom),
\* if that one selects a ROM that exists.
TempBootKeepsConfig ==
  [][(/\ pc \in BootLocations
       /\ temp_boot /\ ~gpio_boot
       /\ cfg.current_rom < cfg.count) => cfg' = cfg]_vars

\* A boot replaces the sector by one that differs in current_rom alone: what a
\* ROM stored in the other fields is still there (find_image rewrites all of it).
Settings(c) == <<c.mode, c.gpio_rom, c.count, c.roms>>

RewriteKeepsSettings ==
  [][(pc = "chosen" /\ pc' = "writeConfig") => Settings(romconf') = Settings(cfg)]_vars

\* If resets stop, every boot comes to an end: a ROM runs or rBoot gives up.
BootEnds ==
  <>[][~Interrupted]_vars =>
     ((pc = "readConfig") ~> (pc \in {"app", "halt"}))
=============================================================================
