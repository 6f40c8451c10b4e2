---------------------------- MODULE RBootProofs ----------------------------
(***************************************************************************)
(* Proofs about RBoot, for every number of slots, every configuration and   *)
(* every interleaving of resets and power cuts with the boot loader's steps. *)
(***************************************************************************)
EXTENDS RBootRefinement, TLAPS

\* The facts about numbers and sets the assumptions on the constants give.
LEMMA ConstantFacts ==
  /\ MaxRoms \in Nat /\ Erased \in Nat
  /\ 0 < MaxRoms /\ MaxRoms < Erased
  /\ 0 \in Bytes /\ Slots \subseteq Bytes /\ NoRom \notin Bytes
BY MaxRomsAssumption, ErasedAssumption, NoRomAssumption DEF Slots, Bytes

\* The configurations the code makes are configurations (default_config, the
\* erased sector, a sector whose write was cut short).
LEMMA ConfigTypes ==
  /\ ErasedSector \in Configs
  /\ DefaultConfig \in Configs
  /\ \A c \in Configs, w \in Words : Torn(c, w) \in Configs
<1>1. ErasedSector \in Configs
  BY ConstantFacts DEF ErasedSector, Configs, Modes, Bytes
<1>2. DefaultConfig \in Configs
  BY ConstantFacts, DefaultAssumption DEF DefaultConfig, Configs, Modes, Bytes
<1>3. ASSUME NEW c \in Configs, NEW w \in Words
      PROVE  Torn(c, w) \in Configs
  <2>1. CASE w = 0
    BY <1>1, <2>1 DEF Torn
  <2>2. CASE w # 0
    <3>1. {r \in c.roms : r + 2 < w} \in SUBSET Slots
      BY DEF Configs
    <3>2. Erased \in Bytes /\ Erased \in 1..Erased
      BY ConstantFacts DEF Bytes
    <3>3. ASSUME NEW g \in Bytes, NEW n \in 1..Erased, NEW rs \in SUBSET Slots
          PROVE  [c EXCEPT !.gpio_rom = g, !.count = n, !.roms = rs] \in Configs
      BY DEF Configs
    <3>4. c.gpio_rom \in Bytes /\ c.count \in 1..Erased
      BY DEF Configs
    <3>5. QED BY <2>2, <3>1, <3>2, <3>3, <3>4 DEF Torn
  <2>3. QED BY <2>1, <2>2
<1>4. QED BY <1>1, <1>2, <1>3

\* The RTC records the code and a power-on leave are RTC records.
LEMMA RtcTypes ==
  /\ NoRtc \in RtcRecords
  /\ PowerOnRecords \subseteq RtcRecords
  /\ \A r \in Bytes, t \in BOOLEAN, g \in BOOLEAN : BootRecord(r, t, g) \in RtcRecords
  /\ \A old \in RtcRecords, r \in Bytes : TempRecord(old, r) \in RtcRecords
<1>1. NoRtc \in RtcRecords
  BY ConstantFacts DEF NoRtc, RtcRecords
<1>2. PowerOnRecords \subseteq RtcRecords
  BY <1>1 DEF PowerOnRecords, RtcRecords, NoRtc
<1>3. ASSUME NEW r \in Bytes, NEW t \in BOOLEAN, NEW g \in BOOLEAN
      PROVE  BootRecord(r, t, g) \in RtcRecords
  BY ConstantFacts DEF BootRecord, RtcRecords
<1>4. ASSUME NEW old \in RtcRecords, NEW r \in Bytes
      PROVE  TempRecord(old, r) \in RtcRecords
  BY ConstantFacts DEF TempRecord, RtcRecords
<1>5. QED BY <1>1, <1>2, <1>3, <1>4

USE DEF Step, flash, locals, app, InTable

\* A sector in which ROM r can be selected, and one a ROM configures, are
\* configurations.
LEMMA EditedConfigs ==
  ASSUME NEW c \in Configs
  PROVE  /\ \A r \in Bytes : [c EXCEPT !.current_rom = r] \in Configs
         /\ \A s \in AppSettings :
              [c EXCEPT !.mode = s.mode, !.current_rom = s.current_rom,
                        !.gpio_rom = s.gpio_rom, !.count = s.count] \in Configs
<1>1. ASSUME NEW r \in Bytes
      PROVE  [c EXCEPT !.current_rom = r] \in Configs
  BY DEF Configs
<1>2. ASSUME NEW s \in AppSettings
      PROVE  [c EXCEPT !.mode = s.mode, !.current_rom = s.current_rom,
                       !.gpio_rom = s.gpio_rom, !.count = s.count] \in Configs
  <2>1. /\ s.mode \in Modes /\ s.current_rom \in Bytes /\ s.gpio_rom \in Bytes
        /\ s.count \in 1..Erased
    BY AppSettingsAssumption, ConstantFacts
  <2>2. QED BY <2>1 DEF Configs
<1>3. QED BY <1>1, <1>2

\* The type invariant is inductive: no step of rBoot, of a ROM or of an
\* interruption leaves the types.
LEMMA TypeStep == TypeOK /\ [Next]_vars => TypeOK'
<1> SUFFICES ASSUME TypeOK, [Next]_vars PROVE TypeOK'
  OBVIOUS
<1> USE DEF TypeOK
<1>1. CASE ReadConfig
  <2>1. romconf' \in Configs BY <1>1, ConfigTypes DEF ReadConfig
  <2>2. romToBoot' \in Bytes BY <1>1, <2>1 DEF ReadConfig, Configs
  <2>3. QED BY <1>1, <2>1, <2>2 DEF ReadConfig, Locations, BootLocations
<1>2. CASE EraseInvalid
  BY <1>2, ConfigTypes DEF EraseInvalid, Locations, BootLocations
<1>3. CASE WriteDefault
  BY <1>3 DEF WriteDefault, Locations, BootLocations
<1>4. CASE TempRom
  BY <1>4 DEF TempRom, RtcRecords, Locations, BootLocations
<1>5. ASSUME NEW level \in BOOLEAN, GpioRom(level) PROVE TypeOK'
  BY <1>5 DEF GpioRom, PerformGpioBoot, Configs, Locations, BootLocations
<1>6. CASE CurrentRom
  BY <1>6, ConstantFacts, EditedConfigs DEF CurrentRom, Locations, BootLocations
<1>7. CASE RomGood \/ GpioRomBad \/ StoredRomBad
  BY <1>7 DEF RomGood, GpioRomBad, StoredRomBad, Locations, BootLocations
<1>8. CASE TempRomBad
  BY <1>8 DEF TempRomBad, RtcRecords, Locations, BootLocations
<1>9. CASE TryPrevious
  <2>1. Previous(romconf, romToBoot) \in Bytes
    BY ConstantFacts DEF Previous, Configs, Bytes
  <2>2. QED BY <1>9, <2>1 DEF TryPrevious, Locations, BootLocations
<1>10. CASE KeepConfig
  BY <1>10 DEF KeepConfig, Locations, BootLocations
<1>11. CASE EraseConfig
  BY <1>11, ConfigTypes, EditedConfigs DEF EraseConfig, Locations, BootLocations
<1>12. CASE WriteConfig
  BY <1>12 DEF WriteConfig, Locations, BootLocations
<1>13. CASE WriteRtc
  BY <1>13, RtcTypes DEF WriteRtc, Locations, BootLocations
<1>14. CASE Launch
  BY <1>14 DEF Launch, Locations, BootLocations
<1>15. CASE MapFlash
  BY <1>15 DEF MapFlash, MappedSlot, Configs, Locations, AppLocations
<1>16. ASSUME NEW r \in Bytes, SetCurrentRom(r) PROVE TypeOK'
  BY <1>16, EditedConfigs DEF SetCurrentRom, Locations, AppLocations
<1>17. ASSUME NEW s \in AppSettings, SetConfig(s) PROVE TypeOK'
  BY <1>17, EditedConfigs DEF SetConfig, Locations, AppLocations
<1>18. CASE ApiErase
  BY <1>18, ConfigTypes DEF ApiErase, Locations, AppLocations
<1>19. CASE ApiWrite
  BY <1>19 DEF ApiWrite, Locations, AppLocations
<1>20. ASSUME NEW r \in Bytes, SetTempRom(r) PROVE TypeOK'
  BY <1>20, RtcTypes DEF SetTempRom
<1>21. CASE InstallEnd \/ (\E s \in Slots : InstallPart(s))
  BY <1>21, RtcTypes DEF InstallPart, InstallEnd
<1>22. CASE SaveSdkConfig
  BY <1>22 DEF SaveSdkConfig
<1>23. CASE Interrupted
  <2>1. cfg' \in Configs
    BY <1>23, ConfigTypes DEF Interrupted, Reset, PowerCycle, StartOver
  <2>2. rtc' \in RtcRecords
    BY <1>23, RtcTypes DEF Interrupted, Reset, PowerCycle
  <2>3. QED
    BY <1>23, <2>1, <2>2, ConfigTypes, ConstantFacts
    DEF Interrupted, Reset, PowerCycle, StartOver, Locations, BootLocations
<1>24. CASE UNCHANGED vars
  BY <1>24 DEF vars
<1>25. QED
  BY <1>1, <1>2, <1>3, <1>4, <1>5, <1>6, <1>7, <1>8, <1>9, <1>10, <1>11, <1>12,
     <1>13, <1>14, <1>15, <1>16, <1>17, <1>18, <1>19, <1>20, <1>21, <1>22, <1>23, <1>24
  DEF Next, FindImageNext, ApiNext

\* Every variable keeps its type in every behaviour of the badge.
THEOREM TypeCorrect == Spec => []TypeOK
<1>1. Init => TypeOK
  BY ConfigTypes, RtcTypes, ConstantFacts
  DEF Init, TypeOK, Locations, BootLocations
<1>2. QED BY <1>1, TypeStep, PTL DEF Spec

-----------------------------------------------------------------------------
(***************************************************************************)
(* The inductive invariant: what the boot loader has established at each    *)
(* place.  LaunchedRomBootable and the others look at single places and say       *)
(* nothing of the way there.                                                *)
(***************************************************************************)

\* The sector holds what the buffer does, but for current_rom, or is erased.
BufferAgrees ==
  /\ pc \in {"tempRom", "gpioRom", "currentRom"} => romconf = cfg
  /\ pc \in {"checkRom", "romBad", "chosen"} => Settings(romconf) = Settings(cfg)
  /\ pc \in {"writeDefault", "writeConfig"} => cfg = ErasedSector

\* Neither override is set before it is looked for, and the ROM is the one
\* they name or else the stored one.
SelectionInv ==
  /\ pc \in {"readConfig", "eraseInvalid", "writeDefault", "tempRom", "gpioRom"} =>
       ~gpio_boot /\ ~updateConfig
  /\ pc \in {"readConfig", "eraseInvalid", "writeDefault", "tempRom"} => ~temp_boot
  /\ pc \in {"eraseInvalid", "writeDefault", "tempRom", "gpioRom", "currentRom", "checkRom"} =>
       /\ temp_boot \/ gpio_boot => romToBoot < romconf.count
       /\ ~temp_boot /\ ~gpio_boot => romToBoot = romconf.current_rom
  /\ pc \in {"checkRom", "romBad"} => romconf.current_rom < romconf.count

\* A temp boot has no reason to replace the sector but a selection out of range.
UpdateInv ==
  pc \in {"currentRom", "checkRom", "romBad", "chosen"} =>
    (updateConfig /\ temp_boot /\ ~gpio_boot => ~InTable(cfg, cfg.current_rom))

AboveBad ==
  romToBoot # romconf.current_rom =>
    \A q \in Above(romconf, romToBoot) : ~Bootable(romconf, good, q)

\* The loop: the ROM at hand and all it has passed over are bad.
SearchInv ==
  /\ pc = "romBad" =>
       /\ ~temp_boot /\ ~gpio_boot
       /\ romToBoot < romconf.count
       /\ ~Bootable(romconf, good, romToBoot)
       /\ AboveBad
  /\ pc \in {"chosen", "writeConfig"} =>
       /\ romToBoot < romconf.count
       /\ Bootable(romconf, good, romToBoot)
  /\ pc = "chosen" /\ ~temp_boot /\ ~gpio_boot => AboveBad

\* On the way to the ROM: flash holds it and its address, RTC memory its number.
HandoverInv ==
  /\ pc \in {"writeRtc", "launch", "map"} =>
       romToBoot < cfg.count /\ Bootable(cfg, good, romToBoot)
  /\ pc \in {"launch", "map"} => rtc.last_rom = romToBoot
  /\ pc = "map" => running = romToBoot

BootInv ==
  /\ BufferAgrees
  /\ SelectionInv
  /\ UpdateInv
  /\ SearchInv
  /\ HandoverInv
  /\ MapsRunningRom

\* One round down the table: the ROM below r is in the table; it is the stored
\* one only when every ROM has been passed over, and if it is not, what was
\* passed over is still all bad.
LEMMA AboveStep ==
  ASSUME NEW c \in Configs, NEW g, NEW r \in Bytes,
         r < c.count, c.current_rom < c.count,
         ~Bootable(c, g, r),
         r # c.current_rom => \A q \in Above(c, r) : ~Bootable(c, g, q)
  PROVE  LET p == Previous(c, r)
         IN  /\ p \in Bytes /\ p < c.count
             /\ p # c.current_rom => \A q \in Above(c, p) : ~Bootable(c, g, q)
             /\ p = c.current_rom => \A q \in InConfig(c) : ~Bootable(c, g, q)
<1> DEFINE p == Previous(c, r)
<1>0. /\ c.count \in 1..Erased /\ c.current_rom \in Bytes /\ Erased \in Nat
  BY ConstantFacts DEF Configs
<1>1. p \in Bytes /\ p < c.count
  BY <1>0 DEF Previous, Bytes
<1>2. ASSUME p # c.current_rom, NEW q \in Above(c, p)
      PROVE  ~Bootable(c, g, q)
  <2>1. q = r \/ (r # c.current_rom /\ q \in Above(c, r))
    BY <1>0, <1>2 DEF Previous, Above, InConfig, Bytes
  <2>2. QED BY <2>1
<1>3. ASSUME p = c.current_rom, NEW q \in InConfig(c)
      PROVE  ~Bootable(c, g, q)
  <2>1. q = r \/ (r # c.current_rom /\ q \in Above(c, r))
    BY <1>0, <1>3 DEF Previous, Above, InConfig, Bytes
  <2>2. QED BY <2>1
<1>4. QED BY <1>1, <1>2, <1>3

\* Every step of rBoot, of a ROM or of an interruption preserves the invariant.
LEMMA BootStep == TypeOK /\ BootInv /\ [Next]_vars => BootInv'
<1> SUFFICES ASSUME TypeOK, BootInv, [Next]_vars PROVE BootInv'
  OBVIOUS
<1> USE DEF BootInv, BufferAgrees, SelectionInv, UpdateInv, SearchInv, HandoverInv,
            MapsRunningRom
<1>1. CASE ReadConfig
  BY <1>1 DEF ReadConfig, Settings, AppLocations
<1>2. CASE EraseInvalid
  BY <1>2 DEF EraseInvalid, AppLocations
<1>3. CASE WriteDefault
  BY <1>3 DEF WriteDefault, Settings, AppLocations
<1>4. CASE TempRom
  BY <1>4 DEF TempRom, Settings, AppLocations
<1>5. ASSUME NEW level \in BOOLEAN, GpioRom(level) PROVE BootInv'
  <2>1. romconf' = romconf /\ cfg' = cfg /\ good' = good /\ rtc' = rtc /\ temp_boot' = temp_boot
    BY <1>5 DEF GpioRom
  <2>2. UpdateInv'
    <3>1. updateConfig' = gpio_boot'
      BY <1>5 DEF GpioRom
    <3>2. ~(updateConfig' /\ ~gpio_boot')
      BY ONLY <3>1, Zenon
    <3>3. QED BY <3>2
  <2>3. SelectionInv'
    BY <1>5, <2>1 DEF GpioRom, PerformGpioBoot
  <2>4. QED
    BY <1>5, <2>1, <2>2, <2>3 DEF GpioRom, Settings, AppLocations
<1>6. CASE CurrentRom
  <2>1. /\ cfg' = cfg /\ good' = good /\ rtc' = rtc
        /\ temp_boot' = temp_boot /\ gpio_boot' = gpio_boot
    BY <1>6 DEF CurrentRom
  <2>2. romconf \in Configs /\ romconf.count \in 1..Erased /\ Erased \in Nat
    BY ConstantFacts DEF TypeOK, Configs
  <2>3. Settings(romconf') = Settings(romconf)
    BY <1>6, <2>2 DEF CurrentRom, Settings, Configs
  <2>4. romconf = cfg
    BY <1>6 DEF CurrentRom
  <2>5. pc = "currentRom" /\ pc' = "checkRom"
    BY <1>6 DEF CurrentRom
  <2>6. CASE ~InTable(romconf, romconf.current_rom)
    <3>1. romToBoot' = 0 /\ romconf' = [romconf EXCEPT !.current_rom = 0]
      BY <1>6, <2>6 DEF CurrentRom
    <3>2. romconf'.current_rom = 0 /\ romconf'.count = romconf.count
      BY <2>2, <3>1 DEF Configs
    <3>3. SelectionInv'
      BY <2>2, <2>5, <3>1, <3>2
    <3>4. UpdateInv'
      BY <2>1, <2>4, <2>6
    <3>5. QED
      BY <2>1, <2>3, <2>4, <2>5, <3>3, <3>4 DEF AppLocations
  <2>7. CASE InTable(romconf, romconf.current_rom)
    <3>1. UNCHANGED <<romToBoot, romconf, updateConfig>>
      BY <1>6, <2>7 DEF CurrentRom
    <3>2. SelectionInv'
      BY <2>1, <2>2, <2>5, <2>7, <3>1 DEF Bytes, Configs
    <3>3. UpdateInv'
      BY <2>1, <2>5, <3>1
    <3>4. QED
      BY <2>1, <2>3, <2>4, <2>5, <3>2, <3>3 DEF AppLocations
  <2>8. QED BY <2>6, <2>7
<1>7. CASE RomGood \/ GpioRomBad \/ StoredRomBad
  BY <1>7 DEF RomGood, GpioRomBad, StoredRomBad, AboveBad, AppLocations
<1>8. CASE TempRomBad
  BY <1>8 DEF TempRomBad, AppLocations
<1>9. CASE TryPrevious
  <2>1. romToBoot' = Previous(romconf, romToBoot)
    BY <1>9 DEF TryPrevious
  <2>2. /\ romToBoot' < romconf.count
        /\ romToBoot' # romconf.current_rom =>
             \A q \in Above(romconf, romToBoot') : ~Bootable(romconf, good, q)
        /\ romToBoot' = romconf.current_rom =>
             \A q \in InConfig(romconf) : ~Bootable(romconf, good, q)
    BY <1>9, <2>1, AboveStep DEF TryPrevious, TypeOK, AboveBad
  <2>3. QED
    BY <1>9, <2>1, <2>2 DEF TryPrevious, AllTried, AboveBad, AppLocations
<1>10. CASE KeepConfig
  <2>1. romconf.count = cfg.count /\ romconf.roms = cfg.roms
    BY <1>10 DEF KeepConfig, Settings
  <2>2. QED
    BY <1>10, <2>1 DEF KeepConfig, Bootable, AppLocations
<1>11. CASE EraseConfig
  <2>1. romconf'.count = romconf.count /\ romconf'.roms = romconf.roms
    BY <1>11 DEF EraseConfig, TypeOK, Configs
  <2>2. QED
    BY <1>11, <2>1 DEF EraseConfig, Bootable, AppLocations
<1>12. CASE WriteConfig
  BY <1>12 DEF WriteConfig, AppLocations
<1>13. CASE WriteRtc
  BY <1>13 DEF WriteRtc, BootRecord, AppLocations
<1>14. CASE Launch
  BY <1>14 DEF Launch, AppLocations
<1>15. CASE MapFlash
  BY <1>15 DEF MapFlash, MappedSlot, Bootable, AppLocations
<1>16. ASSUME NEW r \in Bytes, SetCurrentRom(r) PROVE BootInv'
  BY <1>16 DEF SetCurrentRom, AppLocations
<1>17. ASSUME NEW s \in AppSettings, SetConfig(s) PROVE BootInv'
  BY <1>17 DEF SetConfig, AppLocations
<1>18. CASE ApiErase \/ ApiWrite
  BY <1>18 DEF ApiErase, ApiWrite, AppLocations
<1>19. ASSUME NEW r \in Bytes, SetTempRom(r) PROVE BootInv'
  BY <1>19 DEF SetTempRom, AppLocations
<1>20. CASE InstallEnd \/ (\E s \in Slots : InstallPart(s))
  BY <1>20 DEF InstallPart, InstallEnd, AppLocations
<1>21. CASE SaveSdkConfig
  BY <1>21 DEF SaveSdkConfig, AppLocations
<1>22. CASE Interrupted
  BY <1>22 DEF Interrupted, Reset, PowerCycle, StartOver, AppLocations
<1>23. CASE UNCHANGED vars
  BY <1>23 DEF vars, AboveBad
<1>24. QED
  BY <1>1, <1>2, <1>3, <1>4, <1>5, <1>6, <1>7, <1>8, <1>9, <1>10, <1>11, <1>12,
     <1>13, <1>14, <1>15, <1>16, <1>17, <1>18, <1>19, <1>20, <1>21, <1>22, <1>23
  DEF Next, FindImageNext, ApiNext

\* The invariant holds throughout.
THEOREM BootInvariant == Spec => [](TypeOK /\ BootInv)
<1>1. Init => BootInv
  BY DEF Init, BootInv, BufferAgrees, SelectionInv, UpdateInv, SearchInv, HandoverInv,
         MapsRunningRom, AppLocations
<1>2. TypeOK /\ BootInv /\ [Next]_vars => (TypeOK /\ BootInv)'
  BY TypeStep, BootStep
<1>3. QED BY <1>1, <1>2, TypeCorrect, PTL DEF Spec

\* The ROM rBoot starts is good and in the sector as flash holds it then.
THEOREM StartsGoodRom == Spec => []LaunchedRomBootable
<1>1. BootInv => LaunchedRomBootable
  BY DEF BootInv, HandoverInv, LaunchedRomBootable
<1>2. QED BY <1>1, BootInvariant, PTL

\* The fallback passes over bad ROMs only.
THEOREM FallsBackToNearest == Spec => []FallbackIsNearest
<1>1. BootInv => FallbackIsNearest
  BY DEF BootInv, SearchInv, AboveBad, FallbackIsNearest
<1>2. QED BY <1>1, BootInvariant, PTL

\* Cache_Read_Enable_New maps the megabyte of the ROM that runs, through any
\* sequence of writes of the sector and of RTC memory.
THEOREM MapsTheRunningRom == Spec => []MapsRunningRom
BY BootInvariant, PTL DEF BootInv

\* A temp boot leaves the stored configuration alone.
THEOREM TempBootIsTemporary == Spec => TempBootKeepsConfig
<1> DEFINE Keeps == (/\ pc \in BootLocations
                     /\ temp_boot /\ ~gpio_boot
                     /\ cfg.current_rom < cfg.count) => cfg' = cfg
<1>1. TypeOK /\ BootInv /\ [Next]_vars => Keeps
  <2> SUFFICES ASSUME TypeOK, BootInv, [Next]_vars, pc \in BootLocations,
                      temp_boot, ~gpio_boot, cfg.current_rom < cfg.count
               PROVE  cfg' = cfg
    OBVIOUS
  <2>0. /\ cfg.current_rom \in 0..Erased /\ cfg.count \in 1..Erased
        /\ Erased \in Nat /\ ErasedSector.current_rom = ErasedSector.count
    BY ConstantFacts DEF TypeOK, Configs, Bytes, ErasedSector
  <2>1. CASE EraseInvalid \/ WriteDefault
    BY <2>1 DEF EraseInvalid, WriteDefault, BootInv, SelectionInv
  <2>2. CASE EraseConfig
    BY <2>0, <2>2 DEF EraseConfig, BootInv, UpdateInv
  <2>3. pc \notin {"writeDefault", "writeConfig"}
    BY <2>0 DEF BootInv, BufferAgrees
  <2>4. CASE WriteConfig
    BY <2>3, <2>4 DEF WriteConfig
  <2>5. CASE \/ ReadConfig \/ TempRom \/ (\E level \in BOOLEAN : GpioRom(level))
             \/ CurrentRom \/ RomGood \/ GpioRomBad \/ TempRomBad \/ StoredRomBad
             \/ TryPrevious \/ KeepConfig \/ WriteRtc \/ Launch \/ MapFlash
    BY <2>5 DEF ReadConfig, TempRom, GpioRom, CurrentRom, RomGood, GpioRomBad,
      TempRomBad, StoredRomBad, TryPrevious, KeepConfig, WriteRtc, Launch, MapFlash
  <2>6. CASE ApiNext
    BY <2>6 DEF ApiNext, SetCurrentRom, SetConfig, SetTempRom, ApiErase, ApiWrite,
      InstallPart, InstallEnd, SaveSdkConfig, BootLocations
  <2>7. CASE Interrupted
    <3>1. ~Writing
      BY <2>3 DEF Writing, BootLocations
    <3>2. QED BY <2>7, <3>1 DEF Interrupted, Reset, PowerCycle, StartOver
  <2>8. CASE UNCHANGED vars
    BY <2>8 DEF vars
  <2>9. QED
    BY <2>1, <2>2, <2>4, <2>5, <2>6, <2>7, <2>8 DEF Next, FindImageNext
<1>2. QED BY <1>1, BootInvariant, PTL DEF Spec, TempBootKeepsConfig

\* Replacing the sector, rBoot changes current_rom alone.
THEOREM RewriteIsMinimal == Spec => RewriteKeepsSettings
<1>1. TypeOK /\ BootInv /\ [Next]_vars /\ pc = "chosen" /\ pc' = "writeConfig" =>
        Settings(romconf') = Settings(cfg)
  <2> SUFFICES ASSUME TypeOK, BootInv, [Next]_vars, pc = "chosen", pc' = "writeConfig"
               PROVE  Settings(romconf') = Settings(cfg)
    OBVIOUS
  <2>1. romconf' = [romconf EXCEPT !.current_rom = romToBoot]
    <3>1. EraseConfig
      BY DEF Next, FindImageNext, ApiNext, Interrupted, Reset, PowerCycle, StartOver,
        ReadConfig, EraseInvalid, WriteDefault, TempRom, GpioRom, CurrentRom,
        RomGood, GpioRomBad, TempRomBad, StoredRomBad, TryPrevious, KeepConfig,
        WriteConfig, WriteRtc, Launch, MapFlash, SetCurrentRom, SetConfig,
        SetTempRom, ApiErase, ApiWrite, InstallPart, InstallEnd, SaveSdkConfig, vars
    <3>2. QED BY <3>1 DEF EraseConfig
  <2>2. Settings(romconf') = Settings(romconf)
    BY <2>1 DEF Settings, TypeOK, Configs
  <2>3. QED BY <2>2 DEF BootInv, BufferAgrees
<1>2. QED BY <1>1, BootInvariant, PTL DEF Spec, RewriteKeepsSettings

-----------------------------------------------------------------------------
(***************************************************************************)
(* RBoot implements BootPolicy: the initial states map to initial states and  *)
(* every step to a step of the policy or to none.                             *)
(*                                                                         *)
(* BootInv tells that a ROM is a good one; that it is the one the policy      *)
(* chooses takes more: at each place, how the buffer, the overrides and       *)
(* romToBoot come of the sector, the request in RTC memory and the pin.       *)
(***************************************************************************)

\* What the sector says, an out-of-range selection being 0.
Selected(c) == IF InTable(c, c.current_rom) THEN c.current_rom ELSE 0

\* The ROM named by the pin, by the request in RTC memory, or else stored.
Named(c) == IF pin THEN c.gpio_rom ELSE IF temp_boot THEN rtc.temp_rom ELSE c.current_rom

SectorInv ==
  /\ pc = "eraseInvalid" => ~cfg.valid
  /\ pc \in {"eraseInvalid", "writeDefault"} => romconf = DefaultConfig
  /\ pc \in {"tempRom", "gpioRom", "currentRom", "checkRom", "romBad"} => cfg.valid
  /\ pc \in {"checkRom", "romBad", "chosen"} =>
       romconf = [cfg EXCEPT !.current_rom = Selected(cfg)]

OverrideInv ==
  /\ pc \in {"readConfig", "eraseInvalid", "writeDefault", "tempRom"} => ~pin
  /\ pc \in {"gpioRom", "currentRom", "checkRom", "romBad"} =>
       /\ temp_boot <=> TempRequested(rtc)
       /\ temp_boot => rtc.temp_rom < cfg.count
  /\ pc \in {"currentRom", "checkRom", "romBad"} =>
       /\ gpio_boot <=> pin
       /\ pin => cfg.gpio_rom < cfg.count

NamedInv ==
  /\ pc = "gpioRom" => romToBoot = IF temp_boot THEN rtc.temp_rom ELSE cfg.current_rom
  /\ pc = "currentRom" => romToBoot = Named(cfg) /\ (updateConfig <=> pin)
  /\ pc = "checkRom" =>
       /\ romToBoot = IF InTable(cfg, cfg.current_rom) THEN Named(cfg) ELSE 0
       /\ updateConfig <=> pin \/ ~InTable(cfg, cfg.current_rom)

\* The choice is in the sector by the time the ROM is started, or is temporary.
StoredInv ==
  /\ pc = "chosen" /\ ~temp_boot /\ ~updateConfig => romToBoot = cfg.current_rom
  /\ pc = "writeConfig" => romconf.current_rom = romToBoot
  /\ pc = "writeRtc" => (temp_boot /\ ~updateConfig) \/ cfg.current_rom = romToBoot

\* The write of a running ROM is one the policy knows.
ApiInv ==
  pc = "apiErase" =>
    \/ \E r \in Bytes : r < cfg.count /\ romconf = [cfg EXCEPT !.current_rom = r]
    \/ \E s \in AppSettings :
         romconf = [cfg EXCEPT !.mode = s.mode, !.current_rom = s.current_rom,
                               !.gpio_rom = s.gpio_rom, !.count = s.count]

PolicyInv == SectorInv /\ OverrideInv /\ NamedInv /\ StoredInv /\ ApiInv

USE DEF Step, flash, locals, app, InTable

LEMMA PolicyInit == Init => PolicyInv
BY DEF Init, PolicyInv, SectorInv, OverrideInv, NamedInv, StoredInv, ApiInv

\* Every step of rBoot, of a ROM or of an interruption preserves the invariant.
LEMMA PolicyStep == TypeOK /\ BootInv /\ PolicyInv /\ [Next]_vars => PolicyInv'
<1> SUFFICES ASSUME TypeOK, BootInv, PolicyInv, [Next]_vars PROVE PolicyInv'
  OBVIOUS
<1> USE DEF PolicyInv, SectorInv, OverrideInv, NamedInv, StoredInv, ApiInv
<1>1. CASE ReadConfig
  BY <1>1 DEF ReadConfig
<1>2. CASE EraseInvalid
  BY <1>2 DEF EraseInvalid
<1>3. CASE WriteDefault
  BY <1>3 DEF WriteDefault, DefaultConfig
<1>4. CASE TempRom
  BY <1>4 DEF TempRom, BootInv, BufferAgrees, SelectionInv
<1>5. ASSUME NEW level \in BOOLEAN, GpioRom(level) PROVE PolicyInv'
  BY <1>5 DEF GpioRom, PerformGpioBoot, BootInv, BufferAgrees, SelectionInv, Named
<1>6. CASE CurrentRom
  <2>1. /\ pc = "currentRom" /\ pc' = "checkRom" /\ romconf = cfg
        /\ UNCHANGED <<cfg, rtc, temp_boot, gpio_boot, pin>>
    BY <1>6 DEF CurrentRom, BootInv, BufferAgrees
  <2>2. cfg \in Configs
    BY DEF TypeOK
  <2>3. SectorInv'
    <3>1. CASE InTable(cfg, cfg.current_rom)
      <4>1. cfg = [cfg EXCEPT !.current_rom = cfg.current_rom]
        BY <2>2 DEF Configs
      <4>2. romconf' = [cfg EXCEPT !.current_rom = Selected(cfg)]
        BY <1>6, <2>1, <3>1, <4>1 DEF CurrentRom, Selected
      <4>3. QED BY <2>1, <4>2 DEF Selected
    <3>2. CASE ~InTable(cfg, cfg.current_rom)
      BY <1>6, <2>1, <3>2 DEF CurrentRom, Selected
    <3>3. QED BY <3>1, <3>2
  <2>4. NamedInv'
    BY <1>6, <2>1 DEF CurrentRom, Named
  <2>5. QED BY <2>1, <2>3, <2>4
<1>7. CASE RomGood
  BY <1>7 DEF RomGood, Named, Selected
<1>8. CASE GpioRomBad \/ StoredRomBad \/ TempRomBad
  <2>1. CASE GpioRomBad \/ TempRomBad
    BY <2>1 DEF GpioRomBad, TempRomBad
  <2>2. CASE StoredRomBad
    BY <2>2 DEF StoredRomBad, Selected
  <2>3. QED BY <1>8, <2>1, <2>2
<1>9. CASE TryPrevious
  BY <1>9 DEF TryPrevious, Selected
<1>10. CASE KeepConfig
  BY <1>10 DEF KeepConfig
<1>11. CASE EraseConfig
  BY <1>11 DEF EraseConfig, TypeOK, Configs
<1>12. CASE WriteConfig
  BY <1>12 DEF WriteConfig
<1>13. CASE WriteRtc \/ Launch \/ MapFlash
  BY <1>13 DEF WriteRtc, Launch, MapFlash
<1>14. ASSUME NEW r \in Bytes, SetCurrentRom(r) PROVE PolicyInv'
  BY <1>14 DEF SetCurrentRom
<1>15. ASSUME NEW s \in AppSettings, SetConfig(s) PROVE PolicyInv'
  BY <1>15 DEF SetConfig
<1>16. CASE ApiErase \/ ApiWrite
  BY <1>16 DEF ApiErase, ApiWrite
<1>17. ASSUME NEW r \in Bytes, SetTempRom(r) PROVE PolicyInv'
  BY <1>17 DEF SetTempRom
<1>18. CASE InstallEnd \/ (\E s \in Slots : InstallPart(s)) \/ SaveSdkConfig
  BY <1>18 DEF InstallPart, InstallEnd, SaveSdkConfig
<1>19. CASE Interrupted
  BY <1>19 DEF Interrupted, Reset, PowerCycle, StartOver
<1>20. CASE UNCHANGED vars
  BY <1>20 DEF vars, Named, Selected
<1>21. QED
  BY <1>1, <1>2, <1>3, <1>4, <1>5, <1>6, <1>7, <1>8, <1>9, <1>10, <1>11, <1>12,
     <1>13, <1>14, <1>15, <1>16, <1>17, <1>18, <1>19, <1>20
  DEF Next, FindImageNext, ApiNext

-----------------------------------------------------------------------------
(***************************************************************************)
(* Why rBoot gives up.  romToBoot at the last check need not be the ROM the  *)
(* pin or the request named, so the reason is found in what NamedInv says of *)
(* the way there: it is that ROM, or ROM 0 for a stored number out of range. *)
(***************************************************************************)

\* The requests ROMs make carry the magic: a record without it is of a power-on.
RecordInv == pc \in {"launch", "map"} \cup AppLocations => (rtc.ok => rtc.magic)

LEMMA RecordStep == TypeOK /\ RecordInv /\ [Next]_vars => RecordInv'
<1> SUFFICES ASSUME TypeOK, RecordInv, [Next]_vars PROVE RecordInv'
  OBVIOUS
<1> USE DEF RecordInv, AppLocations
<1>1. CASE FindImageNext
  BY <1>1 DEF FindImageNext, ReadConfig, EraseInvalid, WriteDefault, TempRom, GpioRom,
     CurrentRom, RomGood, GpioRomBad, TempRomBad, StoredRomBad, TryPrevious, KeepConfig,
     EraseConfig, WriteConfig, WriteRtc, BootRecord, Launch, MapFlash
<1>2. ASSUME NEW r \in Bytes, SetTempRom(r) PROVE RecordInv'
  BY <1>2 DEF SetTempRom, TempRecord, TypeOK, RtcRecords
<1>3. CASE \/ ApiErase \/ ApiWrite \/ SaveSdkConfig \/ InstallEnd
           \/ (\E r \in Bytes : SetCurrentRom(r)) \/ (\E s \in AppSettings : SetConfig(s))
           \/ (\E s \in Slots : InstallPart(s))
  <2>1. CASE InstallEnd
    BY <2>1 DEF InstallEnd, NoRtc
  <2>2. CASE ~InstallEnd
    <3>1. rtc' = rtc /\ pc \in AppLocations
      BY <1>3, <2>2 DEF ApiErase, ApiWrite, SaveSdkConfig, SetCurrentRom, SetConfig, InstallPart
    <3>2. QED BY <3>1
  <2>3. QED BY <2>1, <2>2
<1>4. CASE Interrupted
  BY <1>4 DEF Interrupted, Reset, PowerCycle, StartOver
<1>5. CASE UNCHANGED vars
  BY <1>5 DEF vars
<1>6. QED BY <1>1, <1>2, <1>3, <1>4, <1>5 DEF Next, ApiNext

\* The last check of a ROM that was named: if it fails, so does the one named, or
\* ROM 0 has taken its place.
LEMMA NamedBad ==
  ASSUME TypeOK, PolicyInv, pc = "checkRom", pin \/ temp_boot,
         ~Bootable(romconf, good, romToBoot)
  PROVE  \/ pin /\ ~Usable(cfg.gpio_rom)
         \/ temp_boot /\ ~pin /\ ~Usable(rtc.temp_rom)
         \/ Redirected
<1>1. ~Bootable(cfg, good, romToBoot)
  BY DEF PolicyInv, SectorInv, Bootable, TypeOK, Configs
<1>2. romToBoot = IF InTable(cfg, cfg.current_rom) THEN Named(cfg) ELSE 0
  BY DEF PolicyInv, NamedInv
<1>3. QED BY <1>1, <1>2 DEF Named, Usable, Redirected

\* Every step into the halt has its reason, and nothing but an interruption
\* leaves it.
LEMMA HaltStep ==
  TypeOK /\ BootInv /\ PolicyInv /\ HaltJustified /\ [Next]_vars => HaltJustified'
<1> SUFFICES ASSUME TypeOK, BootInv, PolicyInv, HaltJustified, [Next]_vars, pc' = "halt"
             PROVE  HaltJustified'
  BY DEF HaltJustified
<1>0. rtc.magic \in BOOLEAN
  BY DEF TypeOK, RtcRecords
<1>1. CASE TempRom
  <2>1. TempRequested(rtc) /\ ~InTable(cfg, rtc.temp_rom)
    BY <1>1 DEF TempRom, BootInv, BufferAgrees
  <2>2. UNCHANGED <<cfg, good, rtc, pin>> /\ ~pin
    BY <1>1 DEF TempRom, PolicyInv, OverrideInv
  <2>3. QED BY <1>0, <2>1, <2>2 DEF HaltJustified, Requested, ByChance, Usable, TempRequested
<1>2. ASSUME NEW level \in BOOLEAN, GpioRom(level) PROVE HaltJustified'
  <2>1. /\ level /\ pin' = level /\ ~InTable(cfg, cfg.gpio_rom)
        /\ UNCHANGED <<cfg, good>>
    BY <1>2 DEF GpioRom, PerformGpioBoot, BootInv, BufferAgrees
  <2>2. QED BY <2>1 DEF HaltJustified, Usable
<1>3. CASE GpioRomBad \/ TempRomBad
  <2>1. /\ pc = "checkRom" /\ (pin \/ temp_boot) /\ ~Bootable(romconf, good, romToBoot)
        /\ UNCHANGED <<cfg, good, pin, temp_boot>>
        /\ rtc'.temp_rom = rtc.temp_rom /\ rtc'.magic = rtc.magic
    BY <1>3 DEF GpioRomBad, TempRomBad, PolicyInv, OverrideInv, TypeOK, RtcRecords
  <2>2. QED BY <1>0, <2>1, NamedBad DEF HaltJustified, Requested, Redirected, ByChance, Usable
<1>4. CASE TryPrevious
  <2>1. /\ pc = "romBad" /\ romconf' = romconf /\ romToBoot' = Previous(romconf, romToBoot)
        /\ romToBoot' = romconf.current_rom /\ UNCHANGED <<cfg, good>>
    BY <1>4 DEF TryPrevious, AllTried
  <2>2. \A q \in InConfig(romconf) : ~Bootable(romconf, good, q)
    BY <2>1, AboveStep DEF BootInv, SelectionInv, SearchInv, AboveBad, TypeOK
  <2>3. romconf.count = cfg.count /\ romconf.roms = cfg.roms
    BY <2>1 DEF BootInv, BufferAgrees, Settings
  <2>4. QED BY <2>1, <2>2, <2>3 DEF HaltJustified, InConfig, Bootable
<1>5. CASE UNCHANGED vars
  BY <1>5 DEF vars, HaltJustified, Requested, Redirected, ByChance, Usable
<1>6. CASE \/ ReadConfig \/ EraseInvalid \/ WriteDefault \/ CurrentRom \/ RomGood \/ StoredRomBad
           \/ KeepConfig \/ EraseConfig \/ WriteConfig \/ WriteRtc \/ Launch \/ MapFlash
           \/ ApiNext \/ Interrupted
  BY <1>6 DEF ReadConfig, EraseInvalid, WriteDefault, CurrentRom, RomGood, StoredRomBad,
     KeepConfig, EraseConfig, WriteConfig, WriteRtc, Launch, MapFlash, ApiNext, SetCurrentRom,
     SetConfig, SetTempRom, ApiErase, ApiWrite, InstallPart, InstallEnd, SaveSdkConfig,
     Interrupted, Reset, PowerCycle, StartOver
<1>7. QED BY <1>1, <1>2, <1>3, <1>4, <1>5, <1>6 DEF Next, FindImageNext

\* rBoot gives up only because the ROM the pin or a request names is not in the
\* table or not good, or because no ROM is good; but for a stored number out of
\* range, which puts ROM 0 in the place of the one named, and for a record that
\* power-on made (the `return 0`s of find_image).
THEOREM GivesUpForAReason == Spec => []HaltJustified
<1>1. Init => HaltJustified
  BY DEF Init, HaltJustified
<1>2. QED BY <1>1, HaltStep, PolicyInit, PolicyStep, BootInvariant, PTL DEF Spec

\* ... where a record without the magic is none a running ROM has left.
THEOREM RequestsCarryMagic == Spec => []RecordInv
<1>1. Init => RecordInv
  BY DEF Init, RecordInv, AppLocations
<1>2. QED BY <1>1, RecordStep, TypeCorrect, PTL DEF Spec

-----------------------------------------------------------------------------
(* The choice of the policy.                                                *)

USE DEF Policy!Bytes, Policy!Slots, Policy!Bootable, Policy!TempRequested

\* The policy's copies of the definitions of RBootConfig are the same.
LEMMA SameDefinitions ==
  /\ Policy!ErasedSector = ErasedSector /\ Policy!DefaultConfig = DefaultConfig
  /\ Policy!Words = Words
  /\ \A c, w : Policy!Torn(c, w) = Torn(c, w)
BY DEF Policy!ErasedSector, ErasedSector, Policy!DefaultConfig, DefaultConfig, Policy!Words, Words,
   Policy!Torn, Torn, Slots

\* Two good ROMs cannot both be the nearest to the stored one.
LEMMA NearestUnique ==
  ASSUME NEW c \in Configs, NEW g, NEW cur \in Bytes, cur < c.count,
         NEW r \in Bytes, r < c.count, Bootable(c, g, r),
         \A q \in Policy!OnTheWay(c, cur, r) : ~Bootable(c, g, q)
  PROVE  Policy!Nearest(c, g, cur) = r
<1> DEFINE Candidates == {q \in Bytes : q < c.count /\ Bootable(c, g, q)}
           Near(q) == Candidates \cap Policy!OnTheWay(c, cur, q) = {}
<1>1. r \in Candidates /\ Near(r)
  BY DEF Policy!OnTheWay
<1>2. ASSUME NEW q \in Candidates, Near(q) PROVE q = r
  <2>1. q \in Nat /\ r \in Nat /\ cur \in Nat
    BY ConstantFacts DEF Bytes
  <2>2. r \notin Policy!OnTheWay(c, cur, q) /\ q \notin Policy!OnTheWay(c, cur, r)
    BY <1>1, <1>2
  <2>3. QED BY ONLY <1>1, <1>2, <2>1, <2>2, cur < c.count, r < c.count DEF Policy!OnTheWay, Policy!Bytes, Bytes
<1>3. Policy!Nearest(c, g, cur) = CHOOSE q \in Candidates : Near(q)
  BY <1>1 DEF Policy!Nearest, Bytes, Bootable
<1>4. QED BY <1>1, <1>2, <1>3

LEMMA NearestNone ==
  ASSUME NEW c, NEW g, NEW cur, \A q \in InConfig(c) : ~Bootable(c, g, q)
  PROVE  Policy!Nearest(c, g, cur) = NoRom
BY DEF Policy!Nearest, InConfig, Bytes, Bootable

-----------------------------------------------------------------------------
(* What a step of rBoot is to the policy.                                   *)

USE DEF policyPhase, policyStored, policyRequest, policyRom, policyTemporary, Deciding, Chosen, Writing

\* The policy's view of a state in which the boot loader decides.
Undecided ==
  /\ policyPhase = "deciding" /\ policyStored = cfg /\ ~Writing
  /\ policyRom = NoRom /\ policyTemporary = FALSE

\* The requests that exist are numbers, NoRom is none.
LEMMA RequestFacts ==
  ASSUME TypeOK
  PROVE  /\ TempRequested(rtc) => policyRequest = rtc.temp_rom /\ policyRequest # NoRom
         /\ ~TempRequested(rtc) => policyRequest = NoRom
         /\ policyRequest \in Bytes \cup {NoRom}
BY ConstantFacts DEF TypeOK, RtcRecords

\* A valid sector is what the policy decides by.
LEMMA EffectiveIs ==
  ASSUME NEW c, c.valid PROVE Policy!Effective(c) = c
BY DEF Policy!Effective

\* The decision that a temp request or the pin names a ROM outside the table.
LEMMA DecideOutside ==
  ASSUME TypeOK, NEW level \in BOOLEAN, Undecided, cfg.valid,
         \/ TempRequested(rtc) /\ ~InTable(cfg, rtc.temp_rom)
         \/ level /\ ~InTable(cfg, cfg.gpio_rom),
         pc' = "halt", UNCHANGED <<cfg, good, rtc>>
  PROVE  Policy!Decide(level)
<1>1. Policy!Effective(policyStored) = cfg
  BY EffectiveIs DEF Undecided
<1>2. /\ rtc.temp_rom \in Nat /\ cfg.count \in Nat /\ cfg.gpio_rom \in Nat
  BY ConstantFacts DEF TypeOK, RtcRecords, Configs, Bytes
<1>3. Policy!Choice(cfg, good, policyRequest, level) = NoRom
  BY <1>2, RequestFacts DEF Policy!Choice
<1>4. Policy!Remaining(cfg, policyRequest, level, NoRom) = policyRequest
  BY <1>2, RequestFacts DEF Policy!Remaining
<1>5. /\ policyPhase' = "gaveUp" /\ policyRom' = NoRom /\ policyTemporary' = FALSE
      /\ policyRequest' = policyRequest /\ policyStored' = policyStored /\ Writing' = Writing
  BY DEF Undecided, TempRequested
<1>6. QED BY <1>1, <1>3, <1>4, <1>5 DEF Policy!Decide, Undecided

\* The ROM that is tried first, and how the policy goes on from it.
First == IF InTable(cfg, cfg.current_rom) THEN Named(cfg) ELSE 0

LEMMA ChoiceIs ==
  ASSUME TypeOK, PolicyInv, pc \in {"checkRom", "romBad"}
  PROVE  /\ pin \/ temp_boot =>
              Policy!Choice(cfg, good, policyRequest, pin) =
                IF Bootable(cfg, good, First) THEN First ELSE NoRom
         /\ ~pin /\ ~temp_boot =>
              /\ Policy!Choice(cfg, good, policyRequest, pin) = Policy!Nearest(cfg, good, First)
              /\ First = Selected(cfg)
<1>1. /\ temp_boot <=> TempRequested(rtc)
      /\ temp_boot => rtc.temp_rom < cfg.count
      /\ pin => cfg.gpio_rom < cfg.count
  BY DEF PolicyInv, OverrideInv
<1>2. /\ rtc.temp_rom \in Nat /\ cfg.count \in Nat /\ cfg.gpio_rom \in Nat /\ pin \in BOOLEAN
  BY ConstantFacts DEF TypeOK, RtcRecords, Configs, Bytes
<1>3. /\ temp_boot => policyRequest = rtc.temp_rom /\ policyRequest # NoRom
      /\ ~temp_boot => policyRequest = NoRom
  BY <1>1, RequestFacts
<1>4. ~((policyRequest # NoRom /\ policyRequest >= cfg.count) \/ (pin /\ cfg.gpio_rom >= cfg.count))
  <2>1. CASE temp_boot
    BY ONLY <1>1, <1>2, <1>3, <2>1
  <2>2. CASE ~temp_boot
    BY ONLY <1>1, <1>2, <1>3, <2>2
  <2>3. QED BY <2>1, <2>2
<1> HIDE DEF policyRequest
<1> DEFINE named == IF ~Policy!InRange(cfg) THEN 0
                    ELSE IF pin THEN cfg.gpio_rom
                    ELSE IF policyRequest # NoRom THEN policyRequest
                    ELSE cfg.current_rom
<1>5. Policy!Choice(cfg, good, policyRequest, pin) =
        IF ~(pin \/ policyRequest # NoRom) THEN Policy!Nearest(cfg, good, named)
        ELSE IF Policy!Bootable(cfg, good, named) THEN named ELSE NoRom
  BY <1>4, Zenon DEF Policy!Choice
<1>6. named = First
  BY ONLY <1>3 DEF First, Named, InTable, Policy!InRange
<1> HIDE DEF named
<1>7. QED BY ONLY <1>3, <1>5, <1>6 DEF Bootable, Policy!Bootable, First, Named, Selected

\* What the state of the boot loader is to the policy while it looks for an image.
LEMMA CheckingIs ==
  ASSUME PolicyInv, pc \in {"checkRom", "romBad"}
  PROVE  Undecided /\ cfg.valid /\ Policy!Effective(policyStored) = cfg
BY EffectiveIs DEF PolicyInv, SectorInv, Undecided

\* An image is found: the ROM the policy chooses.
LEMMA DecideGood ==
  ASSUME TypeOK, PolicyInv, pc \in {"checkRom", "romBad"}, pc' = "chosen",
         UNCHANGED <<cfg, good, rtc, temp_boot>>,
         Policy!Choice(cfg, good, policyRequest, pin) = romToBoot', romToBoot' \in Bytes,
         temp_boot /\ ~updateConfig' <=> temp_boot /\ ~pin /\ InTable(cfg, cfg.current_rom)
  PROVE  Policy!Decide(pin)
<1>1. Undecided /\ Policy!Effective(policyStored) = cfg
  BY CheckingIs
<1>2. romToBoot' # NoRom
  BY ConstantFacts
<1>3. temp_boot <=> policyRequest # NoRom
  BY RequestFacts DEF PolicyInv, OverrideInv
<1>4. Policy!Remaining(cfg, policyRequest, pin, romToBoot') = policyRequest
  BY <1>2, Zenon DEF Policy!Remaining
<1>5. /\ policyPhase' = "chosen" /\ policyRom' = romToBoot'
      /\ policyRequest' = policyRequest /\ policyStored' = policyStored /\ Writing' = Writing
  BY DEF Undecided, TempRequested
<1>6. policyTemporary' = (romToBoot' # NoRom /\ ~pin /\ policyRequest # NoRom /\ Policy!InRange(cfg))
  <2>1. policyTemporary' <=> temp_boot' /\ ~updateConfig'
    OBVIOUS
  <2>2. policyTemporary' \in BOOLEAN
    BY DEF policyTemporary
  <2>3. QED BY <1>2, <1>3, <2>1, <2>2 DEF Policy!InRange
<1>7. QED BY <1>1, <1>2, <1>4, <1>5, <1>6 DEF Policy!Decide, Undecided

\* No image is found.
LEMMA DecideBad ==
  ASSUME TypeOK, PolicyInv, pc \in {"checkRom", "romBad"}, pc' = "halt",
         UNCHANGED <<cfg, good>>,
         Policy!Choice(cfg, good, policyRequest, pin) = NoRom,
         rtc' = IF temp_boot /\ ~pin THEN [rtc EXCEPT !.temp = FALSE] ELSE rtc
  PROVE  Policy!Decide(pin)
<1>1. Undecided /\ Policy!Effective(policyStored) = cfg
  BY CheckingIs
<1>2. /\ temp_boot <=> TempRequested(rtc)
      /\ temp_boot => rtc.temp_rom < cfg.count
  BY DEF PolicyInv, OverrideInv
<1>3. policyRequest' = Policy!Remaining(cfg, policyRequest, pin, NoRom)
  <2>1. CASE temp_boot /\ ~pin
    <3>1. policyRequest' = NoRom
      BY <2>1 DEF TypeOK, RtcRecords, TempRequested
    <3>2. policyRequest # NoRom /\ policyRequest = rtc.temp_rom
      BY <1>2, <2>1, RequestFacts
    <3>3. QED BY <1>2, <2>1, <3>1, <3>2 DEF Policy!Remaining
  <2>2. CASE ~(temp_boot /\ ~pin)
    <3>1. policyRequest' = policyRequest
      BY <2>2 DEF TempRequested
    <3>2. pin \/ policyRequest = NoRom
      BY <1>2, <2>2, RequestFacts
    <3>3. QED BY <3>1, <3>2 DEF Policy!Remaining
  <2>3. QED BY <2>1, <2>2
<1>4. /\ policyPhase' = "gaveUp" /\ policyRom' = NoRom /\ policyTemporary' = FALSE
      /\ policyStored' = policyStored /\ Writing' = Writing
  BY DEF Undecided
<1>5. QED BY <1>1, <1>3, <1>4 DEF Policy!Decide, Undecided

\* A step of rBoot or of a ROM that the policy does not see.
Unseen == UNCHANGED <<policyPhase, policyStored, Writing, good, policyRequest, policyRom, policyTemporary>>

LEMMA UnseenIs == Unseen => UNCHANGED Policy!policyVars
BY DEF Unseen, Policy!policyVars

\* The steps up to the check of the images.
LEMMA SelectingStep ==
  ASSUME TypeOK, BootInv, PolicyInv,
         \/ ReadConfig \/ EraseInvalid \/ WriteDefault \/ TempRom
         \/ (\E level \in BOOLEAN : GpioRom(level)) \/ CurrentRom
  PROVE  Policy!Next \/ Unseen
<1>1. CASE ReadConfig
  BY <1>1 DEF ReadConfig, Unseen
<1>2. CASE EraseInvalid
  <2>1. Policy!Recreate
    BY <1>2, SameDefinitions DEF EraseInvalid, Policy!Recreate, PolicyInv, SectorInv
  <2>2. QED BY <2>1 DEF Policy!Next
<1>3. CASE WriteDefault
  <2>1. Policy!Written
    BY <1>3 DEF WriteDefault, Policy!Written
  <2>2. QED BY <2>1 DEF Policy!Next
<1>4. CASE TempRom
  <2>1. CASE pc' = "halt"
    <3>1. /\ cfg.valid /\ Undecided /\ TempRequested(rtc) /\ ~InTable(cfg, rtc.temp_rom)
          /\ UNCHANGED <<cfg, good, rtc>>
      BY <1>4, <2>1 DEF TempRom, PolicyInv, SectorInv, BootInv, BufferAgrees, Undecided
    <3>2. Policy!Decide(FALSE)
      BY <2>1, <3>1, DecideOutside
    <3>3. QED BY <3>2 DEF Policy!Next
  <2>2. CASE pc' # "halt"
    BY <1>4, <2>2 DEF TempRom, Unseen
  <2>3. QED BY <2>1, <2>2
<1>5. ASSUME NEW level \in BOOLEAN, GpioRom(level) PROVE Policy!Next \/ Unseen
  <2>1. CASE pc' = "halt"
    <3>1. /\ cfg.valid /\ Undecided /\ level /\ ~InTable(cfg, cfg.gpio_rom)
          /\ UNCHANGED <<cfg, good, rtc>>
      BY <1>5, <2>1 DEF GpioRom, PerformGpioBoot, PolicyInv, SectorInv, BootInv, BufferAgrees, Undecided
    <3>2. Policy!Decide(level)
      BY <2>1, <3>1, DecideOutside
    <3>3. QED BY <3>2 DEF Policy!Next
  <2>2. CASE pc' # "halt"
    BY <1>5, <2>2 DEF GpioRom, Unseen
  <2>3. QED BY <2>1, <2>2
<1>6. CASE CurrentRom
  BY <1>6 DEF CurrentRom, Unseen
<1>7. QED BY <1>1, <1>2, <1>3, <1>4, <1>5, <1>6

\* The check of the images: one decision.
LEMMA CheckingStep ==
  ASSUME TypeOK, BootInv, PolicyInv,
         RomGood \/ GpioRomBad \/ TempRomBad \/ StoredRomBad \/ TryPrevious
  PROVE  Policy!Next \/ Unseen
<1>1. /\ pc \in {"checkRom", "romBad"} => romconf = [cfg EXCEPT !.current_rom = Selected(cfg)]
      /\ cfg \in Configs /\ romconf \in Configs /\ romToBoot \in Bytes
      /\ pc = "checkRom" => /\ romToBoot = First
                            /\ updateConfig <=> pin \/ ~InTable(cfg, cfg.current_rom)
      /\ pc \in {"checkRom", "romBad"} => (gpio_boot <=> pin)
      /\ pin \in BOOLEAN
  BY DEF PolicyInv, SectorInv, NamedInv, OverrideInv, First, TypeOK
<1>2. pc \in {"checkRom", "romBad"} =>
        /\ romconf.roms = cfg.roms /\ romconf.count = cfg.count
        /\ romconf.current_rom = Selected(cfg)
  BY <1>1 DEF Configs
<1>3. pc \in {"checkRom", "romBad"} => \A r : Bootable(romconf, good, r) <=> Bootable(cfg, good, r)
  BY <1>2 DEF Bootable
<1>4. Policy!Decide(pin) => Policy!Next
  BY <1>1 DEF Policy!Next
<1>5. pc \in {"checkRom", "romBad"} => Selected(cfg) \in Bytes /\ Selected(cfg) < cfg.count
  <2>1. romconf.current_rom \in Bytes
    BY <1>1 DEF Configs
  <2>2. pc \in {"checkRom", "romBad"} => romconf.current_rom < romconf.count
    BY DEF BootInv, SelectionInv
  <2>3. QED BY <1>2, <2>1, <2>2
<1>6. CASE RomGood
  <2>1. /\ pc = "checkRom" /\ pc' = "chosen" /\ Bootable(cfg, good, First)
        /\ UNCHANGED <<cfg, good, rtc, temp_boot, updateConfig, romToBoot>>
    BY <1>1, <1>3, <1>6 DEF RomGood
  <2>2. Policy!Choice(cfg, good, policyRequest, pin) = First
    <3>1. CASE pin \/ temp_boot
      BY <2>1, <3>1, ChoiceIs
    <3>2. CASE ~pin /\ ~temp_boot
      <4>1. First = Selected(cfg) /\ Policy!Choice(cfg, good, policyRequest, pin) = Policy!Nearest(cfg, good, First)
        BY <2>1, <3>2, ChoiceIs
      <4>2. \A q \in Policy!OnTheWay(cfg, First, First) : ~Bootable(cfg, good, q)
        BY <1>1, <1>5, <2>1, <4>1, ConstantFacts DEF Policy!OnTheWay, Bytes
      <4>3. QED BY <1>1, <1>5, <2>1, <4>1, <4>2, NearestUnique
    <3>3. QED BY <3>1, <3>2
  <2>3. Policy!Decide(pin)
    BY <1>1, <2>1, <2>2, DecideGood
  <2>4. QED BY <1>4, <2>3
<1>7. CASE GpioRomBad \/ TempRomBad
  <2>1. /\ pc = "checkRom" /\ pc' = "halt" /\ ~Bootable(cfg, good, First) /\ (pin \/ temp_boot)
        /\ UNCHANGED <<cfg, good>>
        /\ rtc' = IF temp_boot /\ ~pin THEN [rtc EXCEPT !.temp = FALSE] ELSE rtc
    BY <1>1, <1>3, <1>7 DEF GpioRomBad, TempRomBad
  <2>2. Policy!Choice(cfg, good, policyRequest, pin) = NoRom
    BY <2>1, ChoiceIs
  <2>3. Policy!Decide(pin)
    BY <2>1, <2>2, DecideBad
  <2>4. QED BY <1>4, <2>3
<1>8. CASE StoredRomBad
  BY <1>8 DEF StoredRomBad, Unseen
<1>9. CASE TryPrevious
  <2>1. /\ pc = "romBad" /\ romToBoot' = Previous(romconf, romToBoot)
        /\ pc' = IF AllTried(romconf, romToBoot') THEN "halt"
                 ELSE IF Bootable(romconf, good, romToBoot') THEN "chosen" ELSE "romBad"
        /\ UNCHANGED <<cfg, good, rtc, temp_boot, gpio_boot, pin, romconf>> /\ updateConfig' = TRUE
    BY <1>9 DEF TryPrevious
  <2>2. ~temp_boot /\ ~gpio_boot /\ ~pin
    BY <1>1, <2>1 DEF BootInv, SearchInv
  <2>3. /\ romToBoot' \in Bytes /\ romToBoot' < cfg.count
        /\ romToBoot' # romconf.current_rom => \A q \in Above(romconf, romToBoot') : ~Bootable(cfg, good, q)
        /\ romToBoot' = romconf.current_rom => \A q \in InConfig(cfg) : ~Bootable(cfg, good, q)
    <3>1. /\ romToBoot < romconf.count /\ romconf.current_rom < romconf.count
          /\ ~Bootable(romconf, good, romToBoot) /\ AboveBad
      BY <2>1 DEF BootInv, SearchInv, SelectionInv
    <3>2. /\ romToBoot' \in Bytes /\ romToBoot' < romconf.count
          /\ romToBoot' # romconf.current_rom => \A q \in Above(romconf, romToBoot') : ~Bootable(romconf, good, q)
          /\ romToBoot' = romconf.current_rom => \A q \in InConfig(romconf) : ~Bootable(romconf, good, q)
      BY <1>1, <2>1, <3>1, AboveStep DEF AboveBad
    <3>3. InConfig(romconf) = InConfig(cfg)
      BY <1>2, <2>1 DEF InConfig
    <3>4. QED BY <1>2, <1>3, <2>1, <3>2, <3>3
  <2>4. Policy!Choice(cfg, good, policyRequest, pin) = Policy!Nearest(cfg, good, Selected(cfg))
    BY <2>1, <2>2, ChoiceIs
  <2>5. CASE pc' = "halt"
    <3>1. Policy!Nearest(cfg, good, Selected(cfg)) = NoRom
      BY <2>1, <2>3, <2>5, NearestNone DEF AllTried
    <3>2. Policy!Decide(pin)
      BY <2>1, <2>2, <2>4, <2>5, <3>1, DecideBad
    <3>3. QED BY <1>4, <3>2
  <2>6. CASE pc' = "chosen"
    <3>1. romToBoot' # romconf.current_rom /\ Bootable(cfg, good, romToBoot')
      BY <1>3, <2>1, <2>6 DEF AllTried
    <3>2. \A q \in Policy!OnTheWay(cfg, Selected(cfg), romToBoot') : ~Bootable(cfg, good, q)
      <4>1. romToBoot' \in Nat /\ Selected(cfg) \in Nat /\ romToBoot' # Selected(cfg)
        BY <1>2, <1>5, <2>1, <2>3, <3>1, ConstantFacts DEF Bytes
      <4>2. Policy!OnTheWay(cfg, Selected(cfg), romToBoot') \subseteq Above(romconf, romToBoot')
        BY <1>2, <2>1, <4>1 DEF Policy!OnTheWay, Above, InConfig, Bytes
      <4>3. QED BY <2>3, <3>1, <4>2
    <3>3. Policy!Nearest(cfg, good, Selected(cfg)) = romToBoot'
      BY <1>1, <1>5, <2>1, <2>3, <3>1, <3>2, NearestUnique
    <3>4. Policy!Decide(pin)
      BY <2>1, <2>2, <2>3, <2>4, <2>6, <3>3, DecideGood
    <3>5. QED BY <1>4, <3>4
  <2>7. CASE pc' = "romBad"
    BY <2>1, <2>7 DEF Unseen
  <2>8. QED BY <2>1, <2>5, <2>6, <2>7
<1>10. QED BY <1>6, <1>7, <1>8, <1>9

\* The choice is stored and the ROM started.
LEMMA StartingStep ==
  ASSUME TypeOK, BootInv, PolicyInv,
         KeepConfig \/ EraseConfig \/ WriteConfig \/ WriteRtc \/ Launch \/ MapFlash
  PROVE  Policy!Next \/ Unseen
<1>1. CASE KeepConfig
  BY <1>1 DEF KeepConfig, Unseen
<1>2. CASE EraseConfig
  <2>1. romconf = [cfg EXCEPT !.current_rom = Selected(cfg)] /\ cfg \in Configs
    BY <1>2 DEF EraseConfig, PolicyInv, SectorInv, TypeOK
  <2>2. romconf' = [cfg EXCEPT !.current_rom = romToBoot]
    BY <1>2, <2>1 DEF EraseConfig, Configs
  <2>3. Policy!Commit
    BY <1>2, <2>2 DEF EraseConfig, Policy!Commit
  <2>4. QED BY <2>3 DEF Policy!Next
<1>3. CASE WriteConfig
  <2>1. Policy!Written
    BY <1>3 DEF WriteConfig, Policy!Written
  <2>2. QED BY <2>1 DEF Policy!Next
<1>4. CASE WriteRtc
  <2>1. policyTemporary \/ policyStored.current_rom = policyRom
    BY <1>4 DEF WriteRtc, PolicyInv, StoredInv
  <2>2. policyRequest' = NoRom
    BY <1>4 DEF WriteRtc, BootRecord, TempRequested
  <2>3. Policy!Run
    BY <1>4, <2>1, <2>2 DEF WriteRtc, Policy!Run
  <2>4. QED BY <2>3 DEF Policy!Next
<1>5. CASE Launch \/ MapFlash
  BY <1>5 DEF Launch, MapFlash, Unseen
<1>6. QED BY <1>1, <1>2, <1>3, <1>4, <1>5

\* What a ROM does.
LEMMA ApiStep ==
  ASSUME TypeOK, BootInv, PolicyInv, ApiNext
  PROVE  Policy!Next \/ Unseen
<1>1. ASSUME NEW s \in Slots, InstallPart(s) PROVE Policy!Next \/ Unseen
  <2>1. good' \in SUBSET Slots
    BY <1>1 DEF InstallPart, TypeOK
  <2>2. Policy!Install(good')
    BY <1>1 DEF InstallPart, Policy!Install
  <2>3. QED BY <2>1, <2>2 DEF Policy!Next, Slots
<1>2. ASSUME NEW s \in AppSettings, SetConfig(s) PROVE Unseen
  BY <1>2 DEF SetConfig, Unseen
<1>8. ASSUME NEW r \in Bytes, SetCurrentRom(r) PROVE Unseen
  BY <1>8 DEF SetCurrentRom, Unseen
<1>9. CASE SaveSdkConfig
  BY <1>9 DEF SaveSdkConfig, Unseen
<1>3. ASSUME NEW r \in Bytes, SetTempRom(r) PROVE Policy!Next \/ Unseen
  <2>1. policyRequest' = r
    BY <1>3 DEF SetTempRom, TempRecord, TempRequested, TypeOK, RtcRecords
  <2>2. Policy!Request(r)
    BY <1>3, <2>1 DEF SetTempRom, Policy!Request
  <2>3. QED BY <2>2 DEF Policy!Next, Bytes
<1>4. CASE ApiErase
  <2>1. /\ pc = "apiErase" /\ pc' = "apiWrite" /\ policyStored' = romconf /\ policyStored = cfg
        /\ UNCHANGED <<policyPhase, good, policyRequest, policyRom, policyTemporary>>
        /\ policyPhase = "running" /\ ~Writing /\ Writing'
    BY <1>4 DEF ApiErase
  <2>2. CASE \E r \in Bytes : r < cfg.count /\ romconf = [cfg EXCEPT !.current_rom = r]
    <3>1. PICK r \in Bytes : r < cfg.count /\ romconf = [cfg EXCEPT !.current_rom = r]
      BY <2>2
    <3>2. Policy!Select(r)
      BY <2>1, <3>1 DEF Policy!Select
    <3>3. QED BY <3>2 DEF Policy!Next, Bytes
  <2>3. CASE \E s \in AppSettings :
               romconf = [cfg EXCEPT !.mode = s.mode, !.current_rom = s.current_rom,
                                     !.gpio_rom = s.gpio_rom, !.count = s.count]
    <3>1. PICK s \in AppSettings :
               romconf = [cfg EXCEPT !.mode = s.mode, !.current_rom = s.current_rom,
                                     !.gpio_rom = s.gpio_rom, !.count = s.count]
      BY <2>3
    <3>2. Policy!Configure(s)
      BY <2>1, <3>1 DEF Policy!Configure
    <3>3. QED BY <3>2 DEF Policy!Next
  <2>4. QED BY <2>1, <2>2, <2>3 DEF PolicyInv, ApiInv
<1>5. CASE ApiWrite
  <2>1. Policy!Written
    BY <1>5 DEF ApiWrite, Policy!Written
  <2>2. QED BY <2>1 DEF Policy!Next
<1>6. CASE InstallEnd
  <2>1. Policy!Installed
    BY <1>6 DEF InstallEnd, NoRtc, TempRequested, Policy!Installed
  <2>2. QED BY <2>1 DEF Policy!Next
<1>7. QED BY <1>1, <1>2, <1>3, <1>4, <1>5, <1>6, <1>8, <1>9 DEF ApiNext

\* A reset or a power cut.
LEMMA InterruptStep ==
  ASSUME TypeOK, BootInv, PolicyInv, Interrupted
  PROVE  Policy!Next
<1>1. StartOver /\ rtc' \in RtcRecords
  BY RtcTypes DEF Interrupted, Reset, PowerCycle, TypeOK
<1>2. policyRequest' \in Bytes \cup {NoRom}
  BY <1>1 DEF RtcRecords
<1>3. /\ policyPhase' = "deciding" /\ Writing' = FALSE /\ policyRom' = NoRom /\ policyTemporary' = FALSE
      /\ good' = good /\ policyStored' = cfg'
  BY <1>1 DEF StartOver
<1>4. policyStored' \in IF Writing THEN {Policy!Torn(policyStored, w) : w \in Policy!Words} ELSE {policyStored}
  BY <1>1, <1>3, SameDefinitions DEF StartOver
<1>5. Policy!Interrupt(policyRequest')
  BY <1>3, <1>4 DEF Policy!Interrupt
<1>6. QED BY <1>2, <1>5 DEF Policy!Next, Bytes

-----------------------------------------------------------------------------
\* In every boot, and with an interruption after any step, the ROM booted is the
\* policy's choice and the stored selection changes only as it says.
THEOREM RBootImplementsPolicy == Spec => ImplementsPolicy
<1>1. ASSUME Init PROVE Policy!Init
  <2>1. policyPhase = "deciding" /\ policyRom = NoRom /\ policyTemporary = FALSE
    BY <1>1 DEF Init
  <2>2. policyStored = ErasedSector /\ Writing = FALSE
    BY <1>1 DEF Init
  <2>3. policyRequest = NoRom /\ good \in SUBSET Slots
    BY <1>1 DEF Init, NoRtc, TempRequested
  <2>4. Policy!Slots = Slots
    BY DEF Policy!Slots, Slots
  <2>5. QED BY ONLY <2>1, <2>2, <2>3, <2>4, SameDefinitions DEF Policy!Init
<1>2. TypeOK /\ BootInv /\ PolicyInv /\ [Next]_vars => [Policy!Next]_(Policy!policyVars)
  <2>1. SUFFICES ASSUME TypeOK, BootInv, PolicyInv, [Next]_vars
                 PROVE  Policy!Next \/ Unseen
    BY UnseenIs
  <2>2. CASE UNCHANGED vars
    BY <2>2 DEF vars, Unseen, TempRequested
  <2>3. QED
    BY <2>1, <2>2, SelectingStep, CheckingStep, StartingStep, ApiStep, InterruptStep
       DEF Next, FindImageNext
<1>3. TypeOK /\ BootInv /\ PolicyInv /\ [Next]_vars => PolicyInv'
  BY PolicyStep
<1>4. QED BY <1>1, <1>2, <1>3, PolicyInit, BootInvariant, PTL DEF Spec, ImplementsPolicy, Policy!Spec
=============================================================================
