# TLA+ models of the GPN17 badge

The GPN17 badge is an ESP8266 with a display, infrared, 8 MB of flash and
several programs ("ROMs") in it.  A boot loader (rBoot, changed for the badge)
picks one at power-on; one of them, the ROM manager, selects and installs the
others; the default ROM shows notifications it pulls from servers.  This
directory models the parts whose correctness depends on the order of steps and
on what survives a reset, checks the models with TLC and proves theorems about
them with TLAPS.

## 1. The system

Everything runs on one processor without an operating system's threads.  What
makes the code hard is not parallelism but four other things:

* **A reset comes anywhere.**  Users switch the badge off, the watchdog bites,
  exceptions reboot.  Flash is erased a sector at a time and written in words;
  SPIFFS files are created, removed and renamed one by one.
* **Two programs share state and do not trust or check it.**  The boot loader
  and the ROMs talk through a flash sector and an RTC memory record.
* **One thread calls back.**  The UI runs from inside loops of the database and
  of the infrared code.
* **The network answers late, partly, or with something else.**

| component | state | operations | talks to | what makes it correct |
|---|---|---|---|---|
| rBoot (`rboot/rboot.c`, `rboot-stage2a.c`) | configuration sector, RTC record, SDK settings, the ROM slots | `find_image`, `perform_gpio_boot`, `check_image`, `call_user_start` | ROMs, through sector and RTC record | boots a good ROM if the table has one it may boot; the choice is the one requested; the stored choice survives what it must |
| rBoot API (`rboot/appcode/rboot-api.c`) | the same sector and record | `rboot_get/set_config`, `rboot_set_current_rom`, `rboot_set_temp_rom`, `rboot_get_last_boot_*` | rBoot | a change takes effect at the next boot; a temp boot is temporary |
| big-flash mapping (`rboot-bigflash.c`) | the megabyte the cache maps | `Cache_Read_Enable_New` | sector and RTC record | maps the megabyte of the ROM that runs |
| flash writer (`rboot-api.c`) | position, sectors erased, up to 3 left-over bytes | `rboot_write_init/flash/end` | flash | flash holds the bytes given, and only erased flash is programmed |
| ROM manager (`rom-manager.ino`) | menu position, chosen ROM and address | slot menu, store client, file server, `setup` | rBoot API, httpUpdate, the store | an installation that fails or stops does not take the badge down |
| httpUpdate and Updater (changed Arduino core) | size, position, buffer, MD5, error of one update | `begin`, `write`, `end`, `setMD5` | flash | an image accepted is the image sent, in its slot and in no other |
| notification database (`notification_db.cpp`) | per channel the files url, finpr, timestamp, name, data, states, new_states | `pullNotifications`, `syncStatesWithData`, `recalculateStates`, `addChannel`, `deleteChannel`, `deleteTimestampFiles`, the iterators | servers, SPIFFS, the UI | each notification is announced once, in time, with its own text |
| default ROM (`default-rom.ino`) | settings, open windows, timers | `setup`, `loop`, menus | database, infrared, web server | the loop goes on, and every active notification gets its turn |
| infrared sharing (`default-rom.ino`) | shareString, receiveShare, received codes | send and receive loops | another badge | a channel accepted is the channel sent |
| configuration mode (`initialConfig`, `WebServer.cpp`) | wifi.conf, badge.bmp, nickname, open connection | handlers of `/api/...`, `/upload_badge` | browser | what was posted is what is stored; a request does not block the next |
| URL coding (`url-encode.cpp`) | none | `getKey`, `writeEscaped` | wifi.conf, data lines, forms | decoding undoes encoding |
| configuration pages (`badge.js`) | `locked`, scan result | click handlers, callbacks | web server | one request at a time |

`arduino/` is a vendored core (but for Updater and httpUpdate), `hardware/` are
board files, `firmware/` binaries, `examples/` demonstrations.

## 2. The modules

### The boot

| module | what it is |
|---|---|
| `RBootConfig` | the data: configuration sector, RTC record, slots; what a write cut short leaves |
| `FindImage` | the boot loader: `find_image`, the hand-over, the mapping; one action per access to flash, RTC memory and pin |
| `RBootApi` | a running ROM: the rBoot API and the installation of an image |
| `RBoot` | the composition, with resets and power cuts; the properties |
| `BootPolicy` | the abstract specification: the ROM booted is one function of the stored state |
| `RBootRefinement` | the refinement mapping from `RBoot` to `BootPolicy` |
| `RBootProofs` | the theorems, the refinement among them |
| `MCRBoot` | the instance for TLC |

`FlashWriter` (instance `MCFlashWriter`, theorems `FlashWriterProofs`) stands alone: the part of the rBoot API
with which a ROM writes an image, a chunk at a time.  Its variables are those of
`rboot_write_status`, the flash, and how much of the stream has been given.

`pc` names the place in `find_image` (`readConfig` ... `writeRtc`), the hand-over
(`launch`, `map`), a ROM (`app`, or in the middle of `rboot_set_config`:
`apiErase`, `apiWrite`) or the end without a ROM (`halt`).  `cfg` is the sector,
`romconf` the buffer of `find_image` or of `rboot_set_config`, `rtc` the RTC
record, `good` the slots whose image `check_image` accepts; `romToBoot`,
`temp_boot`, `gpio_boot` and `updateConfig` are `find_image`'s own variables.
`running` and `mapped` are what the hand-over produced.

Abstractions.  A flash address is the number of its slot, or reads as erased.
Whether an image is good is one bit, so the reading of its headers and the sum
over its sections are not modelled.  A byte ranges over `0..Erased`, with
`Erased` above every ROM number, so that an erased number is out of range as
0xff is.  A write cut short leaves a prefix of the words and 0xff after it; an
erase is a step of its own.  After power-on the RTC record is none, or one with
a checksum that matches by chance: it is one byte wide.  An
installation changes which slots are good one at a time while a ROM runs, and
its end clears the RTC record: `Updater::end` leaves a command for the boot
loader of the Arduino core at the very address of rBoot's record.  The build is
the badge's: `BOOT_CONFIG_CHKSUM` and `BOOT_IROM_CHKSUM` off, `BOOT_RTC_ENABLED`,
`BOOT_GPIO_ENABLED`, `BOOT_BIG_FLASH` and `BOOT_GPIO_SKIP_ENABLED` off.

### The notifications

| module | what it is |
|---|---|
| `NotificationDB` | the files of the channels and the operations of `notification_db.cpp` |
| `DefaultRom` | `setup` and `loop` around it, the user, the clock, resets and exceptions |
| `DefaultRomProperties` | the properties, and the refinement mapping to ... |
| `NotificationLifecycle` | the abstract specification: what may become of a notification, without files |
| `DefaultRomProofs` | the theorems, the refinement among them |
| `MCDefaultRom` | the instances for TLC |

`url`, `timestamp`, `data` and `states` are the files; `newStates` is
`new_states` while it is being written, for what a crash leaves in it is
truncated before it is read.  `todo` is what the current `ChannelIterator` has
still to visit, in any order, for the order is that of the SPIFFS directory.
`pc` is the step of `loop()`: the UI, the pull (`fetch`, `headers`, `sync`,
`rename`), the `timer`, the recalculation (`recalc`), the announcement, the
infrared screen (`receive`); or configuration mode, which is never left but by a
reset.  Two of these hold the one thread for as long as somebody else likes:
`headers`, where a request has been sent and the server has neither answered nor
closed, and `receive`.  The user acts at `loop` and, through the callback of
`recalculateStates`, between two channels of the periodic recalculation.
`screen` records the window the last step opened, as the notification meant and
the one whose text is shown.  Two history variables: `synced` has the channels
whose states were built from the data they have, `interrupted` those whose pull a
reset cut short and that no sync has reached since.

Abstractions.  A data file is the sequence of its lines, a line has an id and
two times or is what is left of one cut short; a position is a line's number.
Positions
count bytes on the badge; in a channel whose data changed after its states were
built (`c \notin synced`) one may lead into any line.  The window then shows the
text of any notification in the data (`Texts`), or the null pointer of a line
without an id is an `Exception`.  A line without `valid_from` makes the next sync
crash, as `atol` of a null pointer does.  Names, fingerprints and texts are left
out; connecting may fail at every channel.  A timestamp is the true time of the
server, the first digits of it if the line came in part, or 0 for an error page or
a late line (`ServerTimes`); the time an answer spends under way is not counted.
What is left of a line that came in part is a line without an id, or is left
out.  An update of an entry in place is one step.  No write fails: a full file system
is not modelled.  Infrared is reduced to the acceptance of a channel; what is
accepted is the subject of the next module.

### Sharing by infrared

`InfraredShare` (instance `MCInfraredShare`, theorems `InfraredShareProofs`): the
sending and the receiving part
of `loop()` on two badges.  `shareString` and `outbox` are the text and the
codes of the current pass; `captured` is what the infrared library holds until
`resume()`; `received`, `checksumRec` and the three flags are the locals of the
receiving loop; `offered` the channels shown to the user.  A code is four
characters.  A code is missed, disturbed or longer than the buffer at most
`MaxFaults` times, and a cancelled share counts as one.

Abstractions.  A character is a number, and the sum is taken modulo `Modulus`.
On the badge that is 256 and many texts share a sum; the instance gives the
characters weights (powers of six) that keep sums of different characters
apart, so the property says what the sum is meant to achieve.  The sum does not
see the order of the characters.  A code may hold any bytes (`Foreign`: those of
somebody else's remote control), and the texts are Arduino's `String`s: a leading
zero of a code is dropped when it is appended (`Taken`), `indexOf` of what is not
there is -1, which `substring` takes as the largest number and swaps with the
other end (`IndexOf`, `Substring`), and what follows a zero in a text is never
read (`CString`).

### Installing a ROM

| module | what it is |
|---|---|
| `Updater` | the global `Update` object: buffer, sectors, MD5, error; one operator per step, with the ways out that reset it and those that do not; what `check_image` sums up |
| `Installation` | the ROM manager and ESPhttpUpdate around it: an answer of the store, its checks, `runUpdate`, the error screen or the reset |
| `InstallationProofs` | the theorems |
| `MCInstallation` | two slots, two images, eleven answers |

A cell of flash stands for a run of bytes; the MD5 of some cells is the cells.
`sound` and `jammed` are history variables: whether anything went wrong with
this update, and whether an earlier one left the object in a state only a reset
ends.  The menus, the store's list (JSON) and the last slot, which the manager
fills with a file of the file system, are left out.

### Configuration mode

| module | what it is |
|---|---|
| `UrlEncode` | `writeEscaped`, `decode_percent`, `getKey`; jQuery's `param` beside them |
| `Kmp` | the search in a stream with its ring buffer |
| `Texts` | both for every short text (instance `MCTexts`) |
| `WebServer` | the badge: `doWork`, the handlers of `initialConfig`, the files |
| `BadgePage` | the page: clicks, lock, timer, callbacks of `badge.js` |
| `ConfigMode` | the composition, fairness and properties (instance `MCConfigMode`) |
| `TextsProofs`, `ConfigModeProofs` | the theorems |

`server` is the place in `doWork`: `idle`, `line` (reading the request line),
`body` (a handler is about to read), `wifiTest` (the loop on `WiFi.status()`).
`backlog` holds the connections not taken yet, `answers` those answered,
`outstanding` the requests with a callback.  A fault is a body of which only a
beginning is there when the handler reads it, a request line cut off, an answer
lost, a connection that is opened and stays silent, or a reset, also one that
cuts `wifi.conf` short while it is written.

Abstractions.  Of an answer the page uses only how many elements it lists, and
whether it can be parsed.  The names of networks and the hosts and urls of
channels are printed into JSON as they are (`default-rom.ino:784`, `833-838`), so
one with a `"` or a `\` in it makes the whole list unreadable (`Readable`): for
networks at any scan, since one with such a name may be in range, and for
channels while one is stored (`oddChannels`).  The callback of such an answer is
never called (`OnUnreadable`).  The page's own files are not requested one by
one.  Names and passwords are
sequences of characters, since coding is what the properties are about; the
names of keys are one character each.  `ReadForm` and `ReadUpload` tabulate what
the handlers make of the first *n* characters of a body.  The boundary the
server searches is a prefix of the browser's: the code cuts four characters from
a text that ends with two too many.  There is no field for a nickname in
`index.html`, so its handler is not reached.

## 3. The runs

| run | bounds | question |
|---|---|---|
| `rboot_safety` | 3 slots, bytes 0..4, two kinds of settings a ROM may store | what is booted, when rBoot gives up, what is mapped, what stays in flash; does the loader, interrupted anywhere, implement the policy |
| `rboot_liveness` | 2 slots, bytes 0..3 | does every boot end |
| `flash_writer` | 24 bytes, chunks of 1..13, sectors of 8, from the middle of a sector | does flash hold the stream, and nothing else change |
| `notif_safety` | 1 channel, 2 notifications, 2 versions of the feed, every cut, 3 clock values | do the files agree, are states changed on time, is the right text shown, does each notification go forward only |
| `notif_channels` | 2 channels, 1 notification, 1 clock value | does anything one channel goes through disturb the other, with numbers reused |
| `notif_liveness` | 1 channel, 2 notifications | is every active notification announced |
| `infrared` | 2 channels, 1 fault | is what is offered what was sent, to the character by a receiver in step, and does a receiver get it |
| `installation` | 2 slots of two sectors of two cells, 2 images, 11 answers, any number of updates and resets | is what is installed what was announced, are neighbours spared, is a failure explained, is the next update possible |
| `config_mode` | 2 clicks, 2 networks, 1 password, 1 picture, 1 channel, 2 faults | does the lock hold, is the file what was posted, does a picture arrive, does the page come free |
| `texts` | texts of up to 6 of 8 characters, 4 needles | is the search a search, do the codings undo each other |
| `claim_selected`, `claim_saved` | as `config_mode`, 3 and 2 clicks, no faults | two messages of the page, each refuted |

Why the bounds are enough.  Three slots are the fewest with a ROM below, at and
above the stored one, so the fallback passes over a bad ROM and wraps round the
end; the values above the slots are the erased numbers of a torn table and a
request out of range.  The settings a ROM stores are the two that matter to
`find_image`: a mode with its bits set, and a table that got shorter than the
numbers that select from it.  Liveness needs two slots for a fallback loop that
could fail to end.  The chunks of the writer reach from less than a word to more
than a sector, and the stream crosses three sector boundaries.  Of the
notifications, two in one feed are the fewest that change places; the second
version of the feed moves one to the front and changes its times.  Three clock values let a notification become active, run
out, and a reset fall in between.  The run with two channels has one clock
value (both notifications have begun at the start, and a cut `valid_to` ends
them at once), because the clock has its own run, and explores only what happens
while notifications are on (constraint `NotificationsOn`), because what the
switch does is checked with one channel.  `Epoch` is 10 where times matter, so
that a part of a server's time is another number than 0, and 3 in the two other
runs.  Every location and every
action is reached in every group of runs.

The infrared texts have two and three codes, so a receiver starts in a first, a
middle and a last one, and one text fills its codes while the other leaves a zero.  In an installation the small image leaves part of its
slot, the large one fills the last sector half and runs into the next slot; both
have the same irom size, so `check_image` cannot tell one's RAM part behind the
other's irom.  The answers are each kind the code tells apart: right, without
MD5, with another one, malformed MD5, cut, longer than announced, not an image,
too large, 304, 404.  Two clicks are enough for a scan and a connection, or
a change of the channels and an upload; what the page asks for by itself comes
on top, and two faults let an answer be lost on the way out of another failure.
`claim_selected` needs the third click.  (With three clicks and one fault the run
passes a million states and the time a check should take.)  The password
consists of the characters that are escaped and one that is not, the picture has
the beginning of a boundary in the middle and at its end.  `config_mode` and
`texts` do not check for deadlock: the user runs out of clicks, the text out of
characters.  (With two faults `infrared` holds as well; the run takes five
minutes and is not listed.)

Mutants accompany each property: a definition `D_Something` next to `D` is `D`
with a fault a change could introduce, and each property listed in
`PROJECT.json` fails for one of them.

### What they show

* `HaltJustified`, `LaunchedRomBootable`, `FallbackIsNearest`: a ROM is started
  only if it is good and in the table as flash holds it; the fallback picks the
  nearest good one below, round the end.  rBoot gives up only if the pin, or the
  request a ROM has made, names a ROM that is not in the table or not good, or if
  nothing in the table is good, with two exceptions that are what the code does.
  If the stored number is out of range, ROM 0 takes the place of the one the pin
  or the request names; a bad ROM 0 then ends the boot although the one named
  may be good (`Redirected`).  And what RTC memory holds after power-on is obeyed
  like a request if its checksum matches by chance (`ByChance`).  All this holds
  with resets at any step and a sector cut short anywhere.
* `MapsRunningRom`: the mapping of the flash cache is computed after the boot
  from the RTC record and a second read of the sector, without checks, and is
  right nevertheless.
* `TempBootKeepsConfig`, `RewriteKeepsSettings`: what a boot may change in the
  sector.  A temp boot changes nothing unless the stored number is out of range.
* `ImplementsPolicy`: the choice is a function of sector, request, pin and
  slots, taken at once, whatever the interruptions.  A selection can be lost
  only in an interruption of its own rewrite.
* `BootEnds`: once resets stop, every boot ends.
* `StreamKept`, `StreamComplete`, `StaysInSectors`: however a stream is cut into
  chunks, and whatever an earlier attempt left, the bytes are programmed in
  order into erased flash, no sector beyond the last byte is erased, and
  `rboot_write_end` leaves nothing behind.  (The rest of the last word is not
  0xff, as the loop in `rboot_write_end` sets it: the left-over bytes are in the
  buffer twice, and it is filled with the second copy.)
* `StatesMatchData`: once synced, the positions in a states file lead back to the
  notifications they are for.
* `ScreenShowsWanted`: the text on the screen is that of the notification
  announced or selected in the menu, also of a menu opened before later pulls.
  The program writes the data of a channel long before it rebuilds the states,
  but opens no window in between.  A reset in between is another matter: then the
  wrong text can be shown, and the property says where, in a channel whose pull
  the reset cut short (`interrupted`), and until when, the next sync.  The gap
  is confined, not excluded.
* `ChangesOnTime`: after each recalculation every entry is as the server's clock
  has it, although the badge's own clock starts anew with every boot.  This is for
  channels whose server's time came whole: if part of it came, the part is taken
  for the time.
* `ImplementsLifecycle`: a notification never goes back, so it is announced at
  most once, unless it is dropped: by its server (or by an answer cut short), by
  a reset between `remove` and `rename`, or with its channel.
* `ActiveAnnounced`: active notifications are announced or run out, if what
  `Quiet` lists comes about (see Fairness).
* `AcceptedWasSent`: a channel offered to the user was shared by someone, except
  that its fingerprint has one newline more when the text does not fill its last
  code (only the last character is cut off, and that is a padding zero).  A
  channel passed on from badge to badge grows by a newline each time, until the
  text fills its code.  This is exact while no code was missed; after a fault
  the sum vouches for the characters, not for their order: a receiver that misses
  codes can accept a text put together from two passes.  The receiver does not
  look at the marker 222, so a text code can be taken for a checksum; the sum
  then has to match by chance.
* `InStepIsExact`: a receiver that listens since before a pass began, and misses
  nothing of it (`InStep`), holds a beginning of the text at every code, finds the
  sum right and offers the channel and nothing else, with the newline above or
  without it.  This one does not rest on the sum telling texts apart: it says that
  both ends cut, pad, sum up and split the same way.
* `EventuallyOffered`: a receiver gets its channel or its user gives up, from
  wherever in a pass it starts.  Not after an overflow: the code returns from
  `loop()` without `resume()`, and nothing but a reset makes the library
  deliver a code again.  The property excludes this case.
* `InstalledIsSent`: in front of the reboot, flash holds what the store
  announced, however the stream came and whatever failed before.
* `NeighboursKept`: only the sectors that the bytes received fill.  An image
  larger than its slot runs into the next, since only `FreeSketchSpace` is
  compared; and up to a sector of bytes beyond the announced size is written
  before the update fails.
* `FailsForReason`, `LeavesReady`: an update that nothing is wrong with fails
  only if an earlier one since the reset left `_size` set (malformed MD5, write
  error: both return without `_reset`), or left its MD5 and this one brings none.
* `UpdateEnds`: also with a store that sends too little or too much.  An answer
  304 announces a reboot and does one, with nothing installed.
* `OneAtATime`: the lock admits one request of its kinds, in any order of answers.
  It counts the requests of the page shown.  What a page sent before it was
  loaded anew may still be on its way, since the lock went with the page.
* `PageUnlocks`: a page comes free unless its answer was lost; or the list
  answered cannot be parsed, because a network in range or a channel stored has a
  `"` or `\` in a name that is printed as it is; or the click on Connect threw
  after it had locked (no network selected: `unlock` enables the button).  With
  such a channel every page loaded locks itself by its first request, and the
  channel cannot be deleted from the page.  The premise of `PageUnlocks` names
  the two waits without an end: a connection that sends nothing, even when it is
  closed again (`WebServer.cpp:122`), and a network that neither connects nor
  refuses, for instance because it is not there.
* `ConfIsPosted`, `UploadExact`: from the form through three codings into the
  file, and from the picture through three searches.  A body that has not come
  yet is not waited for: what is stored is then a beginning.
* `SearchExact`, `FormsExact`, `FilesExact`: the algorithms for all short texts.
  Files give back what they got if there is no `%` and no `+` in it.

### Fairness

`RBoot`: weak fairness of the boot loader's own steps, because the processor
executes it; nothing is assumed of ROMs, and `BootEnds` speaks only of
behaviours in which resets stop.  `DefaultRom`: weak fairness of the one thread,
and strong fairness of the step to the periodic work, because `millis()` passes
the next second while the loop keeps coming by.  Nothing is assumed of the user,
of the clock or of the servers: `ServerAnswers` and `ReceivingEnds` have no
fairness, since the header loop (`notification_db.cpp:49-55`) runs for as long
as a silent server stays connected, and the receiving loop
(`default-rom.ino:453`) until something comes or the user leaves.
`ActiveAnnounced` is therefore conditional (`Quiet`) on the end of resets
(exceptions included), of new data and of configuration mode, on notifications
staying on, on every server asked answering or closing, and on the user leaving
the infrared screen.  A server that keeps dropping and adding the notifications of
the first channel would keep the others waiting, since the announcement takes the
first in the directory.

`InfraredShare`: weak fairness of each badge's loop; users do as they like, and
faults are bounded.  `Installation`: weak fairness of the manager's steps, where
a read that brings nothing is the step `Stalled`, by its timeout.  `ConfigMode`:
weak fairness of the server's steps and of the browser's callbacks; none of the
step that ends a test of the network, of the user or of faults.

### Disagreements between code and words

Two of them are runs: TLC refutes what the page says.

* After a channel is added or deleted, Connect does not try the network that is
  selected (`TriesSelected`): `scanRes` then holds the channels, and the network
  posted has no name.
* What is saved is not what was tested (`SavedAsTested`) if the password has a
  `%` or a `+`: these are decoded on reading and not escaped on writing.

The others were found while the boot loader was modelled; the model has each of
these behaviours, and no run is spent on them.

1. `mode` does not enable the GPIO boot (rboot/README.md:149): the test's
   precedence makes it always false, so the pin alone decides.
2. The comment at `perform_gpio_boot` has the level of GPIO16 the wrong way
   round for this badge (rboot.c:203).
3. A configuration whose write was cut short is not replaced by the default
   (rboot/README.md:139): only its first two bytes are tested.
4. A temp boot of a number outside the table fails at every further reset
   (rboot-api.h:118 says it boots the original again).
5. With a stored number out of range a temp boot starts ROM 0, or fails if that
   one is bad (rboot.c:490).
6. The magic of the RTC record is never compared (rboot.h:132): a record that
   nobody wrote is obeyed if its checksum matches.

## 4. The proofs

TLC checks instances; what follows holds for every value of the constants that
satisfies the named assumptions of the modules, and TLAPS checks every leaf.

| module | theorem | what it says |
|---|---|---|
| `RBootProofs` | `TypeCorrect`, `BootInvariant`, and one theorem for each safety property of `rboot_safety` | whatever interrupts a boot, a ROM started is good and in the table |
| | `RequestsCarryMagic` | a record without the magic was not left by a ROM |
| | `RBootImplementsPolicy` | and it is the one the policy chooses |
| `FlashWriterProofs` | `TypeCorrect`, `WriterInvariant`, `StreamIsKept`, `StreamIsComplete`, `OthersUntouched` | a stream arrives whole, however it is cut into chunks |
| `DefaultRomProofs` | `Invariant`, `TypeCorrect`, `StatesAreOfTheData`, `ShowsWhatIsMeant`, `ChangesAreOnTime` | positions lead to the right text, changes come on time |
| | `FilesImplementLifecycle` | no notification goes back |
| `InstallationProofs` | `Invariant`, `TypeCorrect`, `InstallsWhatWasSent`, `FailuresHaveReason`, `MenuIsReady`, `NeighboursUntouched` | an image installed is the image announced |
| `ConfigModeProofs` | `OneRequestAtATime`, `TypeCorrect` | the page's lock holds |
| | `UploadsAreExact` | an upload is stored to the byte, or a beginning of it |
| | `ConfigurationIsPosted` | what the next start reads is what was typed, or a beginning of it |
| `TextsProofs` | `SearchIsExact` | the search in a stream is a search, for every needle and text |
| | `FormsComeBack`, `FilesComeBack` | decoding undoes encoding, for every value |
| `InfraredShareProofs` | `TypeCorrect` | the sum kept is that of the text received, what is offered can be stored and sent on |
| | `InStepExact` | a receiver in step with its sender accepts, and gets the very channel |
| `BasicLemmas` | | what several of these need and the library does not have: numbers and their blocks, sequences joined and cut, the least number of a set, induction and recursion; and what the operators of `Kmp` and `UrlEncode` make of a text |

Induction and recursion.  The library's theorems on them take an operator as a
parameter, which the provers here cannot instantiate.  `BasicLemmas` states them
about sets instead: a set that holds 0 and the successors of its numbers holds
all (`Induction`, from `LeastNumber`), and a function of the numbers up to *n* is
determined by its beginning and its steps (`Recursion`; `CourseOfValues` and
`Backwards` if a step looks at all values before it, or behind it).  With them the
recursive functions of the models can be reasoned about: `WithId` (the positions
of the lines that have an id), `CharSum`, `Border` and `Fallen` (the table of the
search and the way down in it), `DecodePercent`, `GetKey`, and `FlattenSeq` of the
community modules.

### The boot loader

The safety properties are not inductive: what the launch relies on was
established several steps before, in a buffer that is written to flash later.
`BootInv` says what each place in the boot may rely on:

* `BufferAgrees`: between reading the sector and rewriting it, the buffer
  agrees with the sector in all but `current_rom`, and where the loader rewrites
  it, in `updateConfig`;
* `SelectionInv`: what `temp_boot` and `gpio_boot` say about `romToBoot`;
* `UpdateInv`: when `updateConfig` may be set;
* `SearchInv`: in the fallback, every ROM passed so far is bad;
* `HandoverInv`: from the last check on, the ROM chosen is good and in the
  sector, or the buffer about to be written; and after the RTC record is
  written it names that ROM;
* `MapsRunningRom` itself.

Resets are harmless to it, since each conjunct speaks of locations a reset
leaves; the installation of an image and the API's steps happen only at `app`,
where nothing about `good` is promised any more.  The action properties follow
from the invariant in one step each.

`BootInv` tells that the ROM is a good one.  That it is the policy's choice takes
`PolicyInv` on top: how, at each place, the buffer (`SectorInv`), the overrides
(`OverrideInv`) and `romToBoot` (`NamedInv`) come of the sector, the request in
RTC memory and the pin; that the choice is stored or temporary by the time the
ROM is started (`StoredInv`); and that a ROM's own write is one the policy knows
(`ApiInv`).  Then the last check of an image is the policy's `Decide`, or it gives
up; the rewrites begin and end as its writes do; all else stutters.

`HaltJustified` speaks of the ROM that was named, and `romToBoot` is not always
that one, so it needs `NamedInv` as well: at the last check `romToBoot` is the
ROM named, or ROM 0 in its place (`NamedBad`).  It tells a request made by a ROM
from a chance one by the magic, which rBoot itself does not look at.  That this
is right is `RequestsCarryMagic`: whenever a ROM runs, a valid record has the
magic, so one without it can only come of power-on.

### The flash writer

`StreamKept` says that what was given is in flash, in order.  Preserving it needs
to know where the next word goes: an erase must not hit the stream, and a
program must hit erased cells, since programming ANDs.  So while an attempt is
open `WriterInv` adds `Position` (the position is aligned, and the last sector
erased is its own or the one before) and `BlankAhead` (what follows the stream in
the sectors erased is blank).  A call that fails half way leaves both out, and
the next begins an attempt anew.  Assumptions: sectors of whole words, and a
stream that begins at a word and not at address 0 (where a first chunk shorter than
a word makes the last sector an unsigned -1; a hazard of `PROJECT.json` without a
property).

### The notifications

The types are an invariant only with a fact about cut lines: a line has both its
times or neither (`WholeLines`), as the times are what the states are made of.
`StatesMatchData` exempts channels that are not synced, so what closes the gap
has to be said: while a states file is being replaced its channel counts as not
synced, and the new file already is what the data say (`ReplaceInv`).
`ScreenShowsWanted` does not exempt them, so it needs more than `StatesMatchData`:
outside a pull, a channel that is neither synced nor interrupted has no entries,
or no data (`Settled`); within a pull, no window is
opened, and what is still to visit is all that may be otherwise (`Pulling`,
`GapInv`, `ScreenInv`).  For
`ChangesOnTime` (an action property) the badge's clock must be the server's:
within one boot, all timestamps that were answered differ from the badge's clock
by the same amount, the time of that boot (`ClockInv`); an earlier boot's are gone
since `setup` deletes them, which is why the clause is about `pc # "setup"`.

The refinement maps a channel's states file, or `newStates` while it is being
written, to the status of its notifications.  Step by step: writing the new
states file and removing the old one is `Publish` (what is new is scheduled, what
is gone is absent), the rename is `Settle`, a reset before it is `Lose`; a
recalculation is `Advance`, deleting a channel is `Delete`, an announcement is
`Announce`; selecting in the menu is `Look`; all else looks or stutters.  One case
is not what it seems: an id that is twice in a feed has two entries, the
announcement takes the first that is active, and the abstract status is that of
the first entry.  If that is not the one announced nothing changes abstractly:
the announcement is then a `Look`.  So "at most once" is about entries in this
case, and about notifications in every other.  Assumptions: those of
`NotificationDB` and `DefaultRom`, which tell the special values apart from
others and the range of the clock from 0.

### Installing a ROM

`InstalledIsSent` and `FailsForReason` speak of the end of an update.  `IInv` says
what holds on the way: the Updater works for this answer, within flash and at
the beginning of a sector unless it is done (`Session`); what is in flash, in the
buffer and still in the stream is the body, one after the other, and the cells of
it that are in flash are where they belong (`Transfer`); a sector is erased only
when the buffer is complete (`Flushed`); the MD5 expected is the answer's if it
has one (`Expected`); outside an update the Updater runs only if it is jammed.
`NeighboursUntouched` follows, as the sector erased or written is the one at the
current address, which the bytes received have reached.  Assumptions: flash is
of whole sectors, slots begin at one, and an answer's length is a number and its
body a sequence of cells.  Nothing is assumed of the images or of the store.

### Configuration mode

`OneAtATime` counts the requests of the page shown; `LockInv` says it without
counting: two requests the lock is
for are the same one, and while there is one the page is locked.  It is inductive
by itself, since only an unlocked page sends one and only its answer unlocks; an answer that
cannot be parsed takes the request away and leaves the lock.  (A
page loaded anew forgets its callbacks with the lock.)  `ConfigInv` (for
`TypeOK`) tells connections apart: the numbers in the backlog, of the client and
of the answers are different (`ConnectionInv`), an answer of a scan has as many
elements as there are networks (`AnswerInv`), and the page's choice is within the
list it shows (`PageInv`); and that what is posted is what a user can post
(`Posted`), which the next two rest on.

`UploadExact` is a matter of three searches in one body, of which any part may
have come.  `MultipartOf` says where in the body the boundary, the end of the
headers and the picture are; the first boundary is at the beginning
(`BoundaryFirst`), so the second search begins behind it and stops before the
picture (`HeadersNext`), and the third writes the picture and stops at its end,
or has written a beginning of it when the text runs out (`PictureLast`).  It
needs `PicturesAssumption`: the picture does not hold a line break and the
boundary looked for.  A browser takes a boundary for which this is so (RFC 2046);
as the server cuts two characters off it, the assumption is about the boundary
without them.  That it holds of this too is likely, a boundary being long and
random, but nothing in the server sees to it.

`ConfIsPosted` follows a text through four codings: into the form
(`jQuery.param`), out of it, into the file, and out of that at the next start.
Of a form that comes in whole all values are found (`FormsAre`).  Of one that is
cut, wherever that is, either the second key is not found and nothing is saved,
or the network is whole and the password a beginning of the one typed
(`CutFormsAre`): a cut within the first field leaves no second one, not even an
empty one (`NothingAtEnd`), a cut right behind the second key makes the value
empty (`BareKey`), and a cut in the value's code leaves out what is not whole
(`DecodesUpTo`).  `ConfInv` adds only that the faults are counted; while the
network is tried the connection stays what it was (`Keeps`).  The theorem has the
hypothesis `PlainTexts`, that there is no `%` and no `+` in the names and the
passwords.  It is not an assumption of the module, as the code does not
justify it: run `claim_saved` shows what happens without it.

### The search and the codings

The lemmas are in `BasicLemmas`, since the configuration mode needs them as well
as the theorems of `TextsProofs`.

The state of the search is explained by the text read so far: the characters
seen are the longest beginning of the needle that the text ends with, they are
held back and everything before them is written (`Searching`), until the needle
has come (`FoundAt`).  That the next state is right rests on the table: `Border`
is the longest proper border of each beginning (`BorderIsRight`), the way down it
meets all of them in order (`FallenIsBest`), so what is seen after another
character is the longest again (`SeenIsLongest`).  The number of characters held
stays below the needle's length in every search, so the message `Logic error in
kmp ringbuf` (`WebServer.cpp`) is never printed.  Assumption: needles are not empty.

An encoded value is laid out in pieces, one for each character (`FlattenIs`), and
each piece decodes to its character: by itself, or as `%` and two digits
(`ParamIs`, `EscapedIs`).  From the last piece to the first, what is decoded from
the beginning of a piece on is the rest of the value, and a code that is cut ends
with its last whole piece (`DecodesUpTo`, `DecodesAll`).  No piece has
a `=` or `&` in it, so the ends of the fields are where they were written
(`FieldIs`), and `getKey` goes from the first field to the second (`TwoFields`).
Files need their hypothesis: a `%` or `+` is written as it is and decoded when
read.

### Infrared

`TypeOK` is more than a typing: `checksumRec` is the sum of `received`, and what is
offered is a channel whose fields can be stored and shared on, whatever codes
somebody else's device sends.  The sum is taken on one side over a text and on
the other code by code, so the proof needs that sums add up (`SumOfParts`).  What
`PassInv` adds is that a pass has no more codes left than its text makes, so a
cancelled pass leaves a beginning.

`InStepIsExact` has its invariant in the property: `InStep` says what both badges
hold after each code, and `StaysInStep` takes it through every action.  Four facts
about the text of a channel carry the proof: its codes put together are the text
and zeros behind it (`CodesAre`, `PaddedGrows`), as no code begins with a zero;
only the last code has a newline (`NewlineInLast`); the zeros do not change the
sum (`SumOfPadded`); and `indexOf` and `substring` find the fields where they were
written (`SplitIs`).  `ChannelsAssumption`, that a field holds neither CR nor
newline, is needed for the second and the last: with a newline in a field the
receiver would stop early.  Channels passed on with a newline more
at the end are therefore outside the theorem, and in the runs.

### What only TLC checks

* `AcceptedWasSent`, which is also about receivers that start in the middle: it
  rests on a sum that keeps the texts in question apart.
  That is a fact about the instance and not about every modulus; it does not hold
  of the badge's 256, see above.
* Liveness (`BootEnds`, `ActiveAnnounced`, `EventuallyOffered`, `UpdateEnds`,
  `PageUnlocks`): fairness and `ENABLED` are out of the prover's reach.

## 5. Not modelled, and the plan

Not modelled: the ROM manager's pages of the store's list and its file server
(menus over JSON whose outcome is the chosen slot and URL, which `Update` takes
in any combination); stage 2's copy to RAM; the static files and cache headers of
the web server; the nickname, theme, lights, battery, sound and drawing, which
keep no state the rest depends on; `millis()` running over after 49 days.  The
vendored core and libraries (the largest part of the repository by far) are
third-party code and enter only as the badge uses them, but for Updater and
httpUpdate, which the badge changed; SPIFFS is taken to do one file operation
at a time, whole or not at all.  The hazards no property covers are listed in
`PROJECT.json` with a note.
