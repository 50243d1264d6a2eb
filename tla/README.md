# Verification of the DICE, L0 and L1 firmware for the STM32H7

This directory holds TLA+ models of the firmware under `src/`, the TLC
configurations that check them on small instances, and theorems about them
whose proofs TLAPS checks. Paths below are relative to the repository;
`fw/` stands for `src/fw/`, `core/` for `src/core/`.

## The system

A device runs three images one after the other on one Cortex-M7 core: DICE,
which authenticates L0; L0, which measures L1 and derives L1's identity; and L1,
the application (here, self tests and a menu). Every reset starts again with
DICE. There are no threads; what runs "at the same time" as an image is

- SysTick (priority 15), which counts milliseconds;
- TIM3's interrupt (priority 3), the SW watchdog, which resets the core when
  the image has not reloaded it for three seconds, from the image's
  `SW_Watchdog_Init` to its `SW_Watchdog_End`;
- the fault handlers, which preempt both;
- the IWDG, a hardware watchdog of eight seconds that nothing can stop;
- resets from outside: power, the NRST pin.

### Inventory

| component | state it keeps | operations | interacts through |
|---|---|---|---|
| Unique Device Secret (`fw/DICE_Image/secret.c`, `arm/secret_storage.c`) | two copies of 32 bytes in flash | `DeviceSecretInitialize`, `DeviceSecretGet`, `DeviceSecretSet` | flash driver, RNG, `read_uds` |
| DICE image (`fw/DICE_Image`) | reset flags, option bytes, DICE-L0 memory | `main`, `DICE_main`, `CheckProtections`, `ResetReason_Update`, `RunDICE` | UDS, shared memory, `LaunchImage` |
| L0 image (`fw/L0_Image`) | L0-L1 memory | `main`, `L0_main`, `RunL0`, `BootToL1` | shared memory, L1's flash slot |
| L1 image (`fw/L1_Image`) | `test_failed`, L0's flash (one test) | `L1_main`, `L1_Menu`, the tests | shared memory, resets |
| DICE and L0 engines (`core/`) | none of their own | `dice_main`, `l0_main` | `src/common/HWAbstraction.c` |
| shared memory (`fw/common/shared_mem_volatile.*`) | SRAM4, kept over resets | `CleanShared_DICE_L0`, `CleanShared_L0_L1` | all three images |
| watchdogs, system reset (`fw/common/arm/watchdog.c`, `system_reset.c`) | `last_refresh`, the IWDG's counter | init, reload, end, the timer callback | clock count, reset flags |
| system set-up and clocks (`fw/common/arm/startup_stm32h753xx.s`, `system_stm32h7xx.c`, `system_setup.c`) | RCC, NVIC, VTOR, `SystemCoreClock`, `time_since_boot` | `Reset_Handler`, `SystemInit`, `System_Init`, `SysTick_Handler`, `System_Time` | every image starts with it |
| image launch (`fw/common/arm/image_launch.c`) | the RAM and the registers it leaves to the next image | `LaunchImage` | DICE to L0, L0 to L1 |
| logs (`fw/common/log_ram.c`, `shared_mem_persistent.c`, `arm/backup_sram.c`) | two circular logs, in SRAM2-3 and in backup SRAM | log, read out, enable, disable | D-cache, fault handlers |
| RNG (`fw/common/arm/hw_rng.c`) | the peripheral | `HW_RNG_Init`, `HW_RNG_Rand`, `HW_RNG_DeInit` | UDS, engines |
| flash driver (`fw/common/arm/flash.c`, `fw/common/host/flash.c`) | flash, the locks of its two banks | `Flash_Write`, `Flash_Erase` | UDS, L1's test |
| image authentication (`fw/common/firmware_auth.c`, `image_auth.c`) | none | `AuthenticateFirmware`, `VerifyImage`, `VerifyKeyManifest` | called by the host tests only |
| key, header and signing tools (`fw/keytool`, `fw/headertool`, `fw/signtool`, `fw/keymanifesttool`, the rules of `fw/arm`) | files of the build | key, header, key manifest, signatures | what they build is what is authenticated |
| logger, UART, pins, option bytes, hardware info | buffers, registers | formatting, I/O | everywhere |
| host port, unit tests | mocks | see `PROJECT.json` | build, tests |

### What is hard here, and what makes each part correct

- *UDS.* It is written once, in the field, on a device that may lose power at
  any instant. Correct: one identity for ever or none; a flash word is
  programmed only while blank; success means stored.
- *Boot chain.* SRAM4, the reset flags and the flash outlive the boot that
  changed them, and a boot may be cut anywhere. Correct: what L1 gets is of this
  boot; a corrupted L0 ends in recovery mode; a watchdog reset is noticed once, and
  never hidden; a hang ends; recovery mode can be left; the secret is only
  stored under protection.
- *Clock and watchdog.* 64-bit values on a 32-bit core, touched on two or three
  priority levels, with no lock. Correct: what is read is a time that was; the
  watchdog, while it is on, fires if, and only if, the image is late, and then
  before the HW one.
- *Logs.* A log that must tell of a crash is written by the code that crashed,
  by handlers that preempt it, and through a write-back cache. Correct: no store
  outside the buffer, whatever the header; what is read is what was logged, last
  and in order.
- *Start and launch.* The same start-up code runs after a system reset, after a
  reset of the core alone and after the launch by another image, and finds other
  clocks, other interrupts and another image's data each time. Correct: no
  handler runs before what it needs is there; no bus is too fast on the way; the
  next image finds nothing of the last one, not even by way of the D-cache.
- *Flash driver.* Each word and each sector may fail, the two banks are unlocked
  one after the other, a write is compared through the D-cache. Correct: success
  means done, failure leaves a prefix, nothing else changes, the lock is closed.
- *RNG, authentication.* Loops over sizes that may wrap around; sums of offsets.
- *Tools.* A chain of programs over files, which fail between two files, go on
  in a directory that isn't empty, and run side by side. Correct: a build that
  succeeds is up to date, and what `AuthenticateFirmware` accepts is.

`PROJECT.json` lists each hazard at its line, with the properties that watch it.

## The modules

| module | of | state and actions in terms of the code |
|---|---|---|
| `UDSRegister` | abstract | a write-once register `reg` and the set `issued` of secrets ever handed out; `Provision`, `Lose`, `Issue` |
| `FlashWord` | abstract | one flash word as its callers know it: what it holds (`word`), what a call is to store there (`data`), and where the call is with it (`state`) |
| `DeviceSecret` | UDS and `Flash_Write` of one word | `copy` is the flash, `stored` the D-cache lines the writes filled; one action for each point of `DeviceSecretInitialize` and the writes under it at which a reset leaves something behind or the hardware may fail; refines `UDSRegister` |
| `DeviceSecretMC` | | the devices for TLC |
| `DeviceSecretProofs` | | its theorems |
| `BootChain` | DICE, L0, L1, SRAM4, reset flags, watchdogs | `pc` is the stage of the boot; an action is what an image does between two stages; resets, hangs and exceptions come between any two; embeds the UDS as the register of `UDSRegister` |
| `BootChainMC` | | the build options for TLC |
| `BootChainProofs` | | its theorems |
| `LogRing` | both circular logs | `cell` is the structure as the CPU sees it, `mem` as the memory behind the D-cache has it; every store of `LogToMemory` is an action |
| `SystemTime` | `time_since_boot`, `System_Time`, the SW watchdog: init, check, end | each word of the clock and of `last_refresh` is loaded and stored by a step of its own; TIM3 comes between any two, while the watchdog is `armed` |
| `Watchdogs` | `Watchdog_Reload`, the IWDG, L1's two watchdog tests, the start (or its failure) and the end of the SW watchdog in `main` | extends `SystemTime` with what the image is doing (`doing`) and the last reload of the IWDG (`hw`); the image may stay anywhere for any time |
| `WatchdogsProofs` | | theorems of `SystemTime` and `Watchdogs` |
| `HwRng` | `HW_RNG_Rand` | the loop over the words and the tail |
| `HwRngProofs` | | its theorems |
| `FlashDriver` | `Flash_Write`, `Flash_Erase`, firmware and host | `flash` and the D-cache's `line` by word, the banks `unlocked`; an action for each answer of the HAL, for each of the loops, and for a reset wherever the controller may be |
| `FlashDriverMC` | | the hardware for TLC |
| `FlashDriverProofs` | | its theorems |
| `Handover` | start-up code, `SystemInit`, `System_Init`, UART and watchdog and RNG initialisation, `LaunchImage` | RCC, core, TIM3, RNG, memories and handles; an action for each store that a reset, an interrupt or the next image can tell apart; resets of both kinds and power-on |
| `HandoverMC` | | the three images |
| `HandoverProofs` | | its theorems |
| `LogRingProofs` | | theorems of `LogRing` |
| `FirmwareAuth` | the key, header and signing tools; `AuthenticateFirmware` | `mem` is the flash from the key manifest on, in cells; `Build` is the chain of tools, `Damage` whatever else is found in flash, `Authenticate` the call; the comparisons are operators, in the order of the code |
| `BuildTools` | the tools' files and failures, the rules of `fw/arm` | extends `FirmwareAuth`, whose `Build` becomes the last step of a build; `file` is what each file was made of, `at` the rule each signed part is at; keys and binaries change between builds, writes fail with or without the tool saying so |
| `BuildToolsMC` | | what TLC puts into a damaged cell of the flash |
| `BuildToolsProofs` | | theorems of `FirmwareAuth` and `BuildTools` |

`DeviceSecret` implements `UDSRegister`, by the refinement mapping `reg`, and
`BootChain` uses the actions of `UDSRegister` in `DeviceSecret`'s stead: the
composition is by the abstract specification. (That the boot chain follows the
register holds by construction, so no run is about it.)
`Watchdogs` composes the clock of `SystemTime` with the image above it and the
HW watchdog beside it. `BuildTools` composes the build of a package with its
authentication. `FlashDriver` is the driver at large, of which `DeviceSecret` has
the one call that provisioning makes, word by word. What the two have in common is
`FlashWord`: `FlashDriver` implements it for every word of flash (`DriverServesWords`),
`DeviceSecret` for either copy of the secret (`WritesWords`), and nothing that
`FlashWord` allows in a call for a copy is missing from `DeviceSecret`
(`AllOfTheDriver`). So `DeviceSecret` may stand on the driver as it is, and its
theorems are about the secret as `flash.c` stores it.

### How the hardware is modelled

- *Reset flags.* Every reset drives NRST and so sets the pin flag, but for
  the reset of the core alone that `System_Reset` requests through
  `RCC->AHB3RSTR`. Flags stay until `ResetReason_Update` clears them or power
  is lost.
- *IWDG.* `HAL_IWDG_Init` starts it before it can fail. Whether a core-only
  reset leaves it running is left open: both are allowed.
- *Hangs.* A core may be caught with interrupts served (`Stuck`) or not
  (`Masked`). A fault handler is of the second kind: it calls `HAL_Delay`, which
  waits for SysTick, whose priority is below the handler's.
- *SRAM4* keeps its content over every reset but a loss of power.
  `LaunchImage` turns the D-cache off, which cleans it, so the next image sees
  what the last one wrote.
- *D-cache.* Enabled by `System_Init`, write-back over the backup SRAM (nothing
  configures the MPU). `HAL_FLASH_Program` stores to flash addresses; a line
  already in the cache is updated with them and nothing invalidates it.
- *Flash.* A word whose programming a reset or an error cuts may hold
  anything. (The device's ECC may then fault on reading it: such a boot ends in a
  fault handler, which leaves the same flash as one that fails on the
  comparison.)
- *Locks of the flash.* A LOCK bit may not change when asked to; the HAL does bank
  1, then bank 2, and stops at the first that refuses. What a word that was not
  blank holds after programming it again is left open.
- *Clocks.* A switch of the system clock takes effect at once (`prompt`) or some
  time later; the bus limits hold for the first kind, as `SystemInit` does not
  wait. PLL1 has one setting in this firmware.
- *Reset of the core alone* (`RCC->AHB3RSTR`): clock tree, TIM3, RNG and every
  memory stay as they are; the NVIC, SysTick, VTOR and PRIMASK do not.
- *External code.* The verified cryptographic libraries are not in the
  repository; hashes, signatures and keys enter as the values they bind. The HAL
  (`src/3rdparty/stm`) is vendored; its functions enter by what they do to the
  registers modelled, and by every answer they can give.

## The runs

Passing runs:

| run | question | bounds |
|---|---|---|
| `device_secret` | Does the protocol keep one identity, never overwrite, and implement the register, over any number of resets and flash errors, reported or (without a D-cache) not? | five contents of a word: two secrets, two torn ones, blank. No bound on boots |
| `boot_chain` | What can reach L1, past any resets? Do hangs end, can recovery mode be left, does a corrupted L0 lead there? All builds, boards, option bytes, L1 images, L0 headers | `MaxFaults` = 2 hangs, exceptions or external resets; watchdog resets, self tests and the boots that follow are not bounded |
| `log_ring` | Do stores stay in bounds, does the ring right itself, for any header and any interruption? Does it read back right across wrap-arounds and image changes where there was none? | log of 2 characters, messages to 3, two cells to a cache line |
| `watchdogs` | Is the image's reading of the clock right over the wrap-around? Before it, does the SW watchdog, while it is on, fire if and only if it should, and ahead of the HW one? Do the watchdog tests reboot? | words of 16 values, 20 ticks of a second; timeouts 3 and 8 and the loops of the tests as in the code; timer period 2; an IWDG reloaded 0 or 1 s before the image starts; the SW watchdog started at any time, once, or not at all, and ended at any time |
| `firmware_auth` | Is what is accepted authentic, and what the tools build accepted? Is a build that succeeds up to date, over failures, builds that go on, and files made side by side? Is what `AuthenticateFirmware` accepts the package of the files that were there? | images of up to five cells (one more than allowed), ten offsets, three keys in each place, one cell damaged, a slot of twelve cells and flash behind it; two versions of L0 and of its key, one write that fails |
| `flash_driver` | What do success, failure and a reset leave in flash and in its lock, and does anything outside the range change? | two banks of one sector of two words, a bit in a word; writes to three words, so across the banks; one word with a line in the D-cache; flash that misprograms or not, with a D-cache or not, and the host's |
| `handover` | Do interrupts find their own handler and handle, does the next image find nothing of the last one, are clocks right all the way? | three images, hardware that switches clocks at once or later; any number and order of resets |

Why these bounds are enough. Two copies, two secrets and two torn values are
what it takes to tell "equal", "different" and "half done" apart. Two faults
reach every pair of an interrupted boot and what the next one makes of it, a
third boot included, because the watchdog reset that follows a hang is not
counted. The log wraps around within a message, and a reset may keep either of
the header and the text and lose the other. A tick of `Watchdogs` stands for a second, and the timeouts are those of the
device; the timer's period of about 1.2 s is rounded up to 2, which delays the SW
watchdog's alarm, against what is to be shown. `HAL_Delay(1000)` is at least one
tick, which makes the tests shorter than they are, again against what is to be shown.
Words of sixteen values leave room for the longest test before they wrap.
Two words and two sectors, in different banks, reach every pair of a word done
and a word that fails and the step from one bank to the other; that the sector's
number within its bank is right for larger banks is proved. One failing write
and two versions reach every mix of old and new files. `Lose` and `Resets`
need no bound at all.

Runs that find a comment or a test of the repository contradicted by the code
(each is quoted in `PROJECT.json`, `findings`):

| run | what it shows |
|---|---|
| `l1_authentic` | no image authenticates L1 |
| `log_ring_preempted` | handlers logging in mid-message leave a header that passes its check and reads back in the wrong order |
| `log_ring_ram` | the copy of a full log in SRAM2-3 has no room for its terminator |
| `system_time_torn` | TIM3 reads the clock between SysTick's two stores, twice the same wrong value |
| `hw_rng_tail` | a request that leaves one or two bytes stores three |

Other disagreements met while reading, which no run is about:

- The read-back at the end of `DeviceSecretInitialize` goes through the D-cache,
  so a word the flash got wrong without reporting it may be taken for stored
  (for such a device `SuccessMeansStored` does not hold;
  this is why the theorem assumes `VerifySeesFlash`).
- `reset.c:11` says "Find the reason for the last reset", but flags pile up over
  the boots that end before they are cleared.
- `L1_main` returns without any failure on other boards than the Nucleo, where
  L1's `main` takes a return for one (`L1_Image/arm/main.c:38`).
- `image_auth.c:45-48` has the size check keep the hash inside the actual
  image; it bounds L0, too, by the space for L1 (`L1_IMAGE_SIZE`).
- Log messages still in the D-cache are lost by a watchdog, fault or pin reset.
- `fw/README.md` lists the L0 header among what is protected in one place (lines
  105-106) and only DICE and the key manifest in another (lines 212-214).

- A reset by the SW watchdog (`RCC->AHB3RSTR`) leaves no flag, so DICE boots
  normally after it; `DICE_main.c:70` calls that "normal boot (hardware reset)".
- `system_setup.c:82` says "PLL (HSE BYPASS)"; the PLL is driven by HSI.
- `image_launch.c:11` speaks of clearing the DTCM; SRAM1-3 is cleared, too.
- `System_Init` ignores what `HAL_Init` answers; every image ignores what
  `HW_RNG_Init` does; `RNG_MspDeInit` resets the RNG but leaves its clock on.
- A launched image begins with PRIMASK set: until `__enable_irq` SysTick does not
  count, and a timeout of the HAL never elapses.
- A handler that prints while `HAL_UART_Transmit` is busy loses its characters
  (`uart.c:249` does not look at `HAL_BUSY`).
- `flash.h` wants a range in one bank; nothing checks it, nor the range of a write,
  and the driver does well without. The error paths ignore what locking answers;
  an unlock refused by bank 2 leaves bank 1 unlocked; erasing leaves stale lines
  in the D-cache. `SuccessMeansDone` names the words for which that matters.
- `signtool/main.c:115` does not look at `save_signature`'s result, and
  `keymanifesttool` at its `writeFile`'s; no tool looks at `fclose`'s.
- The signature's rule does not depend on its key file, and no rule waits for the
  one that makes the key. `crypto_files.cpp:36` reads a whole file into 32 bytes
  where the build's key files are hexadecimal text.
- `(i + 1 % splitAt) == 0` in `src/common/logger.cpp` never splits a line of hex,
  which `logger.h:65` promises; `LoggerInit` is never called.

### Fairness

`boot_chain` assumes that the core keeps executing (weak fairness of
DICE's, L0's and L1's steps) and that a watchdog that runs counts on by itself
(weak fairness of `SWWatchdogFires` and `IWDGFires`). The reset at the end of L1's
test of a corrupted image is a step of L1, so L1 gets to it unless it hangs first. Nothing is assumed of who
presses keys in L1's menu, of external resets, or of hangs. `HangEnds` is stated
for a running IWDG, and `CorruptL0EndsInRecovery` leaves a hang without it out: before `HW_Watchdog_Init`, early in DICE, a hang may last
for ever. That, and L1's menu waiting for a key, is why deadlock is not checked
in its run. In the runs of `SystemTime`, `Watchdogs` and `HwRng` the bounded count of ticks
and the return of the function end the behaviour, and in that of `BuildTools` the
bounded versions and failures. `LogRing`, `FlashDriver` and `Handover` never end, and
their passing runs check for deadlock.

## The proofs

`DeviceSecretProofs`, for every set of flash contents: `TypeCorrect`,
`SuccessIsStored`, `OneIdentity`, `NoOverwrite`, `UnusableStays`, and
`Refinement`, that `DeviceSecret` implements `UDSRegister`. They assume
`BlankAssumption` and `UnwrittenAssumption` (a blank word is a content, an
unwritten buffer is not) and, where they say so, `VerifySeesFlash`: the hardware
does not hide a misprogrammed word behind a D-cache line.
The invariant of the protocol is not inductive by
itself; its strengthening says for each `pc` what the copies hold (the first
stored and the second blank between the two writes, both equal to `secret` after
them), that copies differ only when a write is under way or has failed, and that
once something was issued both copies hold it.
Two more are about the driver under it, on any hardware, misprogramming behind a D-cache included.
`WritesWords`: whatever happens to a copy is what `FlashWord` allows. `AllOfTheDriver`:
each step of `FlashWord` within a call for a copy is a step of `DeviceSecret`.
Their invariant, `SetInv`, is what `secret.c` has to keep to for that: it programs
blank words only, and the second copy after the first.

`BootChainProofs`, for every set of images and secrets and any number of faults:
`NoticedBeforeBoot`, `ProtectedSecret`, `OwnIdentity`, `SameIdentity`,
`ChainTypes` and `CDIStaysBelow`. The first two have an invariant of two
independent parts. `Unnoticed`: a watchdog reset not yet noticed still has its
flag set, and the boot has not passed `ResetReason_Update`. `Protected`: past `CheckProtections`, the protections hold or are ignored. The others
follow from `SInv`, which says for each stage what either half of SRAM4 holds, and that
the secret at hand, the register and every identity given belong together.
`CDIStaysBelow` is about more than L1: not even what a wrong header makes L0 launch
finds the CDI.

`BuildToolsProofs` has the theorems of `FirmwareAuth` and those of `BuildTools` above it.

The first ones are for every layout, any content of the flash and any amount
of damage: `TypeCorrect`, `OnlyAuthenticAccepted`, `BuiltAccepted` and
`OnlyTheOwnersAccepted`. The heart of it is the lemma
`AcceptsAuthentic` about the function alone, along its comparisons. One step is
not evident from the code: no comparison keeps L1 inside the slot. `WrappedGap`
shows that the unsigned size of the gap behind such an L1 wraps around and would
reach past the end of the flash, so that `IsSpaceEmpty` never says yes to it. From
`LayoutAssumption` it needs that a slot and one image fit into the flash
and the flash into a `size_t`. `AcceptsBuilt` goes through the same comparisons the
other way, for the flash that `BuildOf` has written. `OnlyTheOwnersAccepted` assumes
`NoForgery`: what is put into a damaged cell carries no signature of the owner's. Then
the signatures in the flash are those the tools have put there (`Owned`), and a
package signed with other keys is not accepted, whatever is damaged.

The others are for any versions of images and keys and any number of writes that fail,
reported or not. `BuildsBelow`: every history of builds is one of
`FirmwareAuth`, whose theorems so hold of it (`BuildTypes`, `BuildsAuthentic`,
`BuildsAccepted`). `SuccessCurrent`, that a build which succeeds is up to date, needs
`MakeInv`, which speaks of the directory between two rules: what a file may
hold after any failure (`FilesInv`: a signed part is a part and a signature, or
less); that what is done, and nothing newer says otherwise, is what the rule would make now
(`DoneInv`: this is where an edit or a new key must take the later rules back);
how far the chain of a part is (`ProgressInv`); and that the package is what the
files were when it was made (`PackageInv`). `DoneInv` has to leave out builds with a write that
failed unnoticed and keys that were replaced, which no rule looks at. `AcceptedCurrent` is
for those too: under `NoForgery`, `DeliveredInv` (a package that carries all three
signatures of the owner's was current when it was flashed) makes `AuthenticateFirmware`
the check that the build lacks, for whoever calls it: no image does, so a device boots
a stale package, or an L1 nobody has signed (`l1_authentic`), all the same. With keys
replaced it rests on `ManifestInv`: the rules of the manifest always run, so a manifest
is of the keys of now unless it could not be written. That is also why the property
leaves out a build directory in which a key was replaced and a write went wrong
unnoticed: an old manifest with old signatures is consistent, and accepted.
`CurrentAccepted` is the converse: what was up to date when it was
flashed, and fits, is accepted unless somebody damages it.

`HandoverProofs`, for images of any name on both kinds of hardware: `HandoverTypes`,
`HandlersAreReady`, `NothingIsLeftBehind` and `ClocksAreRight`, from the invariant
`HandoverInv`, whose parts say what the place in the code guarantees. Interrupts are
masked from a launch to `__enable_irq`, and before that only the first image runs
unmasked, with SysTick off; TIM3's line is enabled only where its handle is filled
in; the D-cache is off and empty while memory is cleared; PLL1 has its one setting
whenever it drives the core, and the buses are divided before the switch.

`LogRingProofs`, for a log of any size: `RingTypes`, `LogInBounds`, `LogReadsInOrder`,
`LogRecovers` and `CopyFits`, the last for a copy that is larger than the log. For the
bounds it is enough to follow the pointer from store to store (`RingInv`), as each
message begins with the check of the header. For the order, `OrderInv` says that the
last `Kept` characters of the history stand in the ring, going back from the pointer,
and how `Kept` relates to the header in the middle of a message.

`FlashDriverProofs`, for banks, sectors and calls of any size and every answer of the
hardware: `DriverTypes`, `SuccessIsDone`, `FailureIsAPrefix`, `TargetAlone`,
`LockedAgain` and `DriverServesWords`. `DriverInv` adds to the properties how far a call can be where it is
(`CallInv`), where the banks may be unlocked (`LockInv`), that a write leaves what is
ahead of it alone and that lines which were not there at its beginning come from
words already compared (`WriteInv`), and that the sectors done are blank (`EraseInv`).
`ErasedIsTheSector` is the arithmetic of bank and sector number.
`DriverServesWords` is for the board (`OnBoard` leaves the host build's memory out: it
changes all the words of a call at once). `WordState` says where a call is with one word of its
range, and `ReadInv` that without a D-cache every word compared does hold what it
should; there is a lemma for each group of actions.

`HwRngProofs`, for every size asked for and every width of `size_t` past a word:
`WholeWordsFilled` and `NoMoreThanTwo`. `RandInv` counts bytes against draws;
`TailStores` is what wraps around: of one or two bytes left, three are stored. So a
request that leaves none or three, such as that for the secret, gets exactly its
buffer filled, and any other one two bytes more at most.

`WatchdogsProofs`, for words, timeouts and periods of any size: `TimeTypes`,
`TimeIsRight`, `NoFalseAlarm`, `AlarmComes`, `WatchdogTypes`, `SoftwareComesFirst`,
`TestsDoReboot` and `TornAtWrapsOnly`. `ClockInv` says what the clock's words hold between SysTick's stores,
and that the low word of the second reading is that of a tick whose high word lies
between the two that were read, so that two equal readings are that tick.
It also bounds what the run `system_time_torn` finds: a clock off by more than a tick is
there only between SysTick's two stores of a tick at which the low word wraps around
(`TornAtWrapsOnly`). `AlarmInv`, for a count that
fits into the low word and while the watchdog is on, adds that `last_refresh` is the last reload and bounds its
distance to TIM3's last check. `ClocksBelow` shows that `Watchdogs` is `SystemTime` with
something around it; `Apart` then bounds how far the reloads of the two watchdogs are
apart, and `Loops` how long a test has been running. `TestsDoReboot` assumes that
`HWTimeout` exceeds `Timeout` by more than a period and two ticks (8 s against 3 s and
1.2 s in the code). `SoftwareComesFirst` and `AlarmComes` are about the time from
`SW_Watchdog_Init` to `SW_Watchdog_End`: before and after it, through the launch of the
next image and in the loops at the end of `main`, a hang meets the HW watchdog alone.

Only model-checked, as it is out of the prover's reach: liveness (`HangEnds`,
`PinResetBoots`, `CorruptL0EndsInRecovery`). Every other property of a passing run is a theorem. Three of the runs
that end in a violation have theorems that say how far it goes: `WholeWordsFilled` and
`NoMoreThanTwo` (`hw_rng_tail`), `TornAtWrapsOnly` (`system_time_torn`), `LogInBounds`
and `LogRecovers` (`log_ring_preempted`).

## Not modelled, and why

- The cryptographic code, the certificates' contents and ASN.1: pure functions,
  verified elsewhere; bound values stand for them.
- That the compiler may take the `const` copies of the UDS for constants:
  it shows only in the code generated.
- The logger: a line is formatted into a buffer of fixed size and cut; it keeps no
  state from one line to the next, and its locks are empty in the firmware.
- Cases this firmware does not reach: swapped flash banks (`Get_Actual_Bank`;
  `CheckProtections` has none of them), clock sources other than HSI and PLL1
  (`HAL_RCC_GetSysClockFreq`), a failure of `HAL_RCCEx_PeriphCLKConfig` for the clocks it
  is asked for, and an L0 so large that L1 overwrites its end (`truncate` in the build),
  which the properties leave out.
- Sending over the UART, the C library's system calls, pins, option byte
  programming, hardware info: register accesses without control of their own. What
  `UART_Init` does to the interrupts is in `Handover`.
- The mocks of the host port but its flash, unit tests, command lines of the
  tools, `keytool` (no rule runs it): sequential programs; read as documentation of
  what the firmware is meant to do.

## Plan

Done: 1. `UDSRegister`, `DeviceSecret` and their proofs. 2. `BootChain` and its
proofs. 3. `LogRing` and its proofs. 4. `SystemTime`. 5. `HwRng`. 6. `FirmwareAuth`
and its proofs. 7. `Watchdogs` and the proofs of both. 8. `FlashDriver` and its proofs. 9. `Handover` and its
proofs. 10. `BuildTools` and its proofs: a build which succeeds is current, and so is
what `AuthenticateFirmware` accepts. 11. `FlashWord`: the driver implements it, and `DeviceSecret`
is all of it that provisioning meets. 12. `HwRng`'s proofs.

Next: that L1's test of a corrupted image, which programs words of L0 that are not
blank, does to L0 what `BootChain` has it do, on top of `FlashWord`; the length
arithmetic of the logger.
