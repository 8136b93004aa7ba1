# Verification of panoramix

This directory holds TLA+ models of the firmware in this repository, the TLC runs
that check them and the proofs TLAPS checks. Run `tlc -config X.cfg M` for a run of
the table below and `tlapm M.tla` for a module with theorems. `PROJECT.json` maps every
definition to the lines it models.

## The system

panoramix is Zephyr firmware for two boards: the ground station (`apps/obelics`, a
nucleo_h723zg with LoRa, GNSS, Ethernet, SD card, OLED, rotary encoder, buzzer) and the
flight computer (`apps/asterics`, an STM32H723 with a barometer and power monitors).
Code runs in interrupts, in the system work queue (cooperative, above every thread), in
`main` (priority 0), `m10_acquire` (3), `eth_thread` and `sensor_processing_thread` (5)
and the menu thread (10). Lower numbers preempt higher ones; that, and which call
blocks where, decides which interleavings the models have.

| component | state it keeps | operations | talks to |
|---|---|---|---|
| OLED menu `modules/menu` | menu, cursor, window, confirmation, open screen, last redraw, displayed data | encoder events, `menu_update_*`, redraw | takes from `encoder_msgq`; semaphore and data written by main |
| rotary encoder `drivers/input` | debounce times, pairing of presses | interrupt of phase A, timer, work item | puts into `encoder_msgq` |
| GNSS M10 `drivers/gnss` | ring of two positions, indices, frame being assembled, configuration flag | acquisition thread with its parsers, `gps_get_latest*` | I2C; read by main |
| sound `modules/sound` | notes, index, callback, delayable work | `play_sound`, work item | button handlers of main.c; buzzer PWM |
| UDP client `modules/udp_client` | socket, semaphore, thread | init, thread, interface callback, deinit | network stack |
| file logger `modules/file_logger` | mount, initialised, open handles | open, close, write, read, seek, remove, ... | FAT file system; called by main |
| INA219 `drivers/sensor/ina219-rtio` | reads in flight, RTIO entries | submit, three callbacks | I2C through RTIO; asterics main and processing thread |
| MS5611 `drivers/sensor/ms5611` | reads in flight, coefficients, completions | init, submit, callback, decoder, blocking fetch | SPI through RTIO; asterics |
| text display `modules/display` | cfb's framebuffer | init, string, row, clear | main before the menu; shares the framebuffer with the menu |
| obelics main | position, start-up order, log file | start-up, loop | everything above |
| asterics main | - | a read of both sensors every 5 s | both sensor drivers |
| LED strip, servo, NeoPixel helper, GNSS I2C pipe | next to none | drawing, bit banging, conversions | called by main, or by nothing |

What is hard to test in it: a thread preempted in the middle of a store or a redraw; events queued
behind a question; a frame cut by the end of a read and continued in the same buffer; windows of clocks that wrap; a pool that runs out half way through a
chain; failures of one step of several; closes that race. `PROJECT.json` lists each
hazard at its line, with the property that watches it.

## The modules

| module | models | correspondence |
|---|---|---|
| `Menu` | `menu.c` | One action per branch of `menu_handle_event` and per step of `menu_thread` between which a higher thread can run: `Poll`, `HandleEvent`/`NoEvent`, `TakeData`, the three draws. A data screen is `BeginScreen`, one `ReadField` per read of `menu_data`, `FinishScreen`. `framebuffer` and `panel` separate what is drawn from what is shown. The menu tree is a CONSTANT. |
| `ObelicsMenu` | the tree and screens of `menu.c` | The constant values the ground station has. |
| `CommandGuard` | - | Abstract: what the menu promises of guarded commands. `Menu` implements it (`CommandsGuarded`). |
| `EncoderInput` | `encoder_input.c` | One action per handler; `switch_poll_work_handler` has one disjunct per branch. |
| `PressPairing` | - | Abstract: the encoder without clocks. `EncoderInput` implements it (`PressesPaired`). |
| `ObelicsUI` | encoder and menu | Composes `Menu` and `PressPairing` over the one queue. |
| `GnssM10` | `gnss_u_blox_m10.c` | The copy of a position is one action per word, the index moves in two; the readers are one action each, since `main`, their only caller, outranks the thread. |
| `GnssParser` | the read and the parsers of `gnss_u_blox_m10.c` | Extends `GnssM10` by the bytes: the module queues frames and sentences, `ReadAndParse` reads at most a buffer and runs the loop over it (a recursive function of `ParseByte`, which assembles the frame in the buffer being read), `ReadFails` moves bytes into the buffer and parses none, `NmeaFix` is the search after the loop. Every step is one of `GnssM10`. |
| `Sound` | `sound.c`, the button of obelics `main.c` | The work queue is a sequence, `note_work` has a delay; each handler is one action. |
| `UdpClient` | `udp_client.c` | One action per call of the socket or network layer, which block. |
| `FileLogger` | `file_logger.c` | One operator per call, with every outcome of the file system below. |
| `ObelicsMain` | `main` of obelics, `display.c` | One step per call that matters, in order, over the operators of `FileLogger`; `at` is the call main comes to. Every device may be not ready, every call may fail. Other users of the library run beside it. |
| `Ina219` | `ina219.c`, `ina219_bus.c` | A read is the chain of operations still to run; callbacks build the next chain or answer; the pool is a count of free entries. |
| `Ms5611`, `Word64` | `ms5611.c`, `ms5611_bus.c` | The start-up, one read or fetch step by step among others that take entries from the pool and use the sensor, and the compensation in exact 64-bit arithmetic (words of eight bytes, because TLC's integers have 32 bits). `Built` is what the acquisitions of `ms5611_submit` leave, entry by entry. |
| `MenuProofs`, `EncoderProofs`, `GnssProofs`, `SoundProofs`, `UdpProofs`, `FileLoggerProofs`, `Ina219Proofs`, `Ms5611Proofs` | - | Theorems about the module of that name; `MenuProofs`, `GnssProofs` and `FileLoggerProofs` also about `ObelicsUI`, `GnssParser` and `ObelicsMain`. |
| `MC...` | - | Constant values for the runs. |

Operators named `Faulty...` are mutations of the operator after them, used to test that
the properties can fail; no specification refers to them.

Abstractions. Text is the identity of what is printed, and of data which sample of which
field. `GnssM10` has cycles with any number of fixes, `GnssParser` the bytes they come from: a byte is its role, the
frame it is of and the number it reads as where a length is expected; frames keep the order and the relations of
lengths of the real ones (a fix fits the buffer, a long frame does not), and a payload holds any bytes, those of another
frame included. Files are lengths. Main's texts are kept by row.
Zephyr (work queues, timers, message queues, semaphores, RTIO, sockets, the file system)
is modelled by what the code relies on; such definitions are marked external in
`PROJECT.json`.

## The runs

| run | checks | bounds, and why they suffice |
|---|---|---|
| `menu_nav` | `PanelFaithful`: when the thread waits, the OLED shows what the next event acts on, with no stale row; `ConfirmedOnPanel`: a guarded command runs only by a double press handled while its question is shown; `CommandsGuarded`: refinement of `CommandGuard` | The real tree on seven rows; a queue of two, enough for an event to wait behind another while the thread draws; one new sample; no throttle, so every update redraws. |
| `menu_refresh` | `PromptUpdateShown`: an update that finds the thread idle and no recent redraw is shown, untorn; `InputServed`: each source is consumed in the end | A throttle of two ticks and a clock of six: every age before the wrap occurs. One screen with a gate and a field behind it, two samples. |
| `obelics_ui` | `SelectedVisible`: the window arithmetic; `FourPressesPerCommand`: nothing but four presses of its own sends a guarded command | Menus of nine items on seven rows scroll at both ends; presses are remembered up to seven, almost two commands. |
| `encoder` | `DoublePressGenuine`, `ThreePressesSuffice`, `PressesPaired` | Windows of 1, 2 and 5 polling periods keep the order of 5, 50 and 300 ms; the clock of fourteen wraps, and is long enough for a stale first press to be followed by three quick ones; a queue of one is often full. |
| `gnss` | `WholeFramesParsed`: a read that starts with a frame or outside one yields the fixes of its whole frames in which no second sync pair follows, and nothing else; `WholeFixesStored`: while all reads were such and left nothing behind, just those of all the bytes read are handed to the ring, in order; `FreshIsNewest`: whole and newest; `LatestAtMostOneBehind` | Three messages: frames of 5, 8, 12 or 13 bytes, sentences of 5; a buffer of 12, so a read ends in every part of a frame. Payloads read as a length that is too long, or short, and hold a sync pair alone, one across their end, or a whole frame. A failed read loses no byte or 6, more than the shortest frame and less than a fix. The third fix is stored where the first was; two words suffice for a mix. The clock wraps. |
| `gnss_no_data` | violated: "-ENODATA if no valid data" | as above |
| `sound` | `NeverStuckOn`, `PlayedInOrder`, `SoundEnds` | The four sounds in full but for the alert, two beeps of three; lengths in sixteenths; the button at any tick. |
| `udp_client` | `NoSocketLost`, `IfUpWakes` | One interface, one deinit, two descriptors. |
| `ina219` | `PoolAccounted`, `AnsweredOnce`, `OkIsFresh`, `AllAnswered` | Three reads and nine entries: each acquisition of each handler can be the one that fails. The driver's pool has sixteen, which needs more reads and shows the same. |
| `file_logger` | `OpenIsUsable`, `NoFileLeaked`; `MainIsAClient`: main and the others implement the library with its rules for callers, so main never opens its file twice; `MenuOwnsScreen`: main draws nothing once the menu runs, and leaves nothing drawn | Main's handle and another share two FAT structures and one file of up to three bytes: a write may be cut short, and a read. |
| `ms5611` | `BothConverted`, `TemperatureRight`, `PressureRightWhenWarm`; `WholeOrRefused`: a short pool refuses the whole read, but for four entries | The coefficients of the sensor's datasheet; raw values at the ends of the range and around 20 degrees: a sample of the inputs, not all of them. The driver's pool of sixteen, with each acquisition of the chain the first that fails; another read may leave nothing, a pressure or a temperature in the sensor. |
| `ms5611_cold` | violated: the documented range of pressures | A cold day with the same coefficients. |

Every run but those of violated properties also checks a type invariant, or runs on a
module whose type invariant another run checks. Every property has a mutant in
`PROJECT.json` that breaks it.

Fairness. `Menu` and `UdpClient`: their thread runs when it can (and the network stack delivers
its event); the threads above them block in every loop, so the scheduler gets to them.
`Sound`: the work queue outranks all threads, and time passes. `Ina219`: transfers,
callbacks and the processing thread go on, and a conversion that was started ends - the
driver polls without limit, so a dead sensor would keep its reads for ever.
Runs without liveness assume none.

Deadlock is checked in every run: the only states without another step are named in `AllDone`
and `k_sys_fatal_error_handler` of `Ina219`.

## What the runs show to be wrong

`PROJECT.json` gives each with its line and the sentence it contradicts.

* MS5611: pressure below 20 degrees (`PressureInRange`); the temperature is right.
* GNSS: -ENODATA after every second fix (`NoDataMeansNone`); `gps_get_latest` may be a
  fix behind, torn or invalid (`LatestIsLatest`, `LatestIsOnePosition`, `LatestIsValid`);
  the age is computed from the wrong unit and wraps (`FreshIsYoung`); configuration is never
  retried (`FailuresRetried`); a frame with the sync characters in its payload is abandoned there and its fix lost
  (`EveryFixStored`); a frame behind a cut one is damaged and stored, since no checksum is compared
  (`StoredIsSent`); the NMEA search runs in vain for a sentence at the end of a read, counts minutes twice and takes
  quality 1 for valid.
* MS5611: a chain in part with four entries free (`WholeOrRefused`); overlapping reads mix (`OverlapHarmless`);
  a fetch takes a stale completion for its own (`FetchedBoth`); reads without coefficients (`CalibratedReads`);
  `channel_get` and the decoder disagree about the unit of pressure.
* INA219: a missing return after -ENOMEM (`AnsweredAtMostOnce`; the model goes on after it, with
  either outcome, in `Starved`); registers written with their bytes swapped;
  the current changes its sign when it is asked for twice.
* UDP client: a deinit before the socket exists does not stop it (`DeinitClosesSockets`).
* File logger: `file_logger_list_dir` passes an uninitialised structure and stops at its
  first entry; `file_logger_read_str` does not look whether its seek succeeded.
* Ground station: LoRa counters that do not count; "LoRa ok" of a radio that is not (`LoRaOkIsTrue`), and
  `lora_recv` on it; a log that is not cleared (`LogCleared`) or printed unread (`LoggedIsRead`).

The properties named here without a run are stated in the modules, for who fixes the code to check.

The throttle of the menu also loses updates by design: one that comes within
200 ms of a redraw is consumed and drawn only with the next event or update.
`PromptUpdateShown` says exactly what remains.

## What is proved

Every invariant and action property of the passing runs, and the refinements, for every value of the constants that the modules' assumptions allow. Each theorem rests on an inductive invariant
and on one lemma per action or group of actions that keeps it.

**Menu** (`MenuProofs`), for every tree of non-empty menus, screen geometry with the cursor row on the screen, queue
size and `MIN_REDRAW_MS < ClockMod`: `MenuTypeOK`, `WindowTheorem` (`SelectedVisible`), `ConfirmationTheorem`
(`ConfirmedOnPanel`), `GuardTheorem` (`CommandsGuarded`, the refinement), `PromptTheorem` (`PromptUpdateShown`) and
`PanelTheorem` (`PanelFaithful`). `Inv` has three facts besides the two state invariants. `DialogConsistent`: the
confirmation flag and the item agree, and the item is the one under the hidden
cursor and one that asks - no event moves the cursor while a question is up. `ThreadConsistent`:
k_poll's verdict on the queue still stands when it is acted on, since only the thread takes.
`QuestionShown`: a question not on the OLED is on its way there, because the event that raised it
obliges this turn to redraw; this is what makes the next double press one that saw the question.
`PromptInv` follows an update: either the thread has been told of it and will find the last redraw old enough
(`TickAges`: until its age would wrap, a redraw only gets older), or every datum drawn since is the new one; and once
a screen is left no data is in the framebuffer for a menu to leave there.
`PanelInv` says that the rows below the last item are blank before a menu is drawn. That is where the tree comes in, and why
`PanelTheorem` has the hypothesis `TreeFits`: `draw_menu_screen` clears nothing, so a menu reached from another must
draw as many rows as that one, and a menu with an item that asks must draw the four rows of the question. The ground station's
tree fits, two menus of four items each (`ObelicsAssumption`, evaluated in `menu_nav`); a fifth command alone would stay on the
OLED after the way back to the main menu.

**The menu behind the encoder** (`MenuProofs`): `UIImplementsMenu` shows that the composition is a behaviour of `Menu`, whence
`UIWindowTheorem` and `UIGuardTheorem`. `FourPressesTheorem`: the invariant `PressesPaidFor` says that the double presses
queued, the question and the command just sent are all paid for by presses no other command used. The model remembers
presses up to `MaxCredit`; the theorem asks that this covers a full queue, a question and a first press, `2 * QueueSize + 3`,
as in the run.

**Encoder** (`EncoderProofs`), for all windows, periods, queue sizes and clock widths of `EncoderAssumption`: `EncoderTypeOK`,
`GenuineTheorem`, `PairingTheorem` (the refinement of `PressPairing`) and `ThreePressesTheorem`. The
invariant `PressesTracked` says that while the driver waits, the first press it remembers is the last
press it saw, or a late press of a hold that will end the waiting. Unsigned differences of the clock stay ages across its
wrap, as long as the age itself does not reach
a full turn. That is the bound in `TimePasses`: a first press left waiting for 49 days is not covered.

**GNSS** (`GnssProofs`), for positions of any number of words and any number of fixes: `GnssTypeOK`, `FreshTheorem` and
`LatestTheorem`. `StoreInProgress`, `PublishedIs` and `FirstSlot` relate the words copied so far, the
index and the newest fix: while the index is not 0, slot 0 holds the newest fix whole. `ParserImplementsM10` shows that the driver
with its parser is a behaviour of `GnssM10`, so both hold with real frames (`ParserFreshIsNewest`, `ParserLatest`); what
the frames yield is proved below.

**GNSS parser** (`GnssProofs`), for any buffer, any bytes in the frames and any queue of frames and sentences that
`ParserAssumption` allows: `WholeFramesTheorem` and `WholeFixesTheorem`. A second sync pair before the end of a frame
makes it no frame for the parser, so both speak of the positions `p` at which one starts and no other follows up to its end
(`EndsAt`), and `OpenAt` of the one that has begun by a byte and not ended. The loop over a read has an invariant, `Parsed`,
after each byte: the bytes still to come are untouched, though the frame is assembled in the same buffer (`Unread`); what is
assembled is the open frame as far as it goes (`Assembled`), or none is open (`NoneOpen`); the fixes are those of the frames
that ended so far (`FixesBy`). Three lemmas show that a byte keeps it, one for each thing the loop may do with it: `StepSync`,
`StepSkipped`, `StepTaken`. For `WholeFixesTheorem` two reads are put end to end (`WholeJoined`): no frame goes over the seam
when the second read starts with a frame or the first one ended outside one, so their fixes are those of the bytes of both.
`StoredInv` adds to the property that what a read found is what its bytes hold (`FoundInv`), and that outside a
frame none is open in the bytes read (`OrderInv`). The induction over the bytes goes by the least number at which a
set of numbers is left (`Induction`, from the library's theorem on well-founded orders), which takes no operator as a parameter.

**Sound** (`SoundProofs`), for any sounds and any presses of the button: `SoundTypeOK`, `NeverStuckTheorem` and
`PlayedInOrderTheorem`. The invariant adds that a sound that is over has been forgotten, index and all, so that a run left over
from it finds nothing to play, and that at most one run is due, delayed or queued (`OneRunPending`), so that cancelling it is
taking the first away. The kernel queues no item twice (`Submit`).

**UDP client** (`UdpProofs`): `UdpTypeOK` and `NoSocketLostTheorem`, for any set of descriptors. `CloseConsistent` says that before the
thread assigns `sock` nobody closes it, and that whoever is about to clear it leaves nothing open.

**File logger** (`FileLoggerProofs`): `FileTypeOK`, `OpenTheorem` and `NoLeakTheorem`, for any finite set of handles; the count of open
handles changes by one with each mark (`CountOpen`). `MainIsAClientTheorem` is a refinement: `MainInv` says at which calls the log
file is closed, so every step of main is a step the library allows its callers (`MainLeaksNothing` follows).
`MenuOwnsScreenTheorem` rests on `ScreenInv`: from the clearing before `menu_init` on the framebuffer is blank or missing.

**INA219** (`Ina219Proofs`): `Ina219TypeOK`, `AnsweredOnceTheorem` and `PoolTheorem`, for any number of overlapping reads, any channels
and any pool. `AnswerInv` adds that what is
left of a chain ends in a callback, so that a read in flight always has someone to answer it. The account of the pool needs the same:
the entries an operation gives back are those in front of the callback. A chain holds a set of entries (`Entries`), so that
the account is one of cardinalities. `OkIsFreshTheorem`, for any channels the voltage is one of, rests on `FreshInv`: the ready bit is set only while no conversion
runs, a read past its trigger is in `running` or `register` whatever the other reads restart, and only a read in `register`
goes on to the registers.

**MS5611** (`Ms5611Proofs`), for any 16-bit coefficients, 24-bit raw values and pool that holds one chain - which `PoolAssumptionIs` shows to be
nine entries or more: `Ms5611TypeOK`; `BothConvertedTheorem`, where `Progress` goes along the chain and says what the
read has by then; `WholeTheorem` (`WholeOrRefused`), by cases on the acquisition that fails first; and the arithmetic.
`TemperatureTheorem`: words are eight bytes, carries go up only, and the bits a logical shift brings in where an
arithmetic one would copy the sign are those the final cast to 32 bits cuts off. `PressureTheorem`: from 20 degrees up `dt` is not negative
and has three bytes, so no product or sum of the formula reaches the highest bit, and a shift of it is a division.

Only model-checked: liveness (`InputServed`, `SoundEnds`, `IfUpWakes`, `AllAnswered`), since fairness and ENABLED are out of TLAPS's reach;
and the violated properties. Outside the parser no definition the proofs unfold loops over data of unknown length: the product of two words
is written out byte by byte, and the chain `ms5611_submit` builds is a recursive function over its seven acquisitions.

## Not modelled

The LED strip, servo, NeoPixel helper and GNSS pipe, for the reasons in `PROJECT.json`; the blocking fetch of
the INA219, which nothing calls; the conversions of the sensor decoders and of `channel_get`; the fields of a
position and the numbers of an NMEA sentence; the LED timers, the pattern of the strip and
the fatal error handler of the ground station, which draws whatever else is drawing; GPIO errors
at start-up, which the code ignores; a second call of `udp_client_init`; preemption between
the acquisitions of one INA219 or MS5611 chain by another context that acquires from the same pool.

## Plan

1. Done: `Menu` with encoder and composition, `GnssM10` with `GnssParser`, `Sound`, `UdpClient`, `Ina219`, `FileLogger`
   with `ObelicsMain`, `Ms5611`; theorems about all of them.
2. `Rtio`: the pool and executor on their own, so that `Ina219` and overlapping reads of `Ms5611` share one module, with
   preemption between two acquisitions.
3. The blocking interface of the INA219 and the calls of `asterics`' main as a module of its own.
4. Proofs: done for every safety property the runs check; next, those of the modules above, and that the pool of `Rtio`
   implements the one inside `Ina219` and `Ms5611`.
