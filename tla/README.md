# Data receive relay: TLA+ models, checks and proofs

The relay is an STM32F429 board under RT-Thread. It receives 12-byte frames
from wireless temperature transmitters through a CC1101 radio, keeps the last
record of up to 256 transmitters in Modbus holding registers, and serves them
to a host over Modbus RTU. The host also configures it through registers; the
configuration lives in two files on SPI flash.

This directory holds the TLA+ modules that model the relay's own code
(`src/Task`, `applications/main.c`, and the RTU slave, function handlers and
register callbacks of FreeModbus), the TLC configurations that check them, and proofs checked by TLAPS.
`PROJECT.json` lists the components, runs, mutants, findings, hazards,
theorems, and for every definition the source lines it models.

## The system

### Execution contexts

| context | priority | code | touches |
|---|---|---|---|
| timer interrupt, every second | - | `Timer.c` NodeOvertimeTiming | the second counter |
| main | 10 | `main.c` | mounts or formats the flash, creates the threads, blinks |
| TaskDataReceive | 11 | `TaskDataReceive.c`, `DataFrame.c`, `CC1101.c` | radio; writes node records |
| TaskCheckOverTime | 11 | `TaskDataReceive.c`, `Timer.c` | zeroes records of silent nodes |
| SaveConfig | 20 | `TaskModbus.c`, `CommunicationConfig.c`, `JsonFileOperation.c` | configuration, files, registers 0, 1, 7 and the ids |
| ModbusSlavePoll | 22 | `TaskModbus.c`, FreeModbus | any register, on behalf of the host |
| serial interrupt and its thread | 10 | FreeModbus `port/` | Modbus frame buffer, events |

A larger number is a lower priority. Threads 11 and 11 are time-sliced against
each other; a lower thread runs only when all higher ones sleep or wait. No
lock protects the registers (`usSRegHoldBuf`): what protects them, where
anything does, is this order. Several properties are about exactly that.

### Components, their state, operations and properties

* **Node table** (registers 0x008, 0x108, 0x208, 0x408, 0x708, 0xA08):
  per slot a temperature, voltage, signal strength, 32-bit launch number,
  32-bit id and 32-bit receive moment. *Operations*: look an id up, store a
  record word by word, expire a record word by word, configure an id word by
  word. *Hard*: two threads write the same slot word by word; 32-bit values
  are two registers; the second counter wraps; moment 0 is a special value.
  *Correct when*: a record goes to the slot of its id; the launch number never
  overcounts; no moment survives its deadline; silent slots do expire; only
  expired records are cleared, and wholly.
* **Configuration** (`g_ConfigFile`, registers 0, 1, 7, `/ConfigFile.json`,
  `/DeviceId.csv`): *Operations*: load at boot, show in the registers, take
  over what the host wrote when it sets a bit of register 7, save, restart.
  *Hard*: the poll thread runs while SaveConfig waits for the flash, and
  stores a register as two bytes; the power may fail at any time, also while
  a file is open; the flash may be unformatted; the overtime thread reads a
  parameter by its own schedule. *Correct when*: a reboot brings back what is
  in use; registers show what is in use; acknowledged requests are on flash;
  every request is acknowledged; the slave always comes up again.
* **Id file text** (`IntToStr`, `StrToInt`, one reused buffer). *Correct
  when*: every id comes back in its slot.
* **Radio** (CC1101 driver: learnt packet length, wait limit, poll counter; the
  chip: receiver state, FIFO, GDO0). *Operations*: reset and set up, poll,
  read and empty the FIFO access by access. *Hard*: the driver looks at GDO0
  once and then works on a chip that goes on receiving; the length it accepts
  is learnt from the last packet; the chip is reset every 20 polls, whatever it
  is doing. *Correct when*: what is handed over is one whole packet; a frame is
  refused at most once per other packet and lost otherwise only to a reset; the
  thread never stops polling and never stays stuck.
* **Frame decoding** (checksum, id, temperature, voltage and RSSI arithmetic).
  Pure. *Hard*: float arithmetic, signs and widths. *Correct when*: what the
  host reads, by the register formats, is what was measured.
* **Modbus RTU slave** (receive, transmit and event state machines shared by
  the serial interrupt, the 3.5-character timer, the transmit thread and the
  poll thread). *Operations*: receive a byte, end a frame, check and execute
  it, send the answer byte by byte. *Hard*: one buffer for requests and
  answers, events merged in a bit set, a master that does not wait. *Correct
  when*: its assertions hold; only what was asked is executed, once, and
  answered; every request is answered; the receiver always recovers.
* **Function codes and register callbacks** (ten handlers, four callbacks,
  holding registers, coils). *Operations*: check a request, refuse it, read or
  write registers byte by byte or coils bit by bit. *Hard*: addresses are
  changed by one and back in 16 bits; other threads run between two bytes;
  function 23 is a write and then a read. *Correct when*: exactly what exists
  can be reached; an acknowledged request was carried out and its answer true;
  no other coil changes.

Interaction: radio -> frame decoding -> node table (calls of one thread);
node table <-> overtime thread (shared registers and counter); host -> Modbus
-> registers (shared) -> SaveConfig -> files -> (reboot) -> registers and
parameters -> slave address, overtime.

## Modules

| module | models | remarks |
|---|---|---|
| `NodeTable` | node table, receive and overtime threads, timer, id configuration | one action per access to a shared register |
| `NodeTableProofs` | - | four theorems about `NodeTable` |
| `ConfigStore` | boot, SaveConfig, host writes, power cuts | one action per stretch in which no other thread can run |
| `DurableConfig` | what the configuration promises its operator | abstract; `ConfigStore` implements it |
| `MCConfigStore` | - | the host's values for TLC |
| `ConfigStoreProofs` | - | six theorems about `ConfigStore` |
| `ModbusRTU` | the Modbus slave from the first byte of a frame to the last byte of its answer | the master and the UART are external actions |
| `RequestAnswer` | what a Modbus master may expect | abstract; `ModbusRTU` implements it |
| `MCModbusRTU` | - | the master's frames for TLC |
| `ModbusRTUProofs` | - | five theorems about `ModbusRTU` |
| `IdFile` | the text of DeviceId.csv | conversions as functions, the reused buffer as state |
| `IdFileProofs` | - | one theorem about `IdFile` |
| `Radio` | the polling loop, the CC1101 driver, the chip | one action per SPI access; chip and channel are external actions |
| `RadioProofs` | - | four theorems about `Radio` |
| `Frame` | DataFrameAnalysis, the Calculate functions and the register formats | operators only |
| `FrameProofs` | - | what the sum, the formulas and the formats compute, as lemmas |
| `FunctionCodes` | the function handlers, eMBPoll's choice among them, the register callbacks | one action per byte of a holding register |
| `FunctionCodesProofs` | - | what each handler and callback guarantees, as lemmas |
| `HostView` | composes `Frame` and `FunctionCodes` over the register map | from the sensor to what the host reads |
| `MCHostView` | - | slots, sensors and requests for TLC |
| `HostViewProofs` | - | seven theorems about `HostView` and `FunctionCodes` |

The register map, which all threads share, appears in three modules, each at
the grain its question needs: `NodeTable` has the two writers of the records
store by store with clock and overtime, `ConfigStore` registers 0, 1, 7 and the
ids with the configuration thread, `HostView` the whole map at its real addresses
and with the values measured, the two writers store by store and the poll thread
byte by byte.

### NodeTable

`rx` and `chk` are the program counters and locals of the two threads; `ids`,
`temp`, `volt`, `stat`, `launch`, `moment` are the register blocks. A reading
is abstracted to the device it came from (`Reading(d)`, 0 when cleared): no
property depends on its value. A 32-bit value stays a pair of words, because
the threads can be switched between the two accesses.

* `ReceivePacket(d, ret)` is `CC1101_ReceivePacket` returning a frame and
  `DataFrameAnalysis` its verdict; it happens at the end of the 10 ms delay
  between the two, during which nothing of this model is touched.
* `GetDeviceNumber` is one action although it loops over 256 slots: the ids
  are stored only by threads that cannot run then.
* `SaveTemperature` ... `StoreMomentHi` and `LoadMomentLo` ...
  `ClearMomentHi` follow the C statements one access at a time. `valid` is
  `isDataValid`, which every Save function tests and the end of the loop
  clears.
* `NodeOvertimeTiming` adds one second modulo `Time` = 2^32 (scaled).
* `StoreDeviceIdWord` stands for ReadDeviceIdFile and for the host's writes;
  its guard is the priority argument: both table threads sleep.

`saves` and `quiet` are history variables: packets begun per slot, and seconds
since the slot's record was last begun or completed (saturating at
`QuietMax`).

### ConfigStore

`sc.pc` walks from power-up (`"mount"`) through the load into the loop of
`SaveConfigThreadEntry`. The poll thread has the lowest priority, so it runs
only while SaveConfig sleeps or waits in a file operation (`PollMayRun`:
`spi_flash_sfud.c` waits for the chip with `rt_thread_delay`). Everything
SaveConfig does between two such points is one action. FatFs truncates a file
when it is opened with FA_CREATE_ALWAYS and records its size when it is closed:
between the two a power cut leaves an empty file, which is how the files are
modelled (`absent`, `empty`, or complete). A failed mount is followed by a
format and no second mount; file operations then do nothing, and nobody looks
at their result.

The host writes a register with two byte stores (`HostWrite...` the high byte,
`FinishWrite` the low one), as `eMBRegHoldingCB` does. Register 7 is the set of
the bits the code looks at. A *polite* host (`Polite`) waits until register 7
reads 0 before it writes again; the run assumes it. With a host that does not wait
(`Polite` = FALSE) `SlaveStarts` does not hold: SaveConfig may take register 0 over
between its two byte stores, with address 0, which eMBInit refuses after the next
reboot, and the slave stays off. Nothing in the code prevents it.

`PowerCut` may come after any step; `Reboot` resets RAM and keeps the flash.

`DurableConfig` is the promise: a configuration in use, a stored one, and a
save still due; a restart that the operator asks for keeps the configuration,
a power failure takes back what was not saved, or everything if it came in the
middle of a save. `ImplementsDurableConfig` maps g_ConfigFile (or, before the
boot has read it, the file), what a boot makes of the file, isConfigUpdata,
whether the flash is mounted, and the power cuts onto it. Its `Spec` is `Safety`
(initial states and steps), which is proved of `ConfigStore`, and `Saves` (a save
that is due is made), which TLC checks. The host may send
parameters and the restart bit in one write: the high byte, with the restart
bit, arrives first.

Abstractions: the json text is its parameters (cJSON prints and parses
integers exactly; the `name` field, which is lost at the first load and never
read, is left out); the id text is exact by `IdFile`; an unreadable or empty
json file leaves the defaults. Reading an empty file passes a null pointer to
`f_read` for the count, and FatFs stores 0 through it: address 0 is flash on
this board, and the model takes the store to have no effect.

### ModbusRTU

`rcv`, `timer`, `buf`, `pos` are eRcvState, the 3.5-character timer, ucRTUBuf
and usRcvBufferPos; `snd`, `txOn`, `count`, `trans` the transmitter: eSndState,
the event the transmit thread waits for, usSndBufferCount, and whether the
thread is between enabling the receive interrupt and setting eSndState. `poll`
is eMBPoll with its static variables, `events` the set behind
xMBPortEventPost. A byte is known by its frame and place, so that a buffer
that mixes frames, or an answer built over a new request, can be told from a
whole one; the CRC accepts whole undamaged frames and answers only.

* `ReceiveFSM` is the serial interrupt, taken by `MasterByte` at once, or by
  `RxPending` for the one byte the UART keeps while the interrupt is disabled.
* `T35Expired` runs in the tick interrupt with interrupts disabled. The bytes
  of a frame follow each other faster than it.
* `PollGet` takes all events at once. For several, eEvent is uninitialized:
  any value. `Post` hands an event directly to a poll thread that waits, as
  `rt_event_send` does. The delay of 1 ms in the poll loop is part of the time
  that passes before `PollGet`.
* `Receive`, `Execute` and `Send` are three steps: the receive interrupt may
  write the buffer between them. A handler's reads and writes of the buffer
  are one step; a frame that arrives in the middle of a handler is not told
  from one that arrives before or after it.
* `TransmitFSM` sends one byte per step (`stm32_putc` waits for each), and
  `TransmitterIdle` is its last statement.
* A failed RT_ASSERT is recorded in `failed` and stops every action, as
  `rt_assert_handler` does.

`Init` chooses what is assumed: a *patient* master waits for the answer, or
until the slave has settled, before it speaks again; a *prompt* poll thread
gets the processor before the next frame is complete. One run covers the four
combinations, and each property says which it needs. An impatient master may
also be noise on the line.

`RequestAnswer` is the contract: ask, carry out once, answer once, before the
next request. `ImplementsRequestAnswer` maps the frames sent, the counts of
executions and answers, and the effects that belong to no request onto it. It
promises this to a patient master and a poll thread that is not starved
(`Calm`); other behaviours are mapped to a slave that nobody asks, since the
runs `modbus_merged` and `modbus_collision` show that the contract is broken
there. The abstract progress property is a leads-to (`Finishes`) and not a
fairness condition: it says the same of this contract, and TLC checks it
through the mapping. As in `DurableConfig` the rest of the contract, `Safety`, is
proved.

### Radio

`drv` is the program counter with the locals of the thread and of
CC1101_ReceivePacket (`leng` is the thread's, handed in by reference); `num` is
the poll counter. The
chip is `chip` (idle, calibrating, receiving, or `"sync"` while GDO0 is high),
`tuned`, `air` (the packet being received and how much of it reached the
FIFO) and `fifo`. A packet is its length and whether its CRC is good; an item
of the FIFO is a whole packet, the head of one that is still coming, or the
tail of one whose head was read away.

* `StrobeRx`, `WaitForGDO0`, `ReadRxBytes`, `ReadLength`, `ReadPayload`,
  `Flush` are CC1101_ReceivePacket. `WaitForGDO0` counts down in a uint8_t, from
  0 after start-up.
* `OverrunRxBuffer`: a packet that is longer than rxBuffer, but not longer than
  the packet before it, is read all the same, and the burst read writes over the
  thread's stack. That is undefined, and nothing is said of the thread from then
  on (`"overrun"`); the chip goes on. PKTLEN lets in 80 bytes. Packets of more than
  61 do not even fit the FIFO; they follow the same way, since their length byte
  is in it and the rest does not matter any more.
* `Flush` empties the FIFO whatever the chip is doing. The driver relies on it: it has
  switched the receiver on at its start (SRX) and strobes SFRX without a look at the
  chip's state, although the chip promises an effect only when idle or after an
  overflow. What the strobe does otherwise is not known from the code.
* A packet longer than the last one is dropped but its length is kept
  (`"forget"`): the first frame, and each that follows a shorter packet, is lost.
* `Periodic` and `CC1101_Reset` are the two resets; `HandlePacket` is the rest
  of the loop, which `NodeTable` and `HostView` look into.
* `Calibrated`, `Sync`, `HeadArrives`, `PacketEnds` are the chip, from the way
  the driver sets it up (IOCFG0, PKTCTRL0/1, MCSM0).

A packet may come into the FIFO while the driver is about to read or empty it:
SPI2 runs at 45 MHz / 256, so the way from the look at GDO0 to RXBYTES takes
about 0.1 ms and to SFRX 1 ms, while a byte on the air takes 0.08 ms. What a
half-read FIFO yields is any byte and any CRC bit, so the driver may then
report as received what is no packet, and only the frame's own checksum
protects the node table. The history variable `torn` marks this until the next
reset of the chip. `HandsOverWholePackets` and `FramesAreLostOnlyToResets` speak
of the time when it is not set; `Recovers` says that such a time comes again;
`OneFrameLostPerPacket` holds throughout, and `KeepsPolling` and `Recovers` until a
packet overruns rxBuffer. Nothing in the code prevents that: two longer packets that
come one by one are enough, of which the first teaches its length and the second is
read.

### Frame, FunctionCodes and HostView

`Frame` has the bytes of a frame and the formulas. The temperature comes from
a quadratic equation that the code solves in floats; the module keeps it in
integers, by the largest converter value that still means a given tenth of a
degree (`WarmestRaw`). The result was compared with the compiled C functions
for every converter value, 0 to `AdcMax` = 1023, and is the same. Below zero the code
converts to int16_t before it multiplies by 10, so the decimal is lost, which
`TemperatureFormat` keeps; `host_tenths` shows that the comment on the format says
otherwise. Nothing is checked: values above 531 mean less than -50 degrees, and
their words go on beyond the documented 2500, up to 5000.

`FunctionCodes` has an operator for each handler (the exception it returns, in
the order of its checks) and each callback. Requests on coils, and refused
ones, are one step; those on holding registers are a `StoreByte` or `LoadByte`
per byte, between which the threads of priority 11 may run. 23 stores first
and then finds out whether it may read. `host.calm` remembers whether
another thread stored in the meantime.

A written register gets its high byte first, which zeroes the low one, and the low
byte is then or-ed into what the register holds by then (`StoredByte`, `Or`).

`HostView` adds the register map (`TemperatureAddr` ... `MomentAddr`), the receive
thread `rx` and the overtime thread `chk`. Both have priority 11 and share their
time slices, so each of their loads and stores is a step: `HandleFrame` decodes a
frame, as sent or damaged, and looks its slot up, `SaveWord`, `LoadLaunch` and
`TakeMoment` are the five Save functions, `CheckSlot` and `CheckMoment` load the moment
and decide, `ClearWord` is one of the seven clearing stores (`Record` lists the
registers in the order both threads store them). When a slot expires is left open
here, `NodeTable` has the clock. Neither thread sleeps inside a record, so the poll
thread, at 22, runs only while both are outside (`HostNext`).

History: `shown`, what the last good frame for a slot said, and nothing after a
clearing; `mixed`, slots in which the two threads met the last time either stored
or cleared there; `renamed`, slots whose id the host changed since; `want`, the
coils as asked. A slot in `mixed` may have lost some registers of its last record
to the clearing, which is what the code does;
`RecordsShowMeasurements` says that this is all that can happen: a register shows
the last frame or 0, never an older frame and never another slot's.

Two properties of the host are named, because nothing in the code enforces them:
`UnusedBitsAreZero` (the padding of a coil write is 0) and `SparesRecords` (the
host does not write over measurements, and clears the rest of a record at
most). `MCHostView` assumes both of its requests.

What the modules say of the code beyond their properties:

* The host can read one byte of a register, or one word of a 32-bit number,
  from before a store and the other from after it. `AnswersAreTrue` is stated
  for undisturbed requests; nothing in the code protects the others.
* A short request 23 comes back as its own answer. 15, 16 and 23 compare the
  byte count with the number of items but not with the length received; a
  shorter request writes what an earlier frame left in the buffer.
* Set padding bits in the last byte of a coil write change the coils behind
  those addressed.
* RSSI bytes 128 to 148 mean less than -128 dBm and wrap to a strong signal
  (+117 to +127 dBm); `SignalShown` states what is true of all bytes, the value modulo 256.
* A frame with id 0 is filed in the first slot that was never configured.
* When the host gives a slot another id, the old record stays there until the
  next frame or its overtime.
* A record taken in while the second counter is 0 is never cleared.
* A record stored in the middle of a clearing may leave a reading whose launch number
  and moment are 0; the overtime thread skips it from then on, until the transmitter
  sends again. `NoTraceWithoutRecord` speaks of clearings that no record was stored
  into.
* xMBUtilSetBits and xMBUtilGetBits access two bytes for a part of one: with the last
  coils that is also `ucSCoilBuf[8]`, behind the array, stored with the value it had.
  The model keeps coils as bits, and `TypeOK` says only that no bit behind the last
  coil is set; for the holding registers it does say that every byte accessed
  belongs to `usSRegHoldBuf`.

### IdFile

`SaveDeviceIdFile` as alternating conversions into one buffer that is cleared
with `memset(str, 0, strlen(str))`, then `ReadDeviceIdFile` line by line.
`IntToStr` is the loop of the code (leading zeros overwritten, no terminator),
`StrToInt` its loop in uint32_t arithmetic.

## Runs

| run | expects | shows |
|---|---|---|
| `table_safety` | pass | types; `SavesUnderItsId`; `LaunchNeverOvercounts`; `BoundedStaleness`; `SilentSlotsExpire`: every interleaving of saving and clearing on one slot whose id is rewritten word by word, counters wrapping, the timer created or not |
| `table_race` | violation | `ClearsOnlyExpired`: a fresh record is erased when it is stored between the overtime decision and the clearing |
| `config_safety` | pass | types; `RebootKeepsConfiguration`; `RegistersShowConfiguration`; `AskedIdsAreStored`; `SlaveStarts`; `RequestsAreAcknowledged`; `ImplementsDurableConfig`, with a polite host, power cuts and an unformatted flash |
| `config_overtime` | violation | `OvertimeOfFileIsUsed`: the stored overtime never reaches the overtime thread |
| `config_unformatted` | violation | `ParametersAreSaved`: on the boot that formats the flash, parameters are acknowledged and lost |
| `modbus_safety` | pass | types; `MachinesAgree`; `PatientMasterIsSafe`; `ExecutesWhatWasAsked`; `RequestsAreAnswered`; `ListensAgain`; `ImplementsRequestAnswer`, for all masters and loads |
| `modbus_merged` | violation | `EventsAreHandled`: a request is lost when its event is merged with EV_FRAME_SENT |
| `modbus_collision` | violation | `ReceivesOnlyWhileNotSending`: a byte during an answer stops the program in an assertion |
| `id_text` | pass | `RestoresIds` |
| `radio_safety` | pass | types; `HandsOverWholePackets`; `OneFrameLostPerPacket`; `FramesAreLostOnlyToResets`; `KeepsPolling`; `Recovers`, with frames, shorter, longer and damaged packets, and a GDO0 that may stay high for ever |
| `host_view` | pass | types and bounds; `RefusedIfAbsent`; `AnswersAreTrue`; `CoilsAsAsked`; `RecordsShowMeasurements`; `RecordsStandUnderTheirId`; `NoTraceWithoutRecord`, on the real register map: records stored and cleared word by word by two threads at once, and requests of every function code between them, each byte a step |
| `host_tenths` | violation | `TenthsBelowZero`: the decimal promised below zero is lost |

The violations are described under "findings" in `PROJECT.json` with the
comment of the source each contradicts.

### Bounds

* `NodeTable`: `Word` = 2 makes a register one bit and the 32-bit counter two
  bits, so carries between words and the wrap of the counter happen within a
  few steps; an overtime of 2 is then half the counter's range. `table_race`
  uses `Word` = 8, so that nothing wraps: the violation is no effect of the
  small counter. One slot suffices for the interleavings, as the threads meet
  only in one slot; `SavesUnderItsId` is proved for any number. Three packets
  let a save meet a clearing twice. `MaxTicksPerPass` and
  `MaxTicksPerSave` say that a pass or a save, which take far less than a
  second of processor time and restart every 50 ms, sees at most one tick.
* `ConfigStore`: five writes are two complete requests and a restart; two
  power cuts allow a cut during the recovery from a cut. Two ids make the
  saving of the file a loop. Host values: two baud rates and addresses, one
  overtime other than the default, one id; requests with one bit, and with
  parameters and the restart together.
* `ModbusRTU`: a buffer of 4 bytes and a CRC of one, so that frames have 3 or
  4 bytes and 5 overflow. Three frames: one whose answer is late, one that
  meets it, and one that shows whether the slave recovered.
* `IdFile`: three ids of up to four digits, chosen so that values such as 0,
  100, 1000 and the largest, 1023, occur in every order. Four digits relate to
  1024 as ten relate to 2^32.
* `Radio`: frames of 3 bytes and packets of 2 and 5, so that there is a length to
  learn, to unlearn and to exceed; a uint8_t of 16 values, so that four times the length
  and the wrap of the wait counter stay different; a reset after 3 polls
  instead of 20.
* `HostView`: nothing is scaled: 3080 registers, 64 coils, 16-bit words. In
  `host_view` the registers of slots 0, 1, 2 and 255 are kept, the last one ending at
  the last register, and there are at most two frames, from four transmitters and with
  two sensors, and two requests of 47 kinds, three inputs together (`MaxInputs`): two
  frames and a request, or two requests and a frame, each load and store of one between
  any two of another. What each of the 1024 temperatures, 1024 voltages and 256 signals
  becomes is checked apart, as the assumption `MCFormats` of `MCHostView`.
  `host_tenths`: one slot, no host, one frame with any temperature. Damage is a wrong
  head or one wrong byte. The padding of coil writes is 0.

No run uses a state constraint. Deadlock is checked everywhere: the overtime
thread and the radio thread never stop.

### Fairness

* `NodeTable!FairSpec`: weak fairness of each table thread and of the timer.
  Both threads have the same priority and a time slice of 5 ticks, and the
  threads above them sleep nearly always; the timer interrupt is hardware.
  Packets need no fairness.
* `ConfigStore!FairSpec`: weak fairness of SaveConfig, and strong fairness of
  the start of the poll thread and of its second byte store: the poll thread
  is enabled and disabled again and again, and SaveConfig sleeps a full second
  in every round, during which the poll thread does run. The host's requests
  and power cuts have no fairness.
* `ModbusRTU!FairSpec`: weak fairness of the poll and transmit threads, the
  timer and the pending interrupt, and of the bytes of a frame once begun: a
  master finishes its frame, and the line is silent at times.
* `Radio!FairSpec`: weak fairness of the polling thread, that is, it gets the
  processor and the chip answers each SPI access on MISO. Nothing is assumed of
  packets, not even that a reception ends.

## Proofs

Every invariant that a passing run checks is also a theorem, for every value of
the constants that satisfies the named assumptions: for 256 slots, 16-bit words,
buffers of 256 bytes, and any number of packets, writes, power cuts, frames and
requests. The assumptions (`TableAssumption`, `ConfigAssumption`,
`ModbusAssumption`, `RadioAssumption`, `FunctionCodesAssumption`,
`HostDataAssumption`, `HostViewAssumption`, `LayoutAssumption`,
`IdFileAssumption`) say that the constants have their types, that data fits the
bytes that carry it, and what the sizes in the code satisfy: the length
of a packet fits a uint8_t, a converter delivers 0 to 1023, the kept registers hold the records, a uint32_t
has no more digits than IntToStr writes. Where a theorem needs more of the
host or of the configuration, that is a hypothesis in its statement.

`NodeTableProofs`:

* `TypeCorrect` (`Spec => []TypeOK`): no store leaves a 16-bit word and no
  thread indexes outside the table. `TypeOK` is inductive; the lemmas
  `ModRange`, `ValueRange`, `WordRange` supply the arithmetic of words.
* `RecordsGoToTheirSlot` (`[]SavesUnderItsId`). Inductive invariant `IdInv`:
  also that the data is valid when the lookup begins. The proof shows what the
  property rests on: no id is stored while the receive thread is between its
  lookup and its last store.
* `LaunchNumberSound` (`[]LaunchNeverOvercounts`). The invariant is not
  inductive alone: between the loads and stores of SaveLaunchNumber the number
  is in the thread's locals, while the overtime thread may zero either word.
  `LaunchInv` bounds, for each program counter, every combination of an old and
  a new word that the registers may hold by the packets counted; `WordsBound`
  and `Increment` show that splitting an incremented number into words keeps
  the bound.
* `SilentNodesExpireInTime` (`[]BoundedStaleness`), if `OvertimeFits`: the
  overtime and the delays are shorter than the low word of the counter takes to
  run round. In the code that is 65536 s, and the overtime, a byte of minutes, at
  most 15300 s. Inductive invariant `StaleInv`: the words of a moment are what is
  left of a time as old as the slot is quiet (`MomentPart`); how quiet a slot
  that has a moment can be depends on where the pass of the overtime thread is
  (`QuietPart`); and what that thread has loaded is no younger than the register,
  unless the receive thread renewed it meanwhile (`KnownPart`). The heart is
  `RestIsOlder`: a moment that lost one of its words looks older to
  CheckOvertime, never younger, also across a wrap of the counter. The run
  `table_safety` has an overtime that is longer than its one-bit low word, so it
  covers what the hypothesis leaves out, on one instance.

`ConfigStoreProofs`:

* `ConfigTypeCorrect` (`Spec => []TypeOK`), one lemma per group of actions.
* `ConfigurationSurvivesReboot` (`[]RebootKeepsConfiguration`). Inductive
  invariant `SaveInv`: wherever SaveConfig is in its loop, parameters and file
  agree unless `isConfigUpdata` is set, and it is clear whenever the loop
  starts again or a reset may come.
* `ConfigStoreRefinesDurableConfig` (`Spec => Durable!Safety`): every step maps
  to a step of `DurableConfig` or leaves its variables alone. Besides `SaveInv` it
  needs `FlashInv`: mounted flash holds a file system, and a boot that cannot mount
  finds no json file, so it has nothing to load.
* `RegistersAreInverse` (`[]RegistersShowConfiguration`), from `RatesInv`: only
  rates that the two bits of register 0 can say are ever stored, so encoding
  and decoding are inverse.
* `PoliteHostsIdsAreStored` (`[]AskedIdsAreStored`, if `Polite`). `PoliteInv`:
  while a request is pending no register write is under way; `IdsInv`: the ids
  asked for stay as they are until bit 3 is cleared, and the lines written so far
  are theirs.
* `ValidHostsSlaveStarts` (`[]SlaveStarts`, if `ValidHost`: polite, and only
  addresses 1..247). `AddressInv`: every copy of the address, in register,
  parameter or file, is valid except in a register between its two bytes. Without
  politeness it does not hold (see ConfigStore above).

`ModbusRTUProofs`:

* `MachinesNeverContradict` (`[]MachinesAgree`). Inductive invariant
  `MachinesInv`: the timer runs only while the receiver is not idle, and while
  the transmitter has its event the receive interrupt is off and the receiver
  idle. No assumption on the master or the load is needed.
* `ModbusTypeCorrect` (`[]TypeOK`), with `SourceInv` about the bytes in the buffer.
* `PatientMastersAreSafe` (`[]PatientMasterIsSafe`). `PatientInv`: where receiver,
  transmitter, events and poll thread can be together while the master waits.
* `RequestsAreExecutedAsAsked` (`[]ExecutesWhatWasAsked`). `CalmInv`: for each phase
  of a request, from its first byte to the last of its answer, what the buffer
  holds, which events are pending and what has been counted.
* `ModbusRTURefinesRequestAnswer` (`Spec => Contract!Safety`), from the same
  invariants: what is counted changes only in the abstract order.

`RadioProofs`:

* `RadioTypeCorrect` (`[]TypeOK`), with `ChipInv`: a packet is on the air exactly
  while GDO0 is high, its head is the last in the FIFO, and the driver reads only
  from a FIFO that holds something.
* `DriverLearnsTheLength` (`[]OneFrameLostPerPacket`), with `LengthInv`: after a
  refused frame the length in use is the frame's, and the packet being read has
  the length that was read.
* `OnlyWholePackets` (`[]HandsOverWholePackets`), for packets of any length, with
  `WholeInv`: unless `torn`, the FIFO holds at most one packet when the driver reads,
  and what it read so far belongs to it. That the packet fits rxBuffer is no part of
  it.
* `OnlyResetsLoseFrames` (`Spec => FramesAreLostOnlyToResets`), an action property
  from the same invariants.

`IdFileProofs`:

* `IdsSurviveTheirText` (`[]RestoresIds`). `DigitsInv` is the loop invariant of
  IntToStr: after k iterations the string holds the digits of the first k from
  the first that is not 0 on. `StrLenIs`, `ClearedIsBlank` and `StrToIntIs` follow,
  and `FileInv` says which lines are in the file and which ids are back. The
  recursive functions are handled by two lemmas about loops that need no operator
  parameter: `LoopInduction` (over a set of indices) and `LoopExists` (for an
  iteration given as a function).

`FrameProofs` and `FunctionCodesProofs` are lemmas for `HostViewProofs`: that the
sensor formulas are monotonic and the formats can be read back; that the 16-bit
address arithmetic does not wrap in a way that matters (`ExistMeansAll`), that the
byte loops reach every register once, high byte first; and a closed form of
the coil loop (`WrittenCoilsIs`).

`HostViewProofs`:

* `AbsentItemsAreRefused` (`[]RefusedIfAbsent`). `HostInv`: how far the request under
  way has come and that it passed its checks.
* `AnswersTellTheTruth` (`[]AnswersAreTrue`). `CalmInv`: if no other thread stored in
  between, the bytes done so far agree with the registers.
* `CoilsAreAsAsked` (`[]CoilsAsAsked`, if `UnusedBitsAreZero`), and
  `HostViewTypeCorrect` (`[]TypeOK`, same hypothesis: padding bits could set coils
  behind the last).
* `RecordsKeepTheirId` (`[]RecordsStandUnderTheirId`). It is inductive with
  `ShownInv` (`shown` is a function on the slots) and the types in `HostInv`, because
  record and id registers are apart.
* `RecordsAreRight` (`[]RecordsShowMeasurements`) and `NoTraces`
  (`[]NoTraceWithoutRecord`), if `SparesRecords`. Neither is inductive: between two
  stores the rest of a record is in the locals of the receive thread, and the
  other thread may be anywhere. `ThreadInv` has the types and places of the two threads;
  `RecordInv` is the conjunction of `WordInv` (the words not yet stored show what was
  measured), `MixInv` (a slot both threads are in is `mixed`), `ShowsInv` (the words stored
  so far show it, or are 0 and torn), `ClearInv` (of a slot that only the overtime
  thread is in, the registers before its place are 0) and `TraceInv` (a slot without
  record is all 0). One lemma per step, and they rest on the layout: no register
  has two uses (`RecordsApart`, `IdsApart`).

Only model-checked: the liveness properties (`SilentSlotsExpire`,
`RequestsAreAcknowledged`, `RequestsAreAnswered`, `ListensAgain`,
`KeepsPolling`, `Recovers`) and the progress part of the two refinements. They need
reasoning about fairness and ENABLED, which the prover does not have.

## What is not modelled

* SPI and UART registers, the RT-Thread kernel, FatFs, cJSON, struct2json and
  the HAL are hardware or vendored and appear only by what the code relies on.
  Of the radio's settings only that they are written is modelled.
* eMBDisable, eMBClose, eMBSetSlaveID, eMBRegisterCB, CC1101_SendPacket and
  CC1101_SetRxMode are never called; FreeModbus ASCII, TCP and master modes
  are not built into the program's tasks. The test thread `Test.c` is not started.
* The LED loop of main and all printing.
* An SPI access that the radio never answers, which nothing in the code bounds; and
  what the receive thread does once rxBuffer was overrun.
* `|=` on a register (user_mb_app.c:141) is one step: a store of another thread
  between its load and its store, which would be lost, is not told from one before.
* The byte behind `ucSCoilBuf` (see above).
* Raw values above 1023. The frame has 16 bits for them, the transmitters' converters
  ten, by the 1023 in both formulas.

## Plan

All components that carry the program's own logic are modelled and every
invariant is proved. What could follow:

1. `BoundedStaleness` for overtimes longer than the low word of the counter.
2. The step lemmas that liveness rests on: which action is enabled, and what
   measure it decreases, at each place of each thread.
