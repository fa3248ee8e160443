# SPI between an FPGA and a DSP: specifications, model checking, proofs

The repository connects an Altera FPGA to a Texas Instruments DSP.  Six SPI
masters in the FPGA, driven by a Nios II soft processor, raise their chip
selects; the rise starts a conversion of the DSP's ADC, whose interrupt routine
stores the sample straight into the shift register of the DSP's SPI slave; and
after a programmed delay the master shifts the sample out.  There is no
handshake: everything rests on orders and times of things that happen in two
chips.  Under the two programs lie two libraries, the HAL of the Nios II and the
device support of the DSP, which set up clocks, interrupts, pins and files
before the programs run and work under them while they do.  That is what these
modules are about.

Paths below are relative to `src/`; `vhd` is
`SPI_Nios_project/spi_master_module.vhd`, `top` is
`SPI_Nios_project/spi_minimized_delay_top.vhd`.

## 1. Inventory

| component | state | operations | what makes it hard | what makes it correct |
|---|---|---|---|---|
| SPI master (`vhd`) | ten registers: state machine, two shift registers, RX word, delay counter, two dividers, edge counter, CS, SCLK | one clocked step; asynchronous reset | two dividers that must stay half a period apart; a delay that software may rewrite under them; reset in the middle of a frame; comparisons at the edge of their ranges | both words arrive whole; frames are whole; SCLK has its timing and rests at cpol; every transfer ends; END is released |
| top level (`top`) | wires only | six masters on one START, one DELAY, one END | END is an OR; the masters are reset by `reset_n` itself, the registers that drive them later, by the reset controller | masters started together run in lockstep, the others stay quiet |
| PIO registers (`nios/synthesis/submodules/nios_*spi*.v`) | START, DELAY (8 bits), TX x6; registered read data of END and RX x6 | bus write, bus read, reset | reads lag the ports by a cycle | a RX word read after END belongs to that END |
| reset controller (`altera_reset_controller.v`, `altera_reset_synchronizer.v`) | input synchronizer, delay line, stretcher, `reset_out`, `reset_req` | one clocked step; asynchronous assertion | a button that bounces: a pulse shorter than a cycle, a second pulse while the first drains | no pulse is lost, none comes out too short, `reset_req` brackets `reset_out` |
| Nios II program (`software/soft/hello_world.c`) | program counter, one word | write DELAY, TX, START; poll END; read RX; print | the polling loop has no timeout | the loop ends, and only when the transfer is done; the word is that transfer's |
| DSP program (`spi_adc_minimized_delay/Main.c`) | program counter, `Vbus`, enable bits, vector | boot, loop, interrupt routine | the routine races the master's first edge; conversions may end during the routine; interrupts are enabled piece by piece; a reset at any statement | a timely frame carries the sample of its own CS; the interrupt path does not jam, and never reaches a default routine; the boot ends |
| DSP device support (`F2837xS_SysCtrl.c`, `_Gpio.c`, `_Adc.c`, `_Spi.c`, `_EPwm.c`, `_PieCtrl.c`, `_PieVect.c`, `_DefaultISR.c`) | the device's registers: clocks, PLLs, watchdog, flash, pins, ADC trims, interrupt enables and vectors | some sixty functions | writes that EALLOW or a clock gate swallows; a PLL that does not start; settings that are borrowed and given back; modes and locks left by earlier calls | every write lands; the CPU never runs from an unlocked PLL; what was borrowed is returned; trims fit the mode; each interrupt has its own routine |
| JTAG UART driver (`soft_bsp/drivers/src`) and device (`nios_jtag_uart_0.v`) | two circular buffers shared with an interrupt routine, `irq_enable`, `host_inactive`, `timeout`; two FIFOs, interrupt enable bits, `pause_irq`, `ac` | write, read, ioctl, close, interrupt routine, timeout routine | buffers without locks; interrupts turned off and on by two parties; blocking waits; a timeout that is off without a timer; a device that changes between two reads | no character lost or repeated; no wake-up lost; nobody left waiting for a host that is there |
| HAL: start-up, files (`HAL/src/alt_main.c`, `alt_open.c`, ...) | descriptor table, high-water mark, lists of devices and file systems, errno | start-up, exit, open, close, read, write, ioctl, fcntl, lseek, fstat, stat, isatty | paths that fail half way; streams that are copies; a lock that compares with the whole table | a descriptor in use is never handed out again; none leaks; the streams stay; a lock locks |
| HAL: interrupts (`alt_irq_handler.c`, `alt_iic*.c`, `alt_irq.h`, `alt_legacy_irq.h`) | PIE, ienable, its copy, priority mask, handlers | dispatch, nesting, critical sections, registration | a handler that lets others in; tables that change between two looks at ipending; a dispatch that does not look whether there is a handler | registering and removing handlers never leads to a call through NULL; masks nest and are restored |
| HAL: time (`alt_tick.c`, `alt_alarm_start.c`, `alt_llist.h`) | tick counter, list of alarms | tick, start, stop | a list that its callbacks change; a counter that wraps | alarms fire in their tick, the list is what runs, a tick ends |
| Nios II core, interconnect, memory, project files | | | | see section 7 |

Interactions: the program writes registers (bus writes, one at a time); the
registers are input ports of the masters; the masters' END and RX are read back
through registered ports; printf hands its characters to the JTAG UART driver,
whose interrupt routine shares two buffers with it; master and DSP share four wires (CS, SCLK, MOSI,
MISO), of which CS is also the trigger of the ADC; the reset button reaches the
masters at once and everything else through the reset controller.

## 2. Modules

| module | models | how it corresponds to the code |
|---|---|---|
| `SpiMasterLogic` | the combinational part of `vhd` | one operator per signal, under the signal's name; `NextReg` is `reg_process`. The generics are CONSTANTS |
| `SpiMaster` | a master, its input ports and the slave on its pins | `Clock` is a rising edge of `clk`; a bus write (`WriteStart`, `WriteTx`, `WriteDelay`) shares its edge; `Reset` is asynchronous. The slave (external) answers to SCLK edges before the next edge of `clk`; its processor loads it before the first edge. Its sampling edge is the constant `SLAVE_SAMPLE`; when MOSI changes on that very edge either value may be sampled |
| `SpiTransfer` | the abstract specification: two words change places | implemented by `SpiMaster` under the mapping at its end (`ImplementsTransfer`) |
| `SpiMasterFrame`, `SpiMasterInv`, `SpiMasterLogicProofs`, `SpiMasterProofs` | inductive invariants and proofs | `SpiMasterFrame` is about one master's registers, whichever module it is in; `SpiTopInv` uses it too |
| `MCSpiMaster` | values for TLC | |
| `ResetController` | the reset controller as `nios.vhd` configures it | `Clock` is a rising edge, `ResetAssert` sets the synchronizer at once, `ResetRelease` |
| `SpiTop`; `SpiTopInv`, `SpiTopProofs` | the FPGA with `hello_world.c` | composes any number of masters (functions over `Modules`, each updated by `NextReg`) with an INSTANCE of `ResetController`, the PIO registers and one action per bus access. `Compute` lets any number of clocks pass between two accesses. Every step of the program is also a clock edge of all the hardware (`Hardware`) |
| `JtagUart`; `JtagUartInv`, `JtagUartProofs` | the JTAG UART driver, its device and a host | one action per access to what thread and interrupt routine share: a write is `WriteRoom` (reads the indices), `WriteFill` (memcpy), `WritePublish` (moves `tx_in`), `WriteKick`, `WriteSpin`, `WriteCheck`; a read likewise; the interrupt routine is `IsrTop` (the control register), `IsrRx`, `IsrRxFull`, `IsrTx`, `IsrTxDone`. The thread runs only while no interrupt routine does (`At`); device and host run all the time. `EnableIrq` is one step, since the code disables interrupts around it |
| `CharStream` | the abstract specification: a queue of numbered characters | implemented twice by `JtagUart`, by what is written (`WritesArrive`) and by what is typed (`ReadsArrive`) |
| `MCJtagUart` | the programs TLC runs on the driver | |
| `DspNode`; `DspNodeInv`, `DspNodeProofs` | the interrupt path of `Main.c` in time | one action per statement that matters; a tick of time is shared by the ADC and by the FPGA's master (external: CS frames whole words, or a reset takes it away) |
| `DspDevice` | the functions of `SysCtrl` and `Gpio` | each function is the sequence of statements it executes, from the register values it branches on. A statement names the registers or pins it writes and the unit whose clock it needs; a wait, a call and a mode of sleep are statements too |
| `DspMain` | `main()` and its functions, `Adc`, `Spi`, `EPwm`, the set-up of the PIE | in the same form |
| `DspVectors` | the vector table of `PieVect` and the routines of `DefaultISR` | the routines group by group, the table as what `InitPieVectTable` copies, and the place of each channel |
| `DspSystem`; `DspSystemInv`, `DspSystemProofs` | the CPU that executes these statements, and the hardware around it (external) | `todo` is the rest of the program. EALLOW, clock gates, PLL locks, pin locks decide what a write does; `Lock`, `WatchdogReset`, `ExternalReset`, `Raise` and `Take` happen between any two statements, in every topic; an interrupt that ends a low-power mode is `Wake` followed by `Take`. After `main()` has reached its empty loop `UserCall` lets a program run in its place: the calls of its topic (listed below), in any order |
| `MCDspSystem` | parts, packages and channels for TLC | |
| `HalFiles`, `MCHalFiles`; `HalFilesProofs` | `alt_main()`, the descriptor table, the system calls, in both builds (with and without ALT_USE_DIRECT_DRIVERS) | one action per call, with all of its error paths; the drivers (external) may fail. The BSP is single-threaded, so that a call is one step |
| `Descriptors` | the abstract table of descriptors | implemented by `HalFiles` (`ImplementsDescriptors`) |
| `HalIrq` | the interrupts of the Nios II as the HAL manages them | one action per function; `stack` is the handlers under way with what they hold in local variables. `alt_ic_irq_enable()` enables a line whether or not it has a handler, as the code does; the history `bare` has the lines enabled so. A dispatch of such a line is a call through NULL (`Called`): what is at address 0 may come back (`NullReturns`) or not |
| `HalTime`; `HalTimeInv`, `HalTimeProofs` | ticks and alarms, on top of `HalIrq` | the list by its pointers; `Walk` is one turn of the loop of `alt_tick()`. This BSP has no timer (`system.h:239`), so the module describes the HAL in a BSP that has one |

Composition is by shared operators and an assumption on each side: `SpiMaster`
lets a slave's processor load its word only before the first edge of SCLK, and
`LoadsBeforeFrame` of `DspNode` shows that the DSP does so when the delay is
long enough; `DspNode` lets CS frame whole words, which `FrameWhole` of
`SpiMaster` shows of the master.  `HalTime` extends `HalIrq`: the walk of the
alarms is what the handler of line 0 does.  `DspSystem` extends the three modules
of statements; what it shows of the boot (`WritesLand`, `RightRoutine`) is what
`DspNode` takes for granted of the set-up of clocks, pins and vectors.

The program that `DspSystem` runs in place of the loop of `main()` has one topic per
behaviour, and calls:

| topic | calls | arguments |
|---|---|---|
| `pll` | `InitSysPll`, `SysIntOsc1Sel`, `SysIntOsc2Sel`, `SysXtalOscSel`, `IDLE`, `STANDBY`, `HALT`, `ServiceDog`, `DisableDog` | `Sources`, `Mults`, `Dividers`; the program also sets its own watchdog and masks (`UserSetting`) |
| `aux` | `InitAuxPll`, `AuxIntOsc2Sel`, `AuxXtalOscSel`, `AuxAuxClkSel` | the same; the PLL starts at the second attempt or at none; the program sets its own timer 2 |
| `power` | `InitFlash`, `FlashOff`, `SeizeFlashPump` of both banks, `ReleaseFlashPump`, `CsmUnlock`, `HIB`, `InitSpi`, `InitSpiGpio`, `InitPeripheralClocks`, `DisablePeripheralClocks` | |
| `adc` | `AdcSetMode`, `InitPeripheralClocks`, `DisablePeripheralClocks` | ADC A, both resolutions, both signal modes |
| `pins` | `InitGpio`, `InitEPwmGpio`, `InitEPwm9Gpio`, `GPIO_WritePin`, `GPIO_SetupPinMux`, `GPIO_SetupPinOptions`, `GPIO_SetupLock` | one pin, some numbers of peripherals (0, in another group, the last; a wrong core), two sets of options |
| `interrupts` | `InitPieCtrl`, `EnableInterrupts`, `InitSysPll`, `GPIO_SetupXINT1Gpio` to `5`, enabling a channel | multiplier 20, `Dividers` |

Only `main()` calls `InitSysCtrl` (with `GPIO_EnableUnbondedIOPullups`), `InitPieVectTable`, `spi_init`,
`adc_config` and `SetupADCSoftwareSync`; the converters B to D are not switched, and no behaviour mixes
topics.  `DisablePeripheralClocks()` is a call like any other.  What a program writes to a
peripheral while it has the clocks gated has no effect, which is what it asked for: `gated`
remembers that it did, and `WritesLand` does not count these writes (it does count a write to
a peripheral whose clock is off for any other reason, as between the gating of the ADCs in
`InitSysCtrl` and `InitPeripheralClocks()`).  `TrimsMatchMode` counts them: an `AdcSetMode` whose writes are
lost changes neither mode nor trims.  Timer 2 is taken to need no gated clock.

A definition whose comment says `mutant` is a plausible bug: a second form of the
definition after it.  No specification uses one; each is there to see that a
property fails when the code is broken that way (the list is in
`PROJECT.json`).

## 3. Runs

`tlc -config <run>.cfg <module>`; the module is in brackets where its name is not
the run's.

| run | question | result |
|---|---|---|
| `SpiMaster_std` (`MCSpiMaster`) | the generics of `top`, a mode 0 slave | both words whole, timing of SCLK; the clocked master implements `SpiTransfer`, with resets in mid-frame |
| `SpiMaster_anydelay` (`MCSpiMaster`) | DELAY rewritten at any cycle | frames whole, SCLK at rest at cpol, transfers end |
| `ResetController` | the promises of the reset controller, for a bouncing button | they hold |
| `SpiTop_hello` (`SpiTop`) | the program on the FPGA, with presses of the button | lockstep, END means done, the words are fresh, the loop ends |
| `DspNode` | the DSP from its first statement | timely frames are fresh; no jam, no halt |
| `JtagUart` (`MCJtagUart`) | the driver under interrupts, a slow and an absent host, full buffers, timeouts | both directions are queues; copies fit; no wake-up is lost; blocking calls return |
| `JtagUart_late` (`MCJtagUart`) | is the buffer full when reception is turned off (`altera_avalon_jtag_uart_init.c:158`)? | not if a character arrives in the clock of a read of the empty FIFO |
| `HalFiles` (`MCHalFiles`) | start-up, descriptors, locks, errors, a full table | the table implements `Descriptors`; no entry leaks; the streams stay the UART; nobody gets past a lock |
| `HalFiles_lock` (`MCHalFiles`) | is a lock only granted to the sole descriptor of a device (`alt_fd_lock.c:42`)? | no: the highest descriptor is not looked at |
| `HalTime` | interrupts, lines with and without handlers, nesting, critical sections, alarms, a wrapping counter | a call through NULL only for a line enabled without a handler, masks hold, alarms are punctual, the list is right, ticks end |
| `DspSystem` (`MCDspSystem`) | `main()` and the device support, with resets, a failing PLL and interrupts | writes land, the PLL feeds only when locked, what is borrowed is returned, failures are on record, routines and trims fit, the boot ends |
| `DspSystem_untrimmed` (`MCDspSystem`) | does an untrimmed device get its static trims (`F2837xS_SysCtrl.c:112`)? | not on parts with unbonded pins |

Not every property of the modules is in a run.  `TypeOK` (all modules) and
`OthersQuiet` are proved; `MosiStable`, `Released`, `CountersBounded`,
`LoadsBeforeFrame`, `StaysReady`, `IsrEnds` and the parts of `ResetSequence`,
`WordsOfThisStart` and `CallsReturn` can be added to the cfg of their module.

### Bounds, and why they are enough

* Words of two or three bits instead of 16: the code treats all bits but the
  first and the last alike, and the test words differ in every position and from
  their shifts.  `SpiTop` uses words of equal bits, since the order of bits is
  settled in `SpiMaster`.  The proofs are for every length.
* CLK_DIV 2 and 3 (3 in `top`).  Delays of CLK_DIV and more for cpha 0, which is
  the condition of the proofs; where DELAY may change at any time, 0 and a value
  above CLK_DIV.  That cpha = 1 works with every delay is proved, not run.
* `SpiTop`: three masters, two in the mask; the generics of the reset controller
  are those of `nios.vhd:750-776`.  `MaxResets` = 2 presses, of any length and at
  any edge, so that one can interrupt the recovery from the other.
* `ResetController` has no bound on presses; its history counters stop above the
  largest promise.
* `DspNode`: conversion 3 ticks, a statement of the routine at most `SLOW` = 2,
  delays from far too short (2) over just too short to sufficient (12), with
  `Needed` = CONV + 2 + 3 SLOW the exact boundary: with one tick less
  `LoadsBeforeFrame` fails.  Samples are counted modulo 3, enough to tell the
  current from the two before.  The boot has no time bound.
* `JtagUart`: buffers of three places (two usable) and FIFOs of two, so that a
  buffer does not fit the FIFO and a write of three neither the buffer; the
  thresholds are at one end of the FIFOs.  INT_MAX is 4 and the timeouts 2 and
  INT_MAX - 1, the least for which the comparisons differ.  The host goes and
  comes back once.  Five programs (`MCSetups`) take turns, each with one kind of
  traffic: reads and writes share nothing but the interrupt routine and the
  enable bits, which the first program (writes while the user types) and the
  proofs, which are for every program, cover together.  Characters are numbered
  modulo K, more than can be under way.
* `HalFiles`: a table of five entries (the streams and two more, the least for
  which the fresh entry of `alt_open_fd()` and a full table both happen), two
  file systems of which one lies below the other, a name of each, one of no
  device and one that only looks like a prefix.  One constructor.
* `HalTime`: two lines, so that one handler can interrupt another (the proof is
  for any number and depth); two alarms, so that the walk meets both a
  predecessor and a successor of what a callback changes; a counter of four
  values and periods 0 to 2, all below W - 1 as the code needs; critical
  sections two deep.  `StopsAny` is FALSE (section 5).
* `DspSystem`: main() runs on every combination of the three packages, trimmed
  or not, with ADC trims in OTP or not, in flash or RAM; the calls of section 2 run on one of them (`Explored`), by
  topic: what the functions of different topics write they share only through `EALLOW`, the clock
  gates and INTM, which every topic has.  Two multipliers and two dividers, with the special case of
  InitSysPll (63), and two clock sources: the third differs in the number written only, and the
  functions that select it are called by themselves.
  Three pins (one of them beyond the first port, one beyond the fifth), of which one is set up by the pin functions.
  The ADC's interrupt (`<<1, 1>>`, remapped to `adca1_isr`) is raised at any statement of every
  topic; in the topic `interrupts` there is one more channel, the last of the table, in its
  upper half, whose default routine never returns.  The run has 262,294 distinct states
  (`HalTime` has 729,120).

### Fairness

* `SpiMaster`, `ResetController`: weak fairness of the clock edge: an oscillator
  does not stop.  Nothing is assumed of software, the button or the slave.
* `SpiTop`: the same, and weak fairness of the program: the processor executes
  its next bus access after finitely many clocks.  `Prints` is conditional on the
  button being released for good.
* `DspNode`: weak fairness of the processor's next statement and of time.
* `JtagUart`: weak fairness of the thread, of the interrupt routine and of the
  alarm, and of a host that is there: its side of the FIFO is read, and its JTAG
  poll pauses.  A host that left does nothing, and need not come back.
* `HalTime`: weak fairness of the processor inside handlers, of handlers'
  serving their devices, and of the end of critical sections.  Nothing of the
  program or of devices.
* `DspSystem`: weak fairness of the CPU, of the PLL's lock counter and of the
  watchdog; strong fairness of a PLL that is started again and again (it delivers
  a clock in the end: with a PLL that never starts the boot is not meant to end), and
  of the program between interrupt routines (the ADC interrupts once a frame).
* `HalFiles` has no liveness property, and no fairness.

No run disables the deadlock check: a clocked system never stops, `_exit()` spins,
and the DSP can always be reset.

## 4. Proofs

`tlapm` checks every theorem; they hold for all values of the constants that meet
the named assumptions.  The invariants that the proofs need stand in the module `...Inv` of their component,
where TLC can look for a violation of them on the instance of a run before they
are proved (`IrqInv` of the interrupts, `Wakeups` and `TableInv` stand beside their proofs).

**SpiMaster.**  `TypeOK` is inductive.  The properties of the frame are not: they
need `Frame` (in `SpiMasterFrame`), which says that the parity of the master's
edge count is the level of SCLK, and, the crucial conjunct,
that after the last edge the divider is past its pulse while the state machine
has not yet left `communication_state`; `FrameInv` adds that the slave has counted
the same edges.  The conjunct needs CLK_DIV > 1 and
nothing about DELAY, so `SclkRestsAlways` and `FrameWholeAlways` hold for
software that rewrites DELAY at will (`SpecAny`).  `TimingInv` relates the two
dividers (`Ahead` is the half period between them), and needs DELAY to be at
least CLK_DIV when cpha = 0 and not to change in transfers (`DelaysWide`,
`Spec`); `SclkTimingAlways` follows with `GapInv`.  `DataInv` says which bits have
arrived and which are still to leave; with the three together
`WordReceivedAlways` gives the word for every length.  Its three hypotheses are needed:
without `PhasesFit` TLC finds a wrong word in the first transfer, and it finds violations
within one transfer (of `MosiStable` or of the refinement first) when
`SpiMaster_std` is given CLK_DIV = 1 or a delay of 2.
In the other direction `DeliverInv` says that what is left in the master's shift
register is the end of the word TX held when the frame began, and that the slave has
its beginning; `WordDeliveredAlways` follows for the phases of this board.
`ImplementsTransferAlways` puts both together: every clock is a step of
`SpiTransfer` or a stutter, a reset in mid-frame abandons the transfer, and nothing but
the end of a frame changes RX.

**SpiTop.**  `MaskInv`: START holds the mask or nothing, so its modules see equal
start bits; the lemma `ControlNext` says that what steers a transfer depends on
itself, START and DELAY, never on data.  From it `LockstepAlways` and
`OthersQuietAlways`.  `WordsOfThisStartAlways` needs more:
`PlaceInv` says what the program's place tells of the output registers and that every
master has been idle for long enough when START is written, under the DELAY that
was written; `RoundInv`, that since then each master has taken the bits of its slave's word,
and that what the registered inputs show, which is a cycle old, is of masters that wait in
`end_state`; `ResetInv` bridges the cycles in which the button has reset the masters but
not yet the program.  Hypotheses: CLK_DIV > 1 and `DelayFits`, that the delay is
at least CLK_DIV when cpha = 0; the code has 3 and 60.

**The reset controller.**  `SequenceInv` (in `SpiTopInv`) counts: the stretcher is
a number of ones, which empties from its far end (`Ones`); a pulse that leaves the synchronizer is at
least three cycles wide wherever it is on the way (`PulseWide`), so a bounce cannot make it
narrower; and what the history counters have counted is tied to what is left in the
stretcher (`CyclesCounted`).  `ResetSequenceAlways` holds for every length of the chains under `NiosGenerics`: the wait for `reset_req` is one
cycle and it is withdrawn early, as `nios.vhd:750-776` sets them.  `ResetSequenceInTop` is
the same inside `SpiTop`, where the button obeys that module's actions.

**DspNode.**  `IrqInv` ties the enable bits and the vector to the program counter,
and says that a raised ADCINT1 is latched in the PIE or about to be cleared.
From it `NeverHaltsAlways` and `NoJamAlways`.  `FreshInv` follows a frame that found the
DSP idle and whose delay is long enough through the stages of a pipeline (risen,
triggering, converting, flagged, taken, fetched, stored), each with a bound on the time since the rise of
CS, of which the last is still before the first edge; after the store, the bits sent
and those left are of one sample.  `FreshWordAlways` does not use
`ServiceAssumption`: a frame that comes while another is served is simply not timely.

**JtagUart.**  The index arithmetic is in the lemmas `RoomFits`, `AvailFits`,
`Shrinks` and `Grows`.  `Placed` says of a copy under way that it fits before the
end and into what is free (or is there) now; it survives the interrupt routine
because that only takes from one buffer and only adds to the other.  Types need
it, and `CopiesFitAlways` follows.  `Wakeups` carries the interrupt bits: the
control register follows `irq_enable`, a writer waits only for a full buffer, and
each side of a disabled interrupt has its excuse.  From it `TxArmedAlways` and
`RxArmedAlways`.  They hold for `Spec`, in which a read of the data register is
one step; under `SpecClocked`, where a character may arrive in the clock of that
read, `RxArmed` fails (section 5).
`WritesArriveAlways` and `ReadsArriveAlways` are refinements: the ring read from its
tail to its head and the FIFO, one after the other, are the queue of `CharStream`.
`StreamInv` says that what is copied but not yet published continues the numbers,
that a read still finds in the buffer what it copied (the interrupt routine adds elsewhere),
that the space by which the routine fills the FIFO is there although it was read earlier, and that the newest
character under way is the last that was numbered.  Characters are numbered modulo K with
K > BUF_LEN + FIFO, so that two under way never have the same number.

**HalTime.**  `IrqInv` describes the stack of handlers: each one but the
innermost has let others in, each remembers the mask under which it started,
which is what the one below it allows (`MaskAt`), and is itself within that mask;
the control register is the enabled lines within the present mask
(`MaskNow`); and of the open critical sections only the outermost found
interrupts on.  The lemmas `PushFrame`, `PutFrame` and `PopFrame` carry this through
the three ways in which the stack changes, and `ConfigureStep` shows that writing
all enabled lines to the control register is right where no mask is in force.
From it `HandlersExistAlways` and `MasksHoldAlways`, for any number of lines.  The first needs
that every enabled line has a handler or is in `bare`, and that a frame which calls through NULL
is of a line in `bare` (`Accounted`); that `bare` is not more than the lines that the program enabled without a
handler is its definition.  Such a call is possible and the property does not deny it (section 5).
The list: `Ring` says that its pointers are inverse to each other and that there is
one ring only, in a form that insertion and removal visibly keep: every
set that contains the head and that `next` does not leave contains the whole list.  That following
`next` from the head reaches it all is then an argument on finite sets (`Nth`, and a
least number of steps at which the walk repeats).  The tick: `WalkInv` says that what
the walk has still to visit is a segment of the ring; alarms behind it are set for a later tick
(`Done`), those ahead are counted for this one (`Counted`), with the flag for the wrap up exactly when
the counter has to wrap first.  `PunctualAlways` has the hypothesis ~StopsAny: a callback that stops the next alarm
derails the walk (section 5).  `ListIsLiveAlways` holds with and without it.

**HalFiles.**  `TableInv`: every descriptor in use is a stream or held by the
program, an entry not in use keeps nothing of its last owner, `alt_max_fd` is
above every descriptor held, only devices are locked, and what each phase of the start has done to the streams.
`NoLeakAlways` and `StreamsAlways` are among its conjuncts or follow; `LockKeepsOthersOutAlways` needs
that a lock is looked for over all of the table up to `alt_max_fd`.
`ImplementsDescriptorsAlways` maps every call, with its error paths, to a step of
`Descriptors` or to a stutter.

**DspSystem.**  The state is the rest of the program as a list of statements, so the
invariant is a proof outline of it: a set of `Facts` (EALLOW is set, the
clocks are on or the program has gated them, it has not gated them, INTM is set, the PLL is off, locked or at a slower divider, the vector table is copied, the
trims match, a borrowed register is as it was at the call) is known before each
statement.  `Admits` says which facts a statement needs for the properties to survive it, `After` which
remain, and `Runs(l, a, c, x)` that the list l has an outline that leads from the
facts a to at least c.  `SystemInv` says that what is left to execute
runs from facts that hold now to what its function promises; in an
interrupt routine, that the list it returns to does.  The interleaving is in the definition of
`Safe`: at every point of an outline an interrupt cannot be taken, or the facts
that a routine needs (`ForRoutine`) are known; and no routine spoils a
fact.  The proof has three layers: outlines compose (lists, branches and loops over
lists); one lemma for each function of the library, whose name ends in `Runs`, up to `MainRuns`,
from the reset values to `Always`, and `CallRuns` for every call of section 2 with every
argument; and one lemma per action of `DspSystem`, ending in `Keeps`.  From the invariant come
`WritesLandAlways`, `PllFeedsAlways`, `BorrowedReturnedAlways`, `PllFailureKnownAlways`,
`RightRoutineAlways` and `TrimsMatchModeAlways`, for any devices, arguments and raised
channels, any order of the calls of a topic, and resets, failures of the PLL and interrupts at every statement.
That writes to peripherals land has one condition besides an outline: the fact "powered" holds in
every outline, by itself or because the program has gated the clocks, and `GatedInv` says
that then they are off, so that what is lost is not counted and the trims are not
changed by half (the facts about them say what a call would have done).
`NoGlitchAlways` has an invariant of its own, `PinInv`, about pins: a pin rests when it is a GPIO or
locked, and before every statement left that changes its group it still rests, or an earlier one
takes it to GPIO (which a lock may prevent, but then it keeps its group too), with nothing in
between that ends its rest (`GroupsSheltered`).  Lists that do not write `gmux` need nothing
(`Untouched`); `GPIO_SetupPinMux` and `InitGpio` need no pin at rest when they begin; `spi_init`, which
never writes 0 to a multiplexer, needs its four (`SpibSheltered`), and has them because every pin
rests after a reset and `main()` leaves these alone until then.  That protected writes to pins take
effect comes from `SystemInv`.

Assumptions on the constants: `NIrqAssumption`, `MasterAssumption`, `EnvironmentAssumption`,
`TopAssumption`, `UartAssumption`, `ResetAssumption` and `ResetParameters` (the taps of the reset controller lie on their
chains), `DspAssumption`, `ServiceAssumption` (a conversion with its routine is
shorter than a frame, and than the restart of the Nios II), `WAssumption` and
`PeriodsAssumption` (a period is below the counter's range), `AlarmsAssumption` (finitely many
alarms, none of them the list's head), `MaxFdAssumption`, `ConstructorsAssumption`,
`FileSystemsAssumption` (a file system has a name, and not that of a device), `DevicesAssumption`
and `RaisedAssumption` (types).  TLC evaluates them
in every run.

Model-checked only: liveness (`Completes`, `EveryPulseResets`, `LeavesReset`,
`Prints`, `Rearmed`, `CallsReturn`, `TickEnds`, `BootEnds`), which this prover cannot
do.  The properties of the violation runs are false.

## 5. Findings

The three `violation` runs, with the lines they contradict, are in
`PROJECT.json`:

* A character that arrives in the clock in which the interrupt routine reads the
  empty FIFO makes it turn reception off with room in the buffer, after which a
  blocking read of an empty buffer waits forever (`hello_world.c` only writes).
* `alt_fd_lock()` looks at one entry of the descriptor table less than
  `alt_file_locked()` does, and grants a lock beside another descriptor.
* `InitSysCtrl()` calls `GPIO_EnableUnbondedIOPullups()`, which ends with EDIS, and
  then writes protected registers: on parts with 100 or 176 pins the static trims
  of an untrimmed device are lost.

Other places where the code and its texts part, met while modelling and not run:

* `hello_world.c:20` says that the delay is DELAY periods; it is DELAY + 1
  (`SclkTiming` states the true value).
* `vhd:25` says that START acts on its rise; idle tests its level, so a press of
  the button shorter than the reset pipeline, which resets the masters but not yet
  START, makes them start again.
* With cpha = 1 the master takes MISO on the edge on which a slave of the
  standard's modes 1 and 3 changes it (`vhd:4`); `top` has cpha 0.  With CLK_DIV = 1,
  and with cpha = 0 and a delay below CLK_DIV, it does not work either; these are
  hypotheses of the theorems.
* A blocking write of the JTAG UART returns -EIO, "Host not connected", after one
  second without activity, whatever the timeout; it needs a timer, which this system
  does not have.
* A callback that stops the alarm that comes next in the list makes `alt_tick()`
  loop forever (set `StopsAny` to TRUE); starting an alarm that runs corrupts the
  list; `alt_alarm_start()` with 2^32 - 1 ticks fires at the next one.
  `alt_irq_enable()` in a handler that has let others in drops its mask.
* `alt_ic_irq_enable()` and `alt_irq_enable()` (`alt_iic.c:72-75`, `alt_legacy_irq.h:86-99`) enable a line
  that has no handler, and `alt_irq_handler()` does not look: an interrupt on it is a call
  through NULL.  Nothing is mapped at address 0 of this system (`system.h`).  No text of the HAL promises
  otherwise, so no run says so: `HandlersExist` states how such a call comes about.
* `DisablePeripheralClocks()` takes the clocks of the peripherals, after which `InitSpi`, `AdcSetMode` and the
  interrupt routine's store to SPIDAT have no effect, and neither they nor their callers can tell.
* `stat()` of a name that does not exist leaves EBADFD in errno, not ENODEV: it goes
  on with the descriptor -1.  `close()` releases the descriptor when the driver's
  close fails.
* After `HALT()` a call of `InitSysPll` with the arguments in force returns at
  once, with the PLL off (`F2837xS_SysCtrl.c:606-614`); `InitAuxPll` writes 8 whatever its multiplier is
  (`:889`).  `CsmUnlock` returns 0 where its header promises 1.

## 6. Plan

Done: the modules above.  Next, in this order:

1. `SpiLink`: one FPGA master and the DSP in one clock, so that the two
   assumptions of section 2 are discharged together.
2. Proofs: the safety parts of the conditional liveness properties.
3. The heap and the time of day of the HAL.

## 7. Not modelled, and why

* Nios II core, interconnect, on-chip memory: generated, and used only through bus accesses in program order, which is what `SpiTop`
  assumes.
* Of the HAL: the heap (`alt_sbrk`), the time of day, busy waits, section loading,
  cache and DMA helpers, exceptions of instructions, logging and the small printf,
  and the process calls that only set errno: no program of the repository calls
  them.  Threads, since the BSP is single-threaded.
* Of the device support: `GPIO_ReadPin`, the data registers of pins, and
  `F2837xS_GlobalVariableDefs.c`, which only places variables.  Delays by `RPT #n || NOP` are
  left out: the model lets any time pass between two statements.
* Calls of the device support outside the topics of section 2, and programs that mix topics.  In `AdcSetMode` the
  OTP memory has the offset trims and the linearity trims or neither (`otp`).
* Hardware behind the registers (ADC, PLL, flash, PIE) is modelled by what the code
  relies on, not by the chips' manuals.
* The small variant of the JTAG UART driver and its variant for MicroC/OS-II: not compiled.
* Baud rate, ADC acquisition window: no state a property depends on.
* Metastability: a flip-flop that samples a changing input takes the old or the
  new value, no third.
* An overflow of the 32-bit counters of the master cannot happen within a transfer
  (`CountersBounded`).
