---------------------------- MODULE SpiTopProofs ----------------------------
(***************************************************************************)
(* Theorems about SpiTop, for any number of masters, any mask and any      *)
(* values of the generics.                                                 *)
(***************************************************************************)
EXTENDS SpiTopInv, SpiMasterLogicProofs

-----------------------------------------------------------------------------
(* The reset controller.                                                   *)

\* The chains keep their lengths, and their taps are on them.
LEMMA ResetClockType ==
    ASSUME RC!TypeOK, RC!Clock
    PROVE  RC!TypeOK'
<1> USE ResetParameters DEF RC!TapsFit, RC!TypeOK, RC!Clock
<1>1. RC!RSTREQ_ASRT_SYNC_TAP \in Nat /\ RC!RSTREQ_ASRT_SYNC_TAP >= 3
  BY DEF RC!RSTREQ_ASRT_SYNC_TAP, RC!MIN_METASTABLE
<1>2. RC!ASSERTION_CHAIN_LENGTH \in Int /\ RC!RESET_REQ_DRST_TAP \in Nat
  BY DEF RC!ASSERTION_CHAIN_LENGTH, RC!RESET_REQ_DRST_TAP, RC!LARGER, RC!Larger,
         RC!MIN_METASTABLE
<1>3. sync_chain' \in [0..(SYNC_DEPTH - 1) -> {0, 1}] /\ sync_out' \in {0, 1}
  BY DEF RC!SyncNext, RC!SyncOnes
<1>4. int_chain' \in [0..RC!RSTREQ_ASRT_SYNC_TAP -> {0, 1}]
  BY <1>1
<1>5. rst_chain' \in [0..(RC!ASSERTION_CHAIN_LENGTH - 1) -> {0, 1}]
  BY <1>2 DEF RC!RstNext, RC!RstOnes
<1>6. reset_out' \in {0, 1}
  BY DEF RC!ResetOutNext
<1>7. reset_req' \in {0, 1}
  <2>1. RC!RESET_REQ_DRST_TAP \in 0..(RC!ASSERTION_CHAIN_LENGTH - 1)
    BY <1>2
  <2>2. QED
    BY <2>1 DEF RC!ResetReqNext
<1>8. reset_n' \in {0, 1}
  OBVIOUS
<1>9. QED
  BY <1>3, <1>4, <1>5, <1>6, <1>7, <1>8

LEMMA ResetButtonType ==
    ASSUME RC!TypeOK, RC!ResetAssert \/ RC!ResetRelease
    PROVE  RC!TypeOK'
BY DEF RC!TypeOK, RC!ResetAssert, RC!ResetRelease, RC!chains, RC!SyncOnes

LEMMA ResetInitType == RC!Init => RC!TypeOK
<1>1. RC!RSTREQ_ASRT_SYNC_TAP \in Nat
  BY ResetParameters DEF RC!TapsFit, RC!RSTREQ_ASRT_SYNC_TAP, RC!MIN_METASTABLE
<1>2. QED
  BY <1>1 DEF RC!Init, RC!TypeOK, RC!RstOnes

-----------------------------------------------------------------------------
(* Types.                                                                  *)

\* A clock edge of the hardware, whatever the program does.
LEMMA HardwareType ==
    ASSUME TypeOK, Hardware
    PROVE  /\ masters' \in [Modules -> Registers]
           /\ end_rd' \in {0, 1}
           /\ rx_rd' \in [Modules -> Word]
           /\ miso' \in [Modules -> Bit]
           /\ resets' \in 0..MaxResets
           /\ RC!TypeOK'
<1> USE DEF TypeOK
<1>1. ASSUME NEW i \in Modules
      PROVE  NextReg(masters[i], StartBit(i), spi_tx[i], delay_spi, miso[i]) \in Registers
  BY NextRegType, ZerosType
<1>2. masters' \in [Modules -> Registers]
  BY <1>1 DEF Hardware, MastersClock
<1>3. miso' \in [Modules -> Bit]
  BY DEF Hardware, SlavesChoose
<1>4. ASSUME NEW i \in Modules PROVE data_rx_out(masters[i]) \in Word
  BY DEF data_rx_out, rx_data_next, Registers
<1>5. end_rd' \in {0, 1} /\ rx_rd' \in [Modules -> Word]
  BY <1>4, ZerosType DEF Hardware, ReadPorts, end_signal_spi_dsp
<1>6. RC!TypeOK'
  BY ResetClockType DEF Hardware
<1>7. QED
  BY <1>2, <1>3, <1>5, <1>6 DEF Hardware

LEMMA TxValueType == TX_VALUE \in Word
BY MasterAssumption DEF TX_VALUE, Word, Bit

LEMMA InitType == Init => TypeOK
BY ZerosType, ResetRegType, ResetInitType, TopAssumption
   DEF Init, TypeOK, Locations, Bit

LEMMA ProgramType ==
    ASSUME TypeOK, Program
    PROVE  TypeOK'
<1> USE HardwareType, TopAssumption DEF TypeOK, Running, Locations
<1>1. CASE BootDone
  BY <1>1 DEF BootDone
<1>2. CASE WriteDelay
  <2>1. DELAY_VALUE % 256 \in 0..255
    OBVIOUS
  <2>2. QED
    BY <1>2, <2>1 DEF WriteDelay
<1>6. CASE WriteTx
  BY <1>6, TxValueType DEF WriteTx
<1>3. CASE WriteStart
  BY <1>3 DEF WriteStart
<1>4. CASE PollEnd
  BY <1>4 DEF PollEnd
<1>5. CASE ReadRx
  BY <1>5 DEF ReadRx
<1>7. QED
  BY <1>1, <1>2, <1>3, <1>4, <1>5, <1>6 DEF Program

LEMMA NextType == TypeOK /\ [Next]_vars => TypeOK'
<1> SUFFICES ASSUME TypeOK, [Next]_vars PROVE TypeOK'
  OBVIOUS
<1> USE DEF TypeOK
<1>1. CASE NiosReset
  BY <1>1, HardwareType, ZerosType DEF NiosReset, Locations
<1>2. CASE Program
  BY <1>2, ProgramType
<1>3. CASE Compute
  BY <1>3, HardwareType DEF Compute, Running, prog
<1>4. CASE PressReset
  BY <1>4, ResetButtonType, ResetRegType, TopAssumption DEF PressReset, pio, prog
<1>5. CASE ReleaseReset
  BY <1>5, ResetButtonType DEF ReleaseReset, pio, prog
<1>6. CASE UNCHANGED vars
  BY <1>6 DEF vars, pio, prog, RC!TypeOK, RC!vars, RC!chains
<1>7. QED
  BY <1>1, <1>2, <1>3, <1>4, <1>5, <1>6 DEF Next, Tick

\* The registers of the masters, the PIOs, the program and the reset
\* controller stay in their ranges.
THEOREM TypeCorrect == Spec => []TypeOK
BY InitType, NextType, PTL DEF Spec

-----------------------------------------------------------------------------
(* The masters of one mask.                                                *)

\* What steers a transfer depends on itself, on the start bit and on DELAY,
\* never on the data.
LEMMA ControlNext ==
    ASSUME NEW r \in Registers, NEW q \in Registers, Control(r) = Control(q),
           NEW s, NEW w, NEW v, NEW D, NEW b, NEW c
    PROVE  Control(NextReg(r, s, w, D, b)) = Control(NextReg(q, s, v, D, c))
<1>1. /\ r.state = q.state /\ r.delay_counter = q.delay_counter
      /\ r.div_counter = q.div_counter /\ r.div_counter_2 = q.div_counter_2
      /\ r.bits_counter = q.bits_counter /\ r.spi_cs = q.spi_cs
      /\ r.spi_clk = q.spi_clk
  BY DEF Control
<1>2. state_next(r, s) = state_next(q, s)
  BY <1>1 DEF state_next, frame_sent
<1>3. delay_counter_next(r) = delay_counter_next(q) /\ spi_cs_next(r) = spi_cs_next(q)
  BY <1>1 DEF delay_counter_next, start_delay, spi_cs_next
<1>4. /\ div_counter_next(r, D) = div_counter_next(q, D)
      /\ div_counter_2_next(r, D) = div_counter_2_next(q, D)
  BY <1>1 DEF div_counter_next, div_counter_2_next, delay_counter_end,
              delay_counter_shift_end
<1>5. /\ bits_counter_next(r, D) = bits_counter_next(q, D)
      /\ spi_clk_next(r, D) = spi_clk_next(q, D)
  BY <1>1 DEF bits_counter_next, spi_clk_next, start_delay, start_sclk,
              delay_counter_shift_end, div_clk_pulse, delay_counter_end
<1>6. QED
  BY <1>2, <1>3, <1>4, <1>5 DEF Control, NextReg

\* A clock edge keeps the masters of the mask together and the others idle.
LEMMA MaskClock ==
    ASSUME TypeOK, MaskInv, MastersClock
    PROVE  /\ Lockstep'
           /\ \A i \in Modules \ START_MASK :
                 masters'[i].state = "idle" /\ masters'[i].spi_cs = 0
<1>1. CASE reset_n = 0
  <2>1. \A i \in Modules : masters'[i] = masters[i]
    BY <1>1 DEF MastersClock
  <2>2. QED
    BY <2>1, TopAssumption DEF MaskInv, Lockstep, Control
<1>2. CASE reset_n # 0
  <2> DEFINE next(i) == NextReg(masters[i], StartBit(i), spi_tx[i], delay_spi, miso[i])
  <2>1. \A i \in Modules : masters'[i] = next(i)
    BY <1>2 DEF MastersClock
  <2>2. \A i, j \in START_MASK : StartBit(i) = StartBit(j)
    BY DEF MaskInv, StartBit
  <2>3. ASSUME NEW i \in START_MASK, NEW j \in START_MASK
        PROVE  Control(masters'[i]) = Control(masters'[j])
    <3>1. i \in Modules /\ j \in Modules
      BY TopAssumption
    <3>2. masters[i] \in Registers /\ masters[j] \in Registers
      BY <3>1 DEF TypeOK
    <3>3. Control(masters[i]) = Control(masters[j])
      BY DEF MaskInv, Lockstep
    <3>4. Control(next(i)) = Control(next(j))
      BY <2>2, <3>2, <3>3, ControlNext
    <3>5. QED
      BY <2>1, <3>1, <3>4
  <2>4. ASSUME NEW i \in Modules \ START_MASK
        PROVE  masters'[i].state = "idle" /\ masters'[i].spi_cs = 0
    <3>1. StartBit(i) = 0 /\ masters[i].state = "idle"
      BY DEF MaskInv, StartBit
    <3>2. state_next(masters[i], 0) = "idle" /\ spi_cs_next(masters[i]) = 0
      BY <3>1 DEF state_next, spi_cs_next
    <3>3. masters'[i] = next(i)
      BY <2>1
    <3>4. next(i).state = state_next(masters[i], StartBit(i))
          /\ next(i).spi_cs = spi_cs_next(masters[i])
      BY DEF NextReg
    <3>5. QED
      BY <3>1, <3>2, <3>3, <3>4
  <2>5. QED
    BY <2>3, <2>4 DEF Lockstep
<1>3. QED
  BY <1>1, <1>2

LEMMA MaskInit == Init => MaskInv
BY TopAssumption DEF Init, MaskInv, Lockstep, ResetReg

LEMMA MaskNext == TypeOK /\ MaskInv /\ [Next]_vars => MaskInv'
<1> SUFFICES ASSUME TypeOK, MaskInv, [Next]_vars PROVE MaskInv'
  OBVIOUS
<1>1. CASE Hardware /\ start_spi' \in {start_spi, {}, START_MASK}
  <2>1. MastersClock
    BY <1>1 DEF Hardware
  <2>2. QED
    BY <1>1, <2>1, MaskClock DEF MaskInv
<1>2. CASE Tick
  BY <1>1, <1>2 DEF Tick, NiosReset, Program, Compute, BootDone, WriteDelay,
                    WriteTx, WriteStart, PollEnd, ReadRx, Running
<1>3. CASE PressReset
  <2>1. /\ \A i \in Modules : masters'[i] = ResetReg
        /\ start_spi' = start_spi
    BY <1>3 DEF PressReset, pio
  <2>2. QED
    BY <2>1, TopAssumption DEF MaskInv, Lockstep, ResetReg
<1>4. CASE UNCHANGED <<masters, start_spi>>
  BY <1>4 DEF MaskInv, Lockstep
<1>5. CASE ReleaseReset \/ UNCHANGED vars
  BY <1>4, <1>5 DEF ReleaseReset, vars, pio
<1>6. QED
  BY <1>2, <1>3, <1>5 DEF Next

THEOREM MaskInvariant == Spec => []MaskInv
<1>1. Init => TypeOK /\ MaskInv
  BY InitType, MaskInit
<1>2. TypeOK /\ MaskInv /\ [Next]_vars => (TypeOK /\ MaskInv)'
  BY NextType, MaskNext
<1>3. QED
  BY <1>1, <1>2, PTL DEF Spec

\* The masters started by one write of START run in lockstep, whatever their
\* slaves answer and whenever the button is pressed.
THEOREM LockstepAlways == Spec => []Lockstep
<1>1. MaskInv => Lockstep
  BY DEF MaskInv
<1>2. QED
  BY <1>1, MaskInvariant, PTL

\* A master outside the mask never selects its slave.
THEOREM OthersQuietAlways == Spec => []OthersQuiet
<1>1. MaskInv => OthersQuiet
  BY DEF MaskInv, OthersQuiet
<1>2. QED
  BY <1>1, MaskInvariant, PTL

-----------------------------------------------------------------------------
(* The reset, on its way from the button to the processor.                 *)

\* While the button is down, and until the delay line has run dry, a reset of
\* the program is to come; the line runs dry in the very step that resets it.
LEMMA ResetArrives ==
    ASSUME RC!TypeOK, ResetComing, RC!Clock, ~ResetComing'
    PROVE  reset_out' = 1
<1> DEFINE TAP == RC!RSTREQ_ASRT_SYNC_TAP
<1>1. TAP \in Nat
  BY ResetParameters DEF RC!TapsFit, RC!RSTREQ_ASRT_SYNC_TAP, RC!MIN_METASTABLE
<1>2. DOMAIN int_chain = 0..TAP /\ DOMAIN int_chain' = 0..TAP
  BY DEF RC!TypeOK, RC!Clock
<1>3. \A k \in 0..TAP : int_chain'[k] = IF k = 0 THEN sync_out ELSE int_chain[k - 1]
  BY DEF RC!Clock
<1>4. reset_n # 0 /\ (\A k \in 0..TAP : int_chain'[k] # 1)
  BY <1>2 DEF ResetComing, RC!Clock
<1>5. sync_out # 1
  BY <1>1, <1>3, <1>4
<1>6. PICK k \in 0..TAP : int_chain[k] = 1
  BY <1>2, <1>4, <1>5 DEF ResetComing
<1>7. k = TAP
  <2>1. SUFFICES ASSUME k # TAP PROVE FALSE
    OBVIOUS
  <2>2. k + 1 \in 0..TAP /\ k + 1 # 0 /\ k + 1 - 1 = k
    BY <1>1, <2>1
  <2>3. int_chain'[k + 1] = 1
    BY <1>3, <1>6, <2>2
  <2>4. QED
    BY <1>4, <2>2, <2>3
<1>8. QED
  BY <1>6, <1>7 DEF RC!Clock, RC!ResetOutNext

LEMMA ResetInvNext == TypeOK /\ ResetInv /\ [Next]_vars => ResetInv'
<1> SUFFICES ASSUME TypeOK, ResetInv, [Next]_vars PROVE ResetInv'
  OBVIOUS
<1>1. CASE Hardware
  <2>1. CASE reset_n = 0
    BY <1>1, <2>1 DEF ResetInv, Hardware, RC!Clock, MastersClock
  <2>2. CASE reset_n # 0
    BY <1>1, <2>2 DEF ResetInv, Hardware, RC!Clock
  <2>3. QED
    BY <2>1, <2>2
<1>2. CASE PressReset
  BY <1>2 DEF ResetInv, PressReset, RC!ResetAssert
<1>3. CASE ReleaseReset
  BY <1>3 DEF ResetInv, ReleaseReset, RC!ResetRelease
<1>4. CASE UNCHANGED vars
  BY <1>4 DEF ResetInv, vars, RC!vars, RC!chains
<1>5. QED
  BY <1>1, <1>2, <1>3, <1>4
     DEF Next, Tick, NiosReset, Program, Compute, BootDone, WriteDelay, WriteTx,
         WriteStart, PollEnd, ReadRx, Running

-----------------------------------------------------------------------------
(* The masters at a clock edge.                                            *)

LEMMA MasterStep ==
    ASSUME TypeOK, Hardware, NEW i \in Modules
    PROVE  /\ masters[i] \in Registers
           /\ masters'[i] = IF reset_n = 0 THEN masters[i]
                            ELSE NextReg(masters[i], StartBit(i), spi_tx[i], delay_spi,
                                         miso[i])
           /\ spi_tx[i] \in Word /\ miso[i] \in Bit /\ delay_spi \in Nat
BY DEF TypeOK, Hardware, MastersClock

LEMMA FramesInvNext ==
    ASSUME CLK_DIV > 1, TypeOK, FramesInv, [Next]_vars
    PROVE  FramesInv'
<1>1. CASE Hardware
  <2> SUFFICES ASSUME NEW i \in Modules PROVE Frame(masters'[i])
    BY DEF FramesInv
  <2>1. CASE reset_n = 0
    BY <1>1, <2>1, MasterStep DEF FramesInv
  <2>2. CASE reset_n # 0
    BY <1>1, <2>2, MasterStep, FrameStep DEF FramesInv
  <2>3. QED
    BY <2>1, <2>2
<1>2. CASE PressReset
  BY <1>2, FrameReset DEF PressReset, FramesInv
<1>3. CASE ReleaseReset \/ UNCHANGED vars
  BY <1>3 DEF ReleaseReset, vars, FramesInv
<1>4. QED
  BY <1>1, <1>2, <1>3 DEF Next, Tick, NiosReset, Program, Compute, BootDone, WriteDelay,
                          WriteTx, WriteStart, PollEnd, ReadRx, Running

-----------------------------------------------------------------------------
(* The program's place.                                                    *)

\* With no start bit a master that is not in a transfer is idle after the next
\* edge, and its delay counter is at 0.
LEMMA RestStep ==
    ASSUME NEW r \in Registers, r.state \in {"idle", "end_state"},
           NEW w, NEW D, NEW b, NEW q, q = NextReg(r, 0, w, D, b)
    PROVE  q.state = "idle" /\ q.delay_counter = 0
<1>1. state_next(r, 0) = "idle"
  BY DEF state_next, after_end
<1>2. QED
  BY <1>1, CountersStep

\* ... and if it was at rest already, so are the dividers.
LEMMA SettleStep ==
    ASSUME NEW r \in Registers, r.state = "idle", r.delay_counter = 0,
           NEW w, NEW D \in Nat, Wide(D), NEW b, NEW q, q = NextReg(r, 0, w, D, b)
    PROVE  Timing(q, D)
<1>1. q.state = "idle" /\ q.delay_counter = 0
  BY RestStep
<1>2. q.div_counter = 0 /\ q.div_counter_2 = 0
  BY CountersStep, DelayShift
<1>3. QED
  BY <1>1, <1>2 DEF Timing, MidFrame

\* A clock edge before the program has written START.
LEMMA PlaceHardware ==
    ASSUME TypeOK, ResetInv, Hardware, start_spi = {},
           NEW i \in Modules, ~Busy(i)
    PROVE  /\ masters'[i].state = "idle" /\ masters'[i].delay_counter = 0
           /\ Wide(delay_spi) /\ masters[i].state = "idle"
                /\ masters[i].delay_counter = 0
                => Timing(masters'[i], delay_spi)
<1>1. masters[i].state \in {"idle", "end_state"}
  BY MasterStep, RegisterRanges DEF Busy, state_type
<1>2. StartBit(i) = 0
  BY DEF StartBit
<1>3. CASE reset_n # 0
  BY <1>1, <1>2, <1>3, MasterStep, RestStep, SettleStep
<1>4. CASE reset_n = 0
  <2>1. masters'[i] = ResetReg
    BY <1>4, MasterStep DEF ResetInv
  <2>2. ResetReg.state = "idle" /\ ResetReg.delay_counter = 0
    BY DEF ResetReg
  <2>3. QED
    BY <2>1, <2>2, TimingReset
<1>5. QED
  BY <1>3, <1>4

\* The DELAY that the program writes, a register of 8 bits, is wide enough.
DelayFits == Wide(DELAY_VALUE % 256)

LEMMA PlaceInvInit == Init => PlaceInv
BY DEF Init, PlaceInv, Started

LEMMA PlaceInvNext ==
    ASSUME DelayFits, TypeOK, PlaceInv, ResetInv, [Next]_vars
    PROVE  PlaceInv'
<1> DEFINE resting == \A i \in Modules : /\ masters[i].state = "idle"
                                         /\ masters[i].delay_counter = 0
           settled == \A i \in Modules : Timing(masters[i], delay_spi)
<1>1. CASE NiosReset
  BY <1>1 DEF NiosReset, PlaceInv, Started
<1>2. CASE BootDone
  <2>1. start_spi = {}
    BY <1>2 DEF BootDone, PlaceInv, Started
  <2>2. resting'
    BY <1>2, <2>1, PlaceHardware DEF BootDone, Running
  <2>3. QED
    BY <1>2, <2>1, <2>2 DEF BootDone, PlaceInv, Started
<1>3. ASSUME pc \in {"delay", "tx", "start"}, Hardware
      PROVE  /\ start_spi = {} /\ resting'
             /\ pc # "delay" => \A i \in Modules : Timing(masters'[i], delay_spi)
  <2>1. start_spi = {} /\ resting
    BY <1>3 DEF PlaceInv, Started
  <2>2. \A i \in Modules : ~Busy(i)
    BY <2>1 DEF Busy
  <2>3. pc # "delay" => Wide(delay_spi)
    BY <1>3 DEF PlaceInv, DelayFits
  <2>4. QED
    BY <1>3, <2>1, <2>2, <2>3, PlaceHardware
<1>4. CASE WriteDelay
  <2>1. Hardware /\ pc = "delay" /\ pc' = "tx" /\ start_spi' = start_spi
        /\ delay_spi' = DELAY_VALUE % 256
    BY <1>4 DEF WriteDelay, Running
  <2>2. start_spi = {} /\ resting'
    BY <1>3, <2>1
  <2>3. QED
    BY <2>1, <2>2 DEF PlaceInv, Started
<1>5. CASE WriteTx
  <2>1. Hardware /\ pc = "tx" /\ pc' \in {"tx", "start"} /\ start_spi' = start_spi
        /\ delay_spi' = delay_spi
    BY <1>5 DEF WriteTx, Running
  <2>2. start_spi = {} /\ resting' /\ settled' /\ delay_spi = DELAY_VALUE % 256
    BY <1>3, <2>1 DEF PlaceInv
  <2>3. QED
    BY <2>1, <2>2 DEF PlaceInv, Started
<1>6. CASE WriteStart
  BY <1>6 DEF WriteStart, PlaceInv, Started
<1>7. CASE PollEnd \/ ReadRx
  BY <1>7 DEF PollEnd, ReadRx, PlaceInv, Started
<1>8. CASE Compute
  <2>1. Hardware /\ pc' = pc /\ start_spi' = start_spi /\ delay_spi' = delay_spi
    BY <1>8 DEF Compute, Running, prog
  <2>2. CASE pc \in {"delay", "tx", "start"}
    <3>1. start_spi = {} /\ resting' /\ (pc # "delay" => settled')
      BY <1>3, <2>1, <2>2
    <3>2. QED
      BY <2>1, <2>2, <3>1 DEF PlaceInv, Started
  <2>3. CASE pc \notin {"delay", "tx", "start"}
    BY <2>1, <2>3 DEF PlaceInv, Started
  <2>4. QED
    BY <2>2, <2>3
<1>9. CASE PressReset
  <2>1. /\ \A i \in Modules : masters'[i] = ResetReg
        /\ pc' = pc /\ start_spi' = start_spi /\ delay_spi' = delay_spi
    BY <1>9 DEF PressReset, pio, prog
  <2>2. ResetReg.state = "idle" /\ ResetReg.delay_counter = 0
    BY DEF ResetReg
  <2>3. resting' /\ settled'
    BY <2>1, <2>2, TimingReset
  <2>4. QED
    BY <2>1, <2>3 DEF PlaceInv
<1>10. CASE ReleaseReset \/ UNCHANGED vars
  BY <1>10 DEF ReleaseReset, vars, pio, prog, PlaceInv
<1>11. QED
  BY <1>1, <1>2, <1>4, <1>5, <1>6, <1>7, <1>8, <1>9, <1>10 DEF Next, Tick, Program

-----------------------------------------------------------------------------
(* The transfer of this START.                                             *)

LEMMA BitsInStep ==
    ASSUME NEW n \in Nat
    PROVE  /\ BitsIn(n) \in Nat /\ BitsIn(0) = 0
           /\ n < 2 * WORD => BitsIn(n + 1) = IF (n % 2 = 1) <=> cpha = 0
                                              THEN BitsIn(n) + 1 ELSE BitsIn(n)
           /\ n < 2 * WORD /\ ((n % 2 = 1) <=> cpha = 0) => BitsIn(n) < WORD
           /\ n = 2 * WORD => BitsIn(n) = WORD
<1>1. WORD \in Nat \ {0} /\ cpha \in {0, 1}
  BY MasterAssumption
<1>2. PICK p \in Nat : n = 2 * p \/ n = 2 * p + 1
  <2>1. n \div 2 \in Nat /\ (n = 2 * (n \div 2) \/ n = 2 * (n \div 2) + 1)
    OBVIOUS
  <2>2. QED
    BY <2>1
<1>3. CASE n = 2 * p
  <2>1. n \div 2 = p /\ (n + 1) \div 2 = p /\ n % 2 = 0 /\ (n + 1 + 1) \div 2 = p + 1
    BY <1>3
  <2>2. BitsIn(n) = p /\ BitsIn(n + 1) = IF cpha = 0 THEN p ELSE p + 1
    BY <2>1 DEF BitsIn
  <2>3. QED
    BY <1>1, <1>3, <2>1, <2>2 DEF BitsIn
<1>4. CASE n = 2 * p + 1
  <2>1. /\ n \div 2 = p /\ (n + 1) \div 2 = p + 1 /\ n % 2 = 1
        /\ (n + 1 + 1) \div 2 = p + 1
    BY <1>4
  <2>2. BitsIn(n) = (IF cpha = 0 THEN p ELSE p + 1) /\ BitsIn(n + 1) = p + 1
    BY <2>1 DEF BitsIn
  <2>3. n # 2 * WORD
    BY <1>1, <1>4
  <2>4. QED
    BY <1>1, <1>4, <2>1, <2>2, <2>3 DEF BitsIn
<1>5. QED
  BY <1>2, <1>3, <1>4

\* The word on MISO changes only when CS rises.
LEMMA AnswerStep ==
    ASSUME TypeOK, Hardware, NEW i \in Modules,
           masters[i].spi_cs = 1 \/ masters'[i].spi_cs = 0
    PROVE  Answer(i)' = Answer(i)
BY DEF Hardware, SlavesChoose, Answer

LEMMA AnswerBits ==
    ASSUME TypeOK, NEW i \in Modules
    PROVE  /\ Answer(i) \in Word
           /\ \A p \in 0..(WORD - 1) : Answer(i)[p + 1] = miso[i]
BY MasterAssumption DEF TypeOK, Answer, Word

\* The bits received, over one edge of clk.
LEMMA RoundBits ==
    ASSUME CLK_DIV > 1, Wide(delay_spi), TypeOK, FramesInv, Hardware, reset_n # 0,
           NEW i \in Modules, Round(i)
    PROVE  Received(masters'[i].rx_buffer, Answer(i)', BitsIn(masters'[i].bits_counter))
<1> DEFINE r == masters[i]
           q == masters'[i]
           n == r.bits_counter
<1>1. /\ r \in Registers /\ delay_spi \in Nat /\ n \in Nat /\ Frame(r)
      /\ q = NextReg(r, StartBit(i), spi_tx[i], delay_spi, miso[i])
      /\ Timing(r, delay_spi)
      /\ Received(r.rx_buffer, Answer(i), BitsIn(n))
      /\ r.spi_cs \in {0, 1} /\ WORD \in Nat
  BY MasterStep, RegisterRanges DEF FramesInv, Round
<1>2. CASE q.bits_counter = 0
  <2>1. BitsIn(q.bits_counter) = 0
    BY <1>2, BitsInStep
  <2>2. QED
    BY <2>1 DEF Received
<1>3. CASE q.bits_counter # 0
  <2>1. r.state = "communication_state"
    BY <1>1, <1>3, CountersStep
  <2>2. Edge(r, delay_spi) => r.delay_counter > delay_spi
    BY <1>1, CountersStep
  <2>3. r.spi_cs = 1
    <3>1. CASE Edge(r, delay_spi)
      <4>1. r.delay_counter > 0
        BY <1>1, <2>2, <3>1, RegisterRanges
      <4>2. QED
        BY <1>1, <2>1, <4>1 DEF Timing
    <3>2. CASE ~Edge(r, delay_spi)
      <4>1. n # 0
        BY <1>1, <1>3, <2>1, <3>2, CountersStep
      <4>2. QED
        BY <1>1, <4>1 DEF Frame
    <3>3. QED
      BY <3>1, <3>2
  <2>4. Answer(i)' = Answer(i)
    BY <2>3, AnswerStep
  <2>5. q.rx_buffer = IF Edge(r, delay_spi) /\ (OddEdge(r) <=> cpha = 0)
                      THEN ShiftIn(r.rx_buffer, miso[i]) ELSE r.rx_buffer
    <3>1. q.rx_buffer = rx_buffer_next(r, delay_spi, miso[i])
      BY <1>1 DEF NextReg
    <3>2. en_tx(r, delay_spi) <=> Edge(r, delay_spi) /\ (OddEdge(r) <=> cpha = 0)
      BY <1>1, <2>1, ShiftPulse
    <3>3. QED
      BY <2>1, <3>1, <3>2 DEF rx_buffer_next, load_tx_buffer
  <2>6. CASE Edge(r, delay_spi)
    <3>1. n < 2 * WORD /\ q.bits_counter = n + 1
      BY <1>1, <2>1, <2>6, CountersStep DEF Frame
    <3>2. CASE OddEdge(r) <=> cpha = 0
      <4>1. /\ BitsIn(n) \in 0..(WORD - 1)
            /\ BitsIn(q.bits_counter) = BitsIn(n) + 1
        BY <1>1, <3>1, <3>2, BitsInStep DEF OddEdge
      <4>2. miso[i] = Answer(i)[BitsIn(n) + 1]
        BY <4>1, AnswerBits
      <4>3. Received(ShiftIn(r.rx_buffer, miso[i]), Answer(i), BitsIn(n) + 1)
        BY <1>1, <4>1, <4>2, ShiftRx
      <4>4. QED
        BY <2>4, <2>5, <2>6, <3>2, <4>1, <4>3
    <3>3. CASE ~(OddEdge(r) <=> cpha = 0)
      <4>1. BitsIn(q.bits_counter) = BitsIn(n)
        BY <1>1, <3>1, <3>3, BitsInStep DEF OddEdge
      <4>2. QED
        BY <1>1, <2>4, <2>5, <3>3, <4>1
    <3>4. QED
      BY <3>2, <3>3
  <2>7. CASE ~Edge(r, delay_spi)
    <3>1. q.bits_counter = n
      BY <1>1, <2>1, <2>7, CountersStep
    <3>2. QED
      BY <1>1, <2>4, <2>5, <2>7, <3>1
  <2>8. QED
    BY <2>6, <2>7
<1>4. QED
  BY <1>2, <1>3

\* The word stored at the end of the frame, and kept while END is shown.
LEMMA RoundWord ==
    ASSUME TypeOK, FramesInv, Hardware, reset_n # 0, NEW i \in Modules, Round(i),
           masters'[i].state = "end_state"
    PROVE  masters'[i].rx_data = Answer(i)'
<1> DEFINE r == masters[i]
           q == masters'[i]
<1>1. /\ r \in Registers /\ Frame(r) /\ WORD \in Nat /\ r.rx_buffer \in Word
      /\ q = NextReg(r, StartBit(i), spi_tx[i], delay_spi, miso[i])
      /\ Received(r.rx_buffer, Answer(i), BitsIn(r.bits_counter))
      /\ r.state = "end_state" => r.rx_data = Answer(i)
  BY MasterStep, RegisterRanges DEF FramesInv, Round
<1>2. q.rx_data = rx_data_next(r)
  BY <1>1 DEF NextReg
<1>3. r.state \in {"store_rx_state", "end_state"}
  BY <1>1, RegisterRanges, CountersStep, StateStep DEF state_type
<1>4. q.spi_cs = 0
  BY <1>1, <1>3, CountersStep
<1>5. Answer(i)' = Answer(i)
  BY <1>4, AnswerStep
<1>6. CASE r.state = "store_rx_state"
  <2>1. BitsIn(r.bits_counter) = WORD
    BY <1>1, <1>6, RegisterRanges, BitsInStep DEF Frame
  <2>2. \A k \in 1..WORD : r.rx_buffer[k] = Answer(i)[k]
    BY <1>1, <2>1 DEF Received
  <2>3. r.rx_buffer = Answer(i)
    BY <1>1, <2>2, AnswerBits DEF Word
  <2>4. QED
    BY <1>2, <1>5, <1>6, <2>3 DEF rx_data_next
<1>7. CASE r.state = "end_state"
  BY <1>1, <1>2, <1>5, <1>7 DEF rx_data_next
<1>8. QED
  BY <1>3, <1>6, <1>7

\* A master that leaves idle is recorded.
LEMMA BeganStep ==
    ASSUME Hardware, NEW i \in Modules,
           masters'[i].state # "idle",
           masters[i].state = "idle" \/ (i \in began /\ pc # "start")
    PROVE  i \in began'
BY DEF Hardware, Record, Begins

LEMMA RoundStep ==
    ASSUME CLK_DIV > 1, Wide(delay_spi), TypeOK, FramesInv, Hardware, reset_n # 0,
           delay_spi' = delay_spi, pc # "start",
           NEW i \in Modules, Round(i)
    PROVE  Round(i)'
<1>1. Timing(masters'[i], delay_spi)
  BY MasterStep, TimingStep DEF FramesInv, Round
<1>2. masters'[i].state # "idle" => i \in began'
  BY BeganStep DEF Round
<1>3. QED
  BY <1>1, <1>2, RoundBits, RoundWord DEF Round

\* The write of START finds every master idle with its counters at rest.
LEMMA RoundBegins ==
    ASSUME CLK_DIV > 1, DelayFits, TypeOK, PlaceInv, Hardware, reset_n # 0,
           delay_spi' = delay_spi, pc = "start",
           NEW i \in Modules
    PROVE  Round(i)' /\ masters[i].state = "idle"
<1> DEFINE q == masters'[i]
<1>1. /\ StartBit(i) = 0 /\ masters[i].state = "idle"
      /\ masters[i].delay_counter = 0 /\ Wide(delay_spi)
  BY DEF PlaceInv, Started, StartBit, DelayFits
<1>2. q = NextReg(masters[i], 0, spi_tx[i], delay_spi, miso[i])
  BY <1>1, MasterStep
<1>3. q.state = "idle" /\ q.delay_counter = 0 /\ Timing(q, delay_spi)
  BY <1>1, <1>2, MasterStep, RestStep, SettleStep
<1>4. q.bits_counter = 0
  BY <1>1, <1>2, MasterStep, CountersStep
<1>5. Received(q.rx_buffer, Answer(i)', BitsIn(q.bits_counter))
  BY <1>4, BitsInStep DEF Received
<1>6. QED
  BY <1>1, <1>3, <1>5 DEF Round

\* What the processor reads after the next edge.
LEMMA ShownStep ==
    ASSUME CLK_DIV > 1, Wide(delay_spi), TypeOK, MaskInv, FramesInv, Hardware,
           reset_n # 0, reset_out' # 1, start_spi = START_MASK,
           \A i \in START_MASK : Round(i),
           end_rd' = 1 \/ Shown
    PROVE  Shown'
<1>1. \A i \in START_MASK : i \in Modules
  BY TopAssumption
<1>2. \A i \in START_MASK : masters[i].state = "end_state"
  <2>1. CASE Shown
    BY <2>1 DEF Shown
  <2>2. CASE end_rd' = 1
    <3>1. PICK j \in Modules : masters[j].state = "end_state"
      BY <2>2 DEF Hardware, ReadPorts, end_signal_spi_dsp, end_signal
    <3>2. j \in START_MASK
      BY <3>1 DEF MaskInv
    <3>3. ASSUME NEW i \in START_MASK PROVE masters[i].state = "end_state"
      BY <3>1, <3>2 DEF MaskInv, Lockstep, Control
    <3>4. QED
      BY <3>3
  <2>3. QED
    BY <2>1, <2>2
<1>3. ASSUME NEW i \in START_MASK
      PROVE  masters'[i].state = "end_state" /\ rx_rd'[i] = Answer(i)'
  <2>1. /\ i \in Modules /\ masters[i] \in Registers
        /\ masters'[i] = NextReg(masters[i], 1, spi_tx[i], delay_spi, miso[i])
    BY <1>1, MasterStep DEF StartBit
  <2>2. masters'[i].state = "end_state"
    <3>1. state_next(masters[i], 1) = "end_state"
      BY <1>2 DEF state_next, after_end
    <3>2. QED
      BY <2>1, <3>1, CountersStep
  <2>3. masters'[i].spi_cs = 0
    BY <1>2, <2>1, CountersStep
  <2>4. Answer(i)' = Answer(i)
    BY <2>1, <2>3, AnswerStep
  <2>5. rx_rd'[i] = masters[i].rx_data
    BY <1>2, <2>1 DEF Hardware, ReadPorts, data_rx_out, rx_data_next
  <2>6. QED
    BY <1>2, <2>2, <2>4, <2>5 DEF Round
<1>4. QED
  BY <1>3 DEF Shown

LEMMA RoundInvNext ==
    ASSUME CLK_DIV > 1, DelayFits, TypeOK, MaskInv, FramesInv, PlaceInv, ResetInv,
           RoundInv, [Next]_vars
    PROVE  RoundInv'
<1> DEFINE printed == \A i \in START_MASK : spi_data[i] = Answer(i)
<1> SUFFICES ASSUME pc' \in Started, ~ResetComing'
             PROVE  /\ \A i \in START_MASK : Round(i)'
                    /\ end_rd' = 1 \/ pc' # "poll" => Shown'
                    /\ pc' = "print" => printed'
  BY DEF RoundInv
<1>1. \A i \in START_MASK : i \in Modules
  BY TopAssumption
\* A step of the hardware on which no reset is to come.
<1>2. ASSUME Hardware, reset_out' = 0
      PROVE  ~ResetComing /\ reset_n # 0
  <2>1. RC!Clock /\ RC!TypeOK
    BY <1>2 DEF Hardware, TypeOK
  <2>2. ~ResetComing
    BY <1>2, <2>1, ResetArrives
  <2>3. QED
    BY <2>2 DEF ResetComing
<1>3. ASSUME Hardware, reset_out' = 0, pc \in Started,
             start_spi' = start_spi, delay_spi' = delay_spi
      PROVE  /\ start_spi = START_MASK /\ Wide(delay_spi)
             /\ \A i \in START_MASK : Round(i)'
             /\ end_rd' = 1 \/ end_rd = 1 \/ pc # "poll" => Shown'
             /\ end_rd = 1 \/ pc # "poll" => Shown
             /\ pc = "print" => printed
  <2>1. ~ResetComing /\ reset_n # 0
    BY <1>2, <1>3
  <2>2. /\ \A i \in START_MASK : Round(i)
        /\ end_rd = 1 \/ pc # "poll" => Shown
        /\ pc = "print" => printed
    BY <1>3, <2>1 DEF RoundInv
  <2>3. start_spi = START_MASK /\ Wide(delay_spi) /\ pc # "start"
    BY <1>3 DEF PlaceInv, DelayFits, Started
  <2>4. \A i \in START_MASK : Round(i)'
    BY <1>1, <1>3, <2>1, <2>2, <2>3, RoundStep
  <2>5. end_rd' = 1 \/ end_rd = 1 \/ pc # "poll" => Shown'
    BY <1>3, <2>1, <2>2, <2>3, ShownStep
  <2>6. QED
    BY <2>2, <2>3, <2>4, <2>5
<1>4. CASE NiosReset \/ BootDone \/ WriteDelay \/ WriteTx
  <2>1. pc' \in {"boot", "delay", "tx", "start"}
    BY <1>4 DEF NiosReset, BootDone, WriteDelay, WriteTx
  <2>2. QED
    BY <2>1 DEF Started
<1>5. CASE WriteStart
  <2>1. /\ Hardware /\ reset_out' = 0 /\ pc = "start" /\ pc' = "poll"
        /\ delay_spi' = delay_spi
    BY <1>5 DEF WriteStart, Running
  <2>2. reset_n # 0
    BY <1>2, <2>1
  <2>3. \A i \in Modules : Round(i)' /\ masters[i].state = "idle"
    BY <2>1, <2>2, RoundBegins
  <2>4. end_rd' = 0
    BY <2>1, <2>3 DEF Hardware, ReadPorts, end_signal_spi_dsp, end_signal
  <2>5. QED
    BY <1>1, <2>1, <2>3, <2>4
<1>6. CASE PollEnd
  <2>1. /\ Hardware /\ reset_out' = 0 /\ pc = "poll"
        /\ pc' = (IF end_rd = 0 THEN "poll" ELSE "read")
        /\ start_spi' = start_spi /\ delay_spi' = delay_spi
    BY <1>6 DEF PollEnd, Running
  <2>2. /\ \A i \in START_MASK : Round(i)'
        /\ end_rd' = 1 \/ end_rd = 1 => Shown'
    BY <1>3, <2>1 DEF Started
  <2>3. end_rd \in {0, 1}
    BY DEF TypeOK
  <2>4. QED
    BY <2>1, <2>2, <2>3
<1>7. CASE ReadRx
  <2>1. /\ Hardware /\ reset_out' = 0 /\ pc = "read" /\ pc' = "print"
        /\ start_spi' = start_spi /\ delay_spi' = delay_spi
        /\ spi_data' = [i \in Modules |-> IF i \in START_MASK THEN rx_rd[i]
                                                              ELSE spi_data[i]]
    BY <1>7 DEF ReadRx, Running
  <2>2. (\A i \in START_MASK : Round(i)') /\ Shown' /\ Shown
    BY <1>3, <2>1 DEF Started
  <2>3. ASSUME NEW i \in START_MASK PROVE Answer(i)' = Answer(i)
    <3>1. i \in Modules /\ masters[i].state = "end_state" /\ masters[i] \in Registers
      BY <1>1, <2>1, <2>2, MasterStep DEF Shown
    <3>2. masters'[i].spi_cs = 0
      BY <1>2, <2>1, <3>1, MasterStep, CountersStep
    <3>3. QED
      BY <2>1, <3>1, <3>2, AnswerStep
  <2>4. printed'
    BY <1>1, <2>1, <2>2, <2>3 DEF Shown
  <2>5. QED
    BY <2>2, <2>4
<1>8. CASE Compute
  <2>1. /\ Hardware /\ reset_out' = 0 /\ pc' = pc /\ pc \in Started
        /\ start_spi' = start_spi /\ delay_spi' = delay_spi /\ spi_data' = spi_data
    BY <1>8 DEF Compute, Running, prog
  <2>2. /\ \A i \in START_MASK : Round(i)'
        /\ end_rd' = 1 \/ pc # "poll" => Shown'
        /\ pc = "print" => printed /\ Shown
    BY <1>3, <2>1
  <2>3. ASSUME NEW i \in START_MASK, pc = "print" PROVE Answer(i)' = Answer(i)
    <3>1. i \in Modules /\ masters[i].state = "end_state" /\ masters[i] \in Registers
      BY <1>1, <2>1, <2>2, <2>3, MasterStep DEF Shown
    <3>2. masters'[i].spi_cs = 0
      BY <1>2, <2>1, <3>1, MasterStep, CountersStep
    <3>3. QED
      BY <2>1, <3>1, <3>2, AnswerStep
  <2>4. pc' = "print" => printed'
    BY <2>1, <2>2, <2>3
  <2>5. QED
    BY <2>1, <2>2, <2>4
<1>9. CASE PressReset \/ ReleaseReset
  <2>1. ResetComing'
    BY <1>9 DEF PressReset, ReleaseReset, RC!ResetAssert, RC!ResetRelease, RC!chains,
                ResetInv, ResetComing
  <2>2. QED
    BY <2>1
<1>10. CASE UNCHANGED vars
  <2>1. RoundInv' <=> RoundInv
    BY <1>10 DEF vars, pio, prog, RC!vars, RC!chains, RoundInv, Round, Shown, Started,
                 ResetComing, Answer
  <2>2. QED
    BY <2>1 DEF RoundInv
<1>11. QED
  BY <1>4, <1>5, <1>6, <1>7, <1>8, <1>9, <1>10 DEF Next, Tick, Program

RoundsInv == FramesInv /\ PlaceInv /\ ResetInv /\ RoundInv

\* What the program prints belongs to the START it wrote: when it has left its
\* polling loop, every module of the mask has completed a transfer that began
\* after that write, and the words it prints are those the slaves sent in it,
\* through any number of resets, however short and whenever they come (until
\* the reset on its way restarts the program).  For any number of modules, any
\* mask, word length, divider of at least two, phase, generics of the reset
\* controller, and a DELAY wide enough.
THEOREM WordsOfThisStartAlways ==
    CLK_DIV > 1 /\ DelayFits => (Spec => []WordsOfThisStart)
<1> SUFFICES ASSUME CLK_DIV > 1, DelayFits PROVE Spec => []WordsOfThisStart
  OBVIOUS
<1>1. Init => RoundsInv
  <2> SUFFICES ASSUME Init PROVE RoundsInv
    OBVIOUS
  <2>1. FramesInv
    BY FrameReset DEF Init, FramesInv
  <2>2. ResetInv
    BY DEF Init, RC!Init, ResetInv
  <2>3. RoundInv
    BY DEF Init, RoundInv, Started
  <2>4. QED
    BY <2>1, <2>2, <2>3, PlaceInvInit DEF RoundsInv
<1>2. TypeOK /\ MaskInv /\ RoundsInv /\ [Next]_vars => RoundsInv'
  BY FramesInvNext, PlaceInvNext, ResetInvNext, RoundInvNext DEF RoundsInv
<1>3. TypeOK /\ RoundsInv => WordsOfThisStart
  <2> SUFFICES ASSUME TypeOK, RoundsInv, pc \in {"read", "print"}, ~ResetComing
               PROVE  /\ \A i \in START_MASK : i \in began /\ end_signal(masters[i])
                      /\ pc = "print" => \A i \in START_MASK : spi_data[i] = Answer(i)
    BY DEF WordsOfThisStart, PollMeansDone, FreshWords
  <2>1. /\ Shown /\ \A i \in START_MASK : Round(i)
        /\ pc = "print" => \A i \in START_MASK : spi_data[i] = Answer(i)
    BY DEF RoundsInv, RoundInv, Started
  <2>2. QED
    BY <2>1 DEF Shown, Round, end_signal
<1>4. QED
  BY <1>1, <1>2, <1>3, TypeCorrect, MaskInvariant, PTL DEF Spec

-----------------------------------------------------------------------------
(* The sequence of a reset.                                                *)

LEMMA Taps ==
    ASSUME NiosGenerics
    PROVE  /\ RC!RSTREQ_ASRT_SYNC_TAP = 4 /\ SYNC_DEPTH \in Nat /\ SYNC_DEPTH > 1
           /\ RC!ASSERTION_CHAIN_LENGTH \in Nat /\ RC!RESET_REQ_DRST_TAP \in Nat
           /\ MIN_RST_ASSERTION_TIME \in Nat /\ RC!LARGER \in Nat
           /\ RESET_REQ_EARLY_DSRT_TIME = RC!RESET_REQ_DRST_TAP - 1
           /\ RC!RESET_REQ_DRST_TAP > 1 /\ RC!RESET_REQ_DRST_TAP <= RC!LARGER + 1
           /\ RC!ASSERTION_CHAIN_LENGTH > RC!RESET_REQ_DRST_TAP
           /\ RC!ASSERTION_CHAIN_LENGTH > MIN_RST_ASSERTION_TIME
BY ResetParameters
DEF NiosGenerics, RC!TapsFit, RC!RSTREQ_ASRT_SYNC_TAP, RC!ASSERTION_CHAIN_LENGTH, RC!LARGER,
    RC!Larger, RC!RESET_REQ_DRST_TAP, RC!MIN_METASTABLE

\* The stretcher after an edge.
Left(left) == IF int_chain[2] = 1 THEN RC!ASSERTION_CHAIN_LENGTH
              ELSE IF left > 0 THEN left - 1 ELSE 0

LEMMA StretcherStep ==
    ASSUME NiosGenerics, NEW left \in 0..RC!ASSERTION_CHAIN_LENGTH, rst_chain = Ones(left)
    PROVE  /\ Left(left) \in 0..RC!ASSERTION_CHAIN_LENGTH
           /\ RC!RstNext = Ones(Left(left))
           /\ rst_chain[1] = IF left > 1 THEN 1 ELSE 0
           /\ RC!ResetReqNext = IF left > RC!RESET_REQ_DRST_TAP THEN 1 ELSE 0
<1> DEFINE L == RC!ASSERTION_CHAIN_LENGTH
           D == RC!RESET_REQ_DRST_TAP
<1>1. L \in Nat /\ L > 2 /\ D \in Nat /\ D > 1 /\ D < L
  BY Taps
<1> HIDE DEF L, D
<1>2. rst_chain = [i \in 0..(L - 1) |-> IF i < left THEN 1 ELSE 0] /\ left \in 0..L
  BY DEF Ones, L
<1>3. Left(left) \in 0..L
  BY <1>1, <1>2 DEF Left, L
<1>4. RC!RstNext = Ones(Left(left))
  <2>1. CASE int_chain[2] = 1
    <3>1. RC!RstNext = [i \in 0..(L - 1) |-> 1]
      BY <2>1 DEF RC!RstNext, RC!RstOnes, RC!MIN_METASTABLE, L
    <3>2. Ones(Left(left)) = [i \in 0..(L - 1) |-> 1]
      BY <1>1, <2>1 DEF Ones, Left, L
    <3>3. QED
      BY <3>1, <3>2
  <2>2. CASE int_chain[2] # 1
    <3>1. RC!RstNext = [i \in 0..(L - 1) |-> IF i = L - 1 THEN 0 ELSE rst_chain[i + 1]]
      BY <2>2 DEF RC!RstNext, RC!MIN_METASTABLE, L
    <3>2. Ones(Left(left)) = [i \in 0..(L - 1) |-> IF i < (IF left > 0 THEN left - 1 ELSE 0)
                                                    THEN 1 ELSE 0]
      BY <2>2 DEF Ones, Left, L
    <3>3. ASSUME NEW i \in 0..(L - 1)
          PROVE  (IF i = L - 1 THEN 0 ELSE rst_chain[i + 1])
                 = IF i < (IF left > 0 THEN left - 1 ELSE 0) THEN 1 ELSE 0
      BY <1>1, <1>2
    <3>4. QED
      BY <3>1, <3>2, <3>3
  <2>3. QED
    BY <2>1, <2>2
<1>6. rst_chain[1] = IF left > 1 THEN 1 ELSE 0
  BY <1>1, <1>2
<1>7. RC!ResetReqNext = IF left > D THEN 1 ELSE 0
  BY <1>1, <1>2 DEF RC!ResetReqNext, D
<1>8. QED
  BY <1>3, <1>4, <1>6, <1>7 DEF L, D

\* One edge of clk, in terms of what is left in the stretcher.
LEMMA SequenceClock ==
    ASSUME NiosGenerics, SequenceInv, RC!Clock
    PROVE  /\ SequenceInv'
           /\ reset_out = 1 /\ reset_out' = 0 => held >= MIN_RST_ASSERTION_TIME
           /\ reset_out = 0 /\ reset_out' = 1 => reset_req = 1 /\ early >= 1
           /\ reset_out = 1 /\ reset_out' = 0
                 => reset_req = 0 /\ early >= RESET_REQ_EARLY_DSRT_TIME
<1> DEFINE L == RC!ASSERTION_CHAIN_LENGTH
           D == RC!RESET_REQ_DRST_TAP
           M == MIN_RST_ASSERTION_TIME
<1>1. /\ RC!RSTREQ_ASRT_SYNC_TAP = 4 /\ SYNC_DEPTH \in Nat /\ SYNC_DEPTH > 1
      /\ L \in Nat /\ D \in Nat /\ M \in Nat /\ RC!LARGER \in Nat
      /\ RESET_REQ_EARLY_DSRT_TIME = D - 1
      /\ D > 1 /\ D <= RC!LARGER + 1 /\ L > D /\ L > M
  BY Taps
<1>2. PICK left \in 0..L :
          rst_chain = Ones(left) /\ StretcherFilled(left) /\ CyclesCounted(left)
  BY DEF SequenceInv
<1>a. PICK next \in 0..L : next = Left(left)
  BY <1>2, StretcherStep
<1>3. /\ RC!RstNext = Ones(next)
      /\ rst_chain[1] = (IF left > 1 THEN 1 ELSE 0)
      /\ RC!ResetReqNext = IF left > D THEN 1 ELSE 0
  BY <1>2, <1>a, StretcherStep
<1>4. /\ next = L \/ int_chain[2] # 1
      /\ next >= left - 1 /\ (int_chain[2] # 1 => next <= left)
      /\ (int_chain[2] # 1 => next = left - 1 \/ (left = 0 /\ next = 0))
  BY <1>1, <1>2, <1>a DEF Left
<1>5. /\ RC!TypeOK /\ held \in Nat /\ early \in Nat /\ Drains /\ PulseWide
  BY DEF SequenceInv
<1>6. /\ {int_chain[0], int_chain[1], int_chain[2], int_chain[3], int_chain[4]} \subseteq {0, 1}
      /\ {sync_out, reset_out, reset_req, reset_n, sync_chain[0], sync_chain[1]} \subseteq {0, 1}
  BY <1>1, <1>5 DEF RC!TypeOK
<1>7. /\ int_chain'[0] = sync_out /\ int_chain'[1] = int_chain[0]
      /\ int_chain'[2] = int_chain[1] /\ int_chain'[3] = int_chain[2]
      /\ int_chain'[4] = int_chain[3]
  BY <1>1 DEF RC!Clock
<1>8. reset_out' = IF int_chain[4] = 1 \/ (left > 1 /\ reset_out = 1) THEN 1 ELSE 0
  BY <1>1, <1>3 DEF RC!Clock, RC!ResetOutNext
<1>9. reset_req' = IF left > D THEN 1 ELSE 0
  BY <1>3 DEF RC!Clock
<1>10. /\ held' = (IF reset_out' = 1 THEN IF held > M THEN held ELSE held + 1 ELSE 0)
       /\ early' = IF reset_out = reset_out' /\ reset_req' # reset_out'
                   THEN IF early > RC!LARGER THEN early ELSE early + 1 ELSE 0
  BY DEF RC!Clock, RC!Record, RC!UpTo
<1>11. rst_chain' = Ones(next)
  BY <1>3 DEF RC!Clock
<1>12. RC!TypeOK'
  BY <1>5, ResetClockType
<1>13. Drains' /\ PulseWide'
  <2>1. CASE reset_n = 0
    <3>1. reset_n' = 0 /\ sync_chain' = RC!SyncOnes /\ sync_out' = 1 /\ sync_out = 1
          /\ sync_chain = RC!SyncOnes
      BY <1>5, <2>1 DEF RC!Clock, RC!SyncNext, Drains
    <3>2. RC!SyncOnes[0] = 1 /\ RC!SyncOnes[1] = 1
      BY <1>1 DEF RC!SyncOnes
    <3>3. Drains'
      BY <1>1, <3>1 DEF Drains, RC!SyncOnes
    <3>4. PulseWide'
      BY <1>5, <1>6, <1>7, <1>8, <3>1, <3>2 DEF PulseWide, Front
    <3>5. QED
      BY <3>3, <3>4
  <2>2. CASE reset_n # 0
    <3>1. reset_n' # 0 /\ sync_out' = sync_chain[0] /\ sync_chain'[0] = sync_chain[1]
      BY <1>1, <2>2 DEF RC!Clock, RC!SyncNext
    <3>2. /\ sync_chain'[0] = 1 => sync_out' = 1
          /\ \A i \in 0..(SYNC_DEPTH - 2) : sync_chain'[i + 1] = 1 => sync_chain'[i] = 1
      BY <1>1, <1>5, <2>2 DEF RC!Clock, RC!SyncNext, Drains
    <3>3. Drains'
      BY <3>1, <3>2 DEF Drains
    <3>4. PulseWide'
      BY <1>5, <1>6, <1>7, <1>8, <3>1 DEF PulseWide, Front, Drains
    <3>5. QED
      BY <3>3, <3>4
  <2>3. QED
    BY <2>1, <2>2
<1> HIDE DEF L, D, M
<1>14. /\ int_chain[3] = 1 => left = L
       /\ int_chain[4] = 1 => left >= L - 1
  BY <1>2 DEF StretcherFilled, L
<1>15. /\ reset_out = 0 => held = 0
       /\ reset_out = 0 /\ int_chain[4] = 1 => reset_req = 1 /\ early >= 1
       /\ reset_out = 1 => held > M \/ held + left >= L + 1
       /\ reset_out = 1 /\ left < D => reset_req = 0 /\ early >= D - left
  BY <1>2 DEF CyclesCounted, L, D, M
<1>16. reset_out = 0 /\ int_chain[4] = 1 => int_chain[2] = 1
  BY <1>5, <1>6 DEF PulseWide, Front
<1>17. StretcherFilled(next)'
  <2>1. int_chain'[3] = 1 => next = L
    BY <1>4, <1>7
  <2>2. int_chain'[4] = 1 => next >= L - 1
    BY <1>1, <1>2, <1>3, <1>4, <1>7, <1>14
  <2>3. QED
    BY <2>1, <2>2 DEF StretcherFilled, L
<1>18. held' \in Nat /\ early' \in Nat
  BY <1>5, <1>10
<1>19. reset_out' \in {0, 1} /\ (reset_out' = 0 => held' = 0)
  BY <1>8, <1>10
<1>20. reset_out' = 0 /\ int_chain'[4] = 1 => reset_req' = 1 /\ early' >= 1
  <2> SUFFICES ASSUME reset_out' = 0, int_chain'[4] = 1
               PROVE  reset_req' = 1 /\ early' >= 1
    OBVIOUS
  <2>1. left = L /\ left > 1 /\ left > D
    BY <1>1, <1>7, <1>14
  <2>2. reset_out = 0 /\ reset_req' = 1
    BY <1>6, <1>8, <1>9, <2>1
  <2>3. QED
    BY <1>1, <1>5, <1>10, <2>2
<1>21. reset_out' = 1 => held' > M \/ held' + next >= L + 1
  <2> SUFFICES ASSUME reset_out' = 1 PROVE held' > M \/ held' + next >= L + 1
    OBVIOUS
  <2>1. CASE reset_out = 1
    BY <1>1, <1>2, <1>3, <1>4, <1>5, <1>10, <1>15, <2>1
  <2>2. CASE reset_out = 0
    <3>1. int_chain[4] = 1
      BY <1>8, <2>2
    <3>2. next = L
      BY <1>4, <1>16, <2>2, <3>1
    <3>3. QED
      BY <1>1, <1>10, <1>15, <2>2, <3>2
  <2>3. QED
    BY <1>6, <2>1, <2>2
<1>22. reset_out' = 1 /\ next < D => reset_req' = 0 /\ early' >= D - next
  <2> SUFFICES ASSUME reset_out' = 1, next < D PROVE reset_req' = 0 /\ early' >= D - next
    OBVIOUS
  <2>1. int_chain[2] # 1 /\ left <= D
    BY <1>1, <1>2, <1>3, <1>4
  <2>2. reset_out = 1
    BY <1>6, <1>8, <1>16, <2>1
  <2>3. reset_req' = 0
    BY <1>1, <1>2, <1>9, <2>1
  <2>4. early' = IF early > RC!LARGER THEN early ELSE early + 1
    BY <1>10, <2>2, <2>3
  <2>5. early' >= early /\ (early' >= early + 1 \/ early' >= D)
    BY <1>1, <1>5, <2>4
  <2>6. CASE left = 0
    <3>1. next = 0 /\ left < D
      BY <1>1, <1>2, <1>3, <1>4, <2>1, <2>6
    <3>2. QED
      BY <1>1, <1>5, <1>15, <1>18, <2>2, <2>3, <2>5, <2>6, <3>1
  <2>7. CASE left # 0
    <3>1. next = left - 1
      BY <1>4, <2>1, <2>7
    <3>2. D - next <= early + 1 /\ D - next <= D
      BY <1>1, <1>2, <1>5, <1>15, <2>1, <2>2, <2>7, <3>1
    <3>3. QED
      BY <1>1, <1>2, <1>5, <1>18, <2>3, <2>5, <3>1, <3>2
  <2>8. QED
    BY <2>6, <2>7
<1>23. CyclesCounted(next)'
  BY <1>19, <1>20, <1>21, <1>22 DEF CyclesCounted, L, D, M
<1>24. SequenceInv'
  <2>1. next \in 0..L /\ rst_chain' = Ones(next)
    BY <1>3, <1>11
  <2>2. QED
    BY <1>12, <1>13, <1>17, <1>18, <1>23, <2>1 DEF SequenceInv, L
<1>25. reset_out = 1 /\ reset_out' = 0
       => /\ held >= M
          /\ reset_req = 0 /\ early >= D - 1
  <2> SUFFICES ASSUME reset_out = 1, reset_out' = 0
               PROVE  held >= M /\ reset_req = 0 /\ early >= D - 1
    OBVIOUS
  <2>1. left <= 1
    BY <1>2, <1>8
  <2>2. QED
    BY <1>1, <1>2, <1>5, <1>15, <2>1
<1>26. reset_out = 0 /\ reset_out' = 1 => reset_req = 1 /\ early >= 1
  BY <1>8, <1>15
<1>27. QED
  BY <1>1, <1>24, <1>25, <1>26 DEF M

\* The button between two edges.
LEMMA SequenceButton ==
    ASSUME NiosGenerics, SequenceInv,
           RC!ResetAssert \/ RC!ResetRelease \/ UNCHANGED RC!vars
    PROVE  SequenceInv' /\ reset_out' = reset_out
<1>1. RC!TypeOK'
  <2>1. CASE RC!ResetAssert \/ RC!ResetRelease
    BY <2>1, ResetButtonType DEF SequenceInv
  <2>2. CASE UNCHANGED RC!vars
    BY <2>2 DEF SequenceInv, RC!TypeOK, RC!vars, RC!chains
  <2>3. QED
    BY <2>1, <2>2
<1>2. /\ UNCHANGED <<int_chain, rst_chain, reset_out, reset_req, held, early>>
      /\ \/ UNCHANGED <<sync_chain, sync_out>> /\ (reset_n' = 0 => reset_n = 0)
         \/ sync_chain' = RC!SyncOnes /\ sync_out' = 1
  BY DEF RC!ResetAssert, RC!ResetRelease, RC!vars, RC!chains, RC!history
<1>3. 0 \in 0..(SYNC_DEPTH - 1) /\ 1 \in 0..(SYNC_DEPTH - 1)
  BY Taps
<1>4. RC!SyncOnes[0] = 1 /\ RC!SyncOnes[1] = 1
  BY <1>3 DEF RC!SyncOnes
<1>5. Drains'
  BY <1>2, <1>3, Taps DEF SequenceInv, Drains, RC!SyncOnes
<1>6. PulseWide'
  BY <1>2, <1>4 DEF SequenceInv, PulseWide, Front
<1>7. \E left \in 0..RC!ASSERTION_CHAIN_LENGTH :
          rst_chain' = Ones(left) /\ StretcherFilled(left)' /\ CyclesCounted(left)'
  BY <1>2 DEF SequenceInv, StretcherFilled, CyclesCounted
<1>8. QED
  BY <1>1, <1>2, <1>5, <1>6, <1>7 DEF SequenceInv

LEMMA SequenceInit == NiosGenerics /\ RC!Init => SequenceInv
<1> SUFFICES ASSUME NiosGenerics, RC!Init PROVE SequenceInv
  OBVIOUS
<1> DEFINE L == RC!ASSERTION_CHAIN_LENGTH
<1>1. RC!TypeOK
  BY ResetInitType
<1>2. RC!RSTREQ_ASRT_SYNC_TAP = 4 /\ SYNC_DEPTH \in Nat /\ SYNC_DEPTH > 1 /\ L \in Nat
  BY Taps
<1>3. /\ int_chain[0] = 1 /\ int_chain[1] = 1 /\ int_chain[2] = 1 /\ int_chain[3] = 1
      /\ int_chain[4] = 0 /\ sync_chain[0] = 0 /\ sync_out = 0
  BY <1>2 DEF RC!Init
<1>4. Drains /\ PulseWide /\ held \in Nat /\ early \in Nat
  BY <1>2, <1>3 DEF RC!Init, Drains, PulseWide, Front
<1>5. rst_chain = Ones(L) /\ L \in 0..L
  BY <1>2 DEF RC!Init, RC!RstOnes, Ones
<1>6. StretcherFilled(L) /\ CyclesCounted(L)
  BY <1>3 DEF RC!Init, StretcherFilled, CyclesCounted
<1>7. QED
  BY <1>1, <1>4, <1>5, <1>6 DEF SequenceInv

\* Every reset is requested before it begins, lasts as long as promised and releases the
\* memory before it ends, however the button bounces: for synchronizers and stretchers of
\* every length, with the wait of the code (altera_reset_controller.v:273-308).
THEOREM ResetSequenceAlways == NiosGenerics => (RC!Spec => RC!ResetSequence)
<1> SUFFICES ASSUME NiosGenerics PROVE RC!Spec => RC!ResetSequence
  OBVIOUS
<1> DEFINE Sequence == /\ reset_out = 1 /\ reset_out' = 0 => held >= MIN_RST_ASSERTION_TIME
                       /\ reset_out = 0 /\ reset_out' = 1
                             => reset_req = 1 /\ early >= RESET_REQ_WAIT_TIME
                       /\ reset_out = 1 /\ reset_out' = 0
                             => reset_req = 0 /\ early >= RESET_REQ_EARLY_DSRT_TIME
<1>1. RC!Init => SequenceInv
  BY SequenceInit
<1>2. SequenceInv /\ [RC!Next]_(RC!vars) => SequenceInv' /\ Sequence
  BY SequenceClock, SequenceButton DEF RC!Next, NiosGenerics
<1>3. SequenceInv /\ [RC!Next]_(RC!vars)
      => /\ [reset_out = 1 /\ reset_out' = 0 => held >= MIN_RST_ASSERTION_TIME]_(RC!vars)
         /\ [reset_out = 0 /\ reset_out' = 1
                => reset_req = 1 /\ early >= RESET_REQ_WAIT_TIME]_(RC!vars)
         /\ [reset_out = 1 /\ reset_out' = 0
                => reset_req = 0 /\ early >= RESET_REQ_EARLY_DSRT_TIME]_(RC!vars)
  BY <1>2
<1>4. QED
  BY <1>1, <1>2, <1>3, PTL DEF RC!Spec, RC!ResetSequence, RC!LongEnough, RC!RequestedBefore,
     RC!ReleasedBefore

\* The same of the controller in the FPGA, whose masters, program and button go on around it.
THEOREM ResetSequenceInTop == NiosGenerics => (Spec => RC!ResetSequence)
<1>1. Init => RC!Init
  BY DEF Init
<1>2. [Next]_vars => [RC!Next]_(RC!vars)
  BY DEF Next, Tick, NiosReset, Program, BootDone, WriteDelay, WriteTx, WriteStart, PollEnd, ReadRx,
     Compute, Running, Hardware, PressReset, ReleaseReset, vars, RC!Next
<1>3. QED
  BY <1>1, <1>2, ResetSequenceAlways, PTL DEF Spec, RC!Spec
=============================================================================
