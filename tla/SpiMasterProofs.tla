--------------------------- MODULE SpiMasterProofs ---------------------------
(***************************************************************************)
(* Theorems about SpiMaster, for every clock divider, polarity, phase,     *)
(* word length and set of delays.                                          *)
(***************************************************************************)
EXTENDS SpiMasterInv, SpiMasterLogicProofs

-----------------------------------------------------------------------------
(* Types.                                                                  *)

LEMMA WordBits == ASSUME NEW w \in Word, NEW i \in 1..WORD PROVE w[i] \in Bit
BY DEF Word

\* The slave keeps a word, a level and a count, whatever the master does.
LEMMA SlaveType ==
    ASSUME TypeOK, m' \in Registers, SlaveReact
    PROVE  spidat' \in Word /\ miso' \in Bit /\ edges' \in Nat
<1>1. spidat' \in Word
  <2>1. spi_mosi_out(m) \in Bit /\ spi_mosi_out(m') \in Bit
    BY WordBits, MasterAssumption DEF TypeOK, Registers, spi_mosi_out
  <2>2. QED
    BY <2>1, ShiftInType DEF TypeOK, SlaveReact, SlaveSample
<1>2. edges' \in Nat
  BY DEF TypeOK, SlaveReact
<1>3. miso' \in Bit
  <2>1. spidat[1] \in Bit /\ spidat'[1] \in Bit
    BY <1>1, WordBits, MasterAssumption DEF TypeOK
  <2>2. QED
    BY <2>1 DEF TypeOK, SlaveReact, SlaveDrive
<1>4. QED
  BY <1>1, <1>2, <1>3

LEMMA ClockType ==
    ASSUME TypeOK, Clock
    PROVE  /\ m' \in Registers
           /\ spidat' \in Word /\ miso' \in Bit /\ edges' \in Nat
           /\ sent' \in Word /\ answer' \in Word /\ gap' \in Nat
<1>1. m' \in Registers
  BY NextRegType DEF TypeOK, Clock
<1>2. SlaveReact
  BY DEF Clock
<1>3. sent' \in Word /\ answer' \in Word /\ gap' \in Nat
  BY DEF TypeOK, Clock, Record
<1>4. QED
  BY <1>1, <1>2, <1>3, SlaveType

LEMMA InitType == Init => TypeOK
BY ZerosType, ResetRegType, WordBits, MasterAssumption, EnvironmentAssumption
   DEF Init, TypeOK, Bit

LEMMA NextType == TypeOK /\ [NextAny]_vars => TypeOK'
<1> SUFFICES ASSUME TypeOK, [NextAny]_vars PROVE TypeOK'
  OBVIOUS
<1>1. CASE ClockOnly
  BY <1>1, ClockType DEF TypeOK, ClockOnly, inputs
<1>2. CASE WriteStart
  BY <1>2, ClockType DEF TypeOK, WriteStart, Bit
<1>3. CASE WriteTx
  BY <1>3, ClockType, EnvironmentAssumption DEF TypeOK, WriteTx
<1>4. CASE WriteDelay
  BY <1>4, ClockType DEF TypeOK, WriteDelay
<1>5. CASE SlaveLoad
  <2>1. spidat' \in Word
    BY <1>5, EnvironmentAssumption DEF SlaveLoad
  <2>2. miso' \in Bit
    BY <1>5, <2>1, WordBits, MasterAssumption DEF SlaveLoad, TypeOK
  <2>3. QED
    BY <1>5, <2>1, <2>2 DEF SlaveLoad, TypeOK, inputs, history
<1>6. CASE Reset
  BY <1>6, ResetRegType, SlaveType DEF Reset, TypeOK, inputs
<1>7. CASE UNCHANGED vars
  BY <1>7 DEF vars, inputs, slave, history, TypeOK
<1>8. QED
  BY <1>1, <1>2, <1>3, <1>4, <1>5, <1>6, <1>7 DEF NextAny, TickAny

\* Spec is SpecAny with fewer steps: what holds of the second holds of the first.
LEMMA NextIsAny == [Next]_vars => [NextAny]_vars
BY DEF Next, NextAny, Tick, TickAny, WriteDelayBetween

\* Every register stays in its range, even when DELAY is rewritten at will.
THEOREM TypeCorrect == SpecAny => []TypeOK
BY InitType, NextType, PTL DEF SpecAny

THEOREM TypeCorrectSpec == Spec => []TypeOK
BY InitType, NextType, NextIsAny, PTL DEF Spec

-----------------------------------------------------------------------------
(* Frames, under any rewriting of DELAY.                                   *)

\* The registers after a clock edge, one by one.
LEMMA ClockFields ==
    ASSUME Clock
    PROVE  /\ m'.state = state_next(m, start)
           /\ m'.tx_buffer = tx_buffer_next(m, DELAY_CONSTANT, data_tx_in)
           /\ m'.rx_buffer = rx_buffer_next(m, DELAY_CONSTANT, miso)
           /\ m'.rx_data = rx_data_next(m)
           /\ m'.delay_counter = delay_counter_next(m)
           /\ m'.div_counter = div_counter_next(m, DELAY_CONSTANT)
           /\ m'.div_counter_2 = div_counter_2_next(m, DELAY_CONSTANT)
           /\ m'.bits_counter = bits_counter_next(m, DELAY_CONSTANT)
           /\ m'.spi_cs = spi_cs_next(m)
           /\ m'.spi_clk = spi_clk_next(m, DELAY_CONSTANT)
BY DEF Clock, NextReg

\* The successor of each state, in the form the SMT solver takes.
LEMMA StateNext ==
    ASSUME m.state \in state_type
    PROVE  /\ m.state = "idle" => state_next(m, start) \in {"idle", "init_tx_state"}
           /\ m.state = "init_tx_state" => state_next(m, start) = "communication_state"
           /\ m.state = "communication_state" =>
                state_next(m, start) = IF frame_sent(m) THEN "store_rx_state"
                                       ELSE "communication_state"
           /\ m.state = "store_rx_state" => state_next(m, start) = "end_state"
           /\ m.state = "end_state" => state_next(m, start) \in {"end_state", "idle"}
BY DEF state_type, state_next, after_end

LEMMA FrameInit == Init => FrameInv
BY FrameReset DEF Init, FrameInv, Frame, ResetReg

\* The registers after a clock edge, as one record.
LEMMA ClockRegisters ==
    ASSUME TypeOK, Clock
    PROVE  /\ m \in Registers /\ m' \in Registers
           /\ m' = NextReg(m, start, data_tx_in, DELAY_CONSTANT, miso)
           /\ SclkEdge <=> Edge(m, DELAY_CONSTANT)
           /\ edges' = IF m.state # "communication_state" THEN 0
                       ELSE IF SclkEdge THEN edges + 1 ELSE edges
<1>1. /\ m \in Registers /\ m' \in Registers
      /\ m' = NextReg(m, start, data_tx_in, DELAY_CONSTANT, miso)
  BY ClockType DEF TypeOK, Clock
<1>2. /\ m'.spi_clk = IF Edge(m, DELAY_CONSTANT) THEN 1 - m.spi_clk ELSE m.spi_clk
      /\ m'.spi_cs = IF m.state = "communication_state" THEN 1 ELSE 0
  BY <1>1, CountersStep
<1>3. SclkEdge <=> Edge(m, DELAY_CONSTANT)
  BY <1>1, <1>2, RegisterRanges DEF SclkEdge
<1>4. QED
  BY <1>1, <1>2, <1>3 DEF Clock, SlaveReact

LEMMA FrameClock ==
    ASSUME CLK_DIV > 1, TypeOK, FrameInv, Clock
    PROVE  FrameInv'
<1>1. Frame(m')
  BY FrameStep, ClockRegisters DEF FrameInv, Frame
<1>2. m'.bits_counter = edges'
  BY CountersStep, ClockRegisters DEF FrameInv, Frame
<1>3. QED
  BY <1>1, <1>2 DEF FrameInv, Frame

LEMMA FrameNext ==
    ASSUME CLK_DIV > 1, TypeOK, FrameInv, [NextAny]_vars
    PROVE  FrameInv'
<1>1. CASE TickAny
  BY <1>1, FrameClock DEF TickAny, ClockOnly, WriteStart, WriteTx, WriteDelay
<1>2. CASE SlaveLoad
  BY <1>2 DEF SlaveLoad, FrameInv, Frame, InFrame, MidFrame
<1>3. CASE Reset
  <2>1. m' = ResetReg /\ edges' = 0
    BY <1>3 DEF Reset, SlaveReact, ResetReg
  <2>2. QED
    BY <2>1, MasterAssumption DEF FrameInv, Frame, InFrame, MidFrame, ResetReg
<1>4. CASE UNCHANGED vars
  BY <1>4 DEF vars, slave, FrameInv, Frame, InFrame, MidFrame
<1>5. QED
  BY <1>1, <1>2, <1>3, <1>4 DEF NextAny

\* With a divider of at least two, the slave sees whole frames of 2 * WORD
\* edges and SCLK rests at cpol between them, even if software rewrites DELAY
\* in the middle of a transfer and resets come at any time.
THEOREM FrameInvariant == CLK_DIV > 1 => (SpecAny => []FrameInv)
<1> SUFFICES ASSUME CLK_DIV > 1 PROVE SpecAny => []FrameInv
  OBVIOUS
<1>1. Init => FrameInv
  BY FrameInit
<1>2. TypeOK /\ FrameInv /\ [NextAny]_vars => FrameInv'
  BY FrameNext
<1>3. QED
  BY <1>1, <1>2, TypeCorrect, PTL DEF SpecAny

THEOREM SclkRestsAlways == CLK_DIV > 1 => (SpecAny => []SclkRests)
<1> SUFFICES ASSUME CLK_DIV > 1 PROVE SpecAny => []SclkRests
  OBVIOUS
<1>1. FrameInv => SclkRests
  BY DEF FrameInv, Frame, SclkRests
<1>2. QED
  BY <1>1, FrameInvariant, PTL

THEOREM FrameWholeAlways == CLK_DIV > 1 => (SpecAny => FrameWhole)
<1> SUFFICES ASSUME CLK_DIV > 1 PROVE SpecAny => FrameWhole
  OBVIOUS
<1> DEFINE Whole == m.spi_cs = 1 /\ m'.spi_cs = 0 /\ m' # ResetReg
                       => edges = 2 * WORD
<1>1. TypeOK /\ FrameInv /\ [NextAny]_vars => [Whole]_vars
  <2> SUFFICES ASSUME TypeOK, FrameInv, NextAny,
                      m.spi_cs = 1, m'.spi_cs = 0, m' # ResetReg
               PROVE  edges = 2 * WORD
    OBVIOUS
  <2>1. InFrame
    BY DEF FrameInv, Frame, InFrame
  <2>2. CASE Clock
    <3>1. m.state # "communication_state"
      BY <2>2, ClockFields DEF spi_cs_next
    <3>2. QED
      BY <2>1, <3>1 DEF InFrame, MidFrame, FrameInv, Frame
  <2>3. CASE SlaveLoad \/ Reset
    BY <2>3 DEF SlaveLoad, Reset
  <2>4. QED
    BY <2>2, <2>3 DEF NextAny, TickAny, ClockOnly, WriteStart, WriteTx, WriteDelay
<1>2. QED
  BY <1>1, TypeCorrect, FrameInvariant, PTL DEF SpecAny, FrameWhole

-----------------------------------------------------------------------------
(* Timing, when DELAY is written between transfers and is wide enough.     *)

\* What a clock edge does to the counters and to the count of edges.
LEMMA CountersNext ==
    ASSUME CLK_DIV > 1, TypeOK, FrameInv, Clock
    PROVE  /\ m'.delay_counter = IF m.state = "communication_state"
                                 THEN m.delay_counter + 1 ELSE 0
           /\ m'.div_counter = IF m.delay_counter > DELAY_CONSTANT
                               THEN CountTo(m.div_counter, CLK_DIV - 1) ELSE 0
           /\ m'.spi_cs = IF m.state = "communication_state" THEN 1 ELSE 0
           /\ edges' = IF m.state # "communication_state" THEN 0
                       ELSE IF start_sclk(m, DELAY_CONSTANT) THEN edges + 1
                       ELSE edges
           /\ SclkEdge <=> /\ m.state = "communication_state"
                           /\ start_sclk(m, DELAY_CONSTANT)
BY ClockRegisters, CountersStep DEF Edge

LEMMA DelayRange ==
    ASSUME DelaysWide, TypeOK
    PROVE  DELAY_CONSTANT \in Nat /\ Wide(DELAY_CONSTANT)
BY EnvironmentAssumption DEF DelaysWide, TypeOK

LEMMA TimingInit == Init => TimingInv
BY TimingReset DEF Init, TimingInv, Timing

LEMMA TimingClock ==
    ASSUME CLK_DIV > 1, DelaysWide, TypeOK, FrameInv, TimingInv, Clock,
           DELAY_CONSTANT' = DELAY_CONSTANT \/ m.state \in {"idle", "end_state"}
    PROVE  TimingInv'
<1>1. Timing(m', DELAY_CONSTANT')
  BY TimingStep, ClockRegisters, DelayRange DEF FrameInv, Frame, TimingInv, Timing
<1>2. QED
  BY <1>1 DEF TimingInv, Timing

\* What the invariant says, with the edges that the slave counts.
LEMMA TimingParts ==
    ASSUME FrameInv, TimingInv
    PROVE  /\ ~InFrame => m.delay_counter = 0
           /\ m.state = "communication_state" => (m.spi_cs = 1 <=> m.delay_counter > 0)
           /\ InFrame /\ m.delay_counter <= DELAY_CONSTANT => edges = 0
           /\ InFrame /\ m.delay_counter > DELAY_CONSTANT /\ edges = 0 =>
                    m.delay_counter = DELAY_CONSTANT + 1
BY DEF FrameInv, Frame, TimingInv, Timing, InFrame, MidFrame

LEMMA TimingNext ==
    ASSUME CLK_DIV > 1, DelaysWide, TypeOK, FrameInv, TimingInv, [Next]_vars
    PROVE  TimingInv'
<1>1. CASE Tick
  BY <1>1, TimingClock
     DEF Tick, ClockOnly, WriteStart, WriteTx, WriteDelayBetween, WriteDelay, inputs
<1>2. CASE SlaveLoad
  BY <1>2 DEF SlaveLoad, inputs, TimingInv, Timing, InFrame, MidFrame, Odd, Ahead
<1>3. CASE Reset
  BY <1>3 DEF Reset, ResetReg, TimingInv, Timing, InFrame, MidFrame
<1>4. CASE UNCHANGED vars
  BY <1>4 DEF vars, inputs, slave, TimingInv, Timing, InFrame, MidFrame, Odd, Ahead
<1>5. QED
  BY <1>1, <1>2, <1>3, <1>4 DEF Next

\* The premise of the theorems about words and timing: a divider of at least
\* two, and delays that are wide enough.
THEOREM TimingInvariant == CLK_DIV > 1 /\ DelaysWide => (Spec => []TimingInv)
<1> SUFFICES ASSUME CLK_DIV > 1, DelaysWide PROVE Spec => []TimingInv
  OBVIOUS
<1>1. Init => TypeOK /\ FrameInv /\ TimingInv
  BY InitType, FrameInit, TimingInit
<1>2. TypeOK /\ FrameInv /\ TimingInv /\ [Next]_vars
         => (TypeOK /\ FrameInv /\ TimingInv)'
  BY NextType, FrameNext, TimingNext, NextIsAny
<1>3. QED
  BY <1>1, <1>2, PTL DEF Spec

\* When the divider makes an edge: the delay is over and the divider is at 0.
LEMMA EdgeWhen ==
    ASSUME DelaysWide, TypeOK
    PROVE  start_sclk(m, DELAY_CONSTANT) <=> /\ m.delay_counter > DELAY_CONSTANT
                                             /\ m.div_counter = 0
BY EdgeWhenever, DelayRange DEF TypeOK

LEMMA GapClock ==
    ASSUME CLK_DIV > 1, DelaysWide, TypeOK, FrameInv, TimingInv, GapInv, Clock
    PROVE  GapInv'
<1>1. SUFFICES ASSUME m'.spi_cs = 1, m'.state = "communication_state"
               PROVE  gap' = IF edges' = 0 THEN m'.delay_counter - 1
                             ELSE IF m'.div_counter = 0 THEN CLK_DIV - 1
                             ELSE m'.div_counter - 1
  BY DEF GapInv
<1>2. /\ m.delay_counter \in Nat /\ m.spi_cs \in Bit /\ edges \in Nat
      /\ m.div_counter \in 0..(CLK_DIV - 1) /\ gap \in Nat
      /\ CLK_DIV \in Nat /\ DELAY_CONSTANT \in Nat
  BY MasterAssumption, DelayRange DEF TypeOK, Registers
<1>3. m.state = "communication_state" /\ InFrame
  BY <1>1, CountersNext DEF InFrame, MidFrame
<1>4. gap' = IF m.spi_cs = 0 \/ SclkEdge THEN 0 ELSE gap + 1
  BY DEF Clock, Record
<1>5. CASE m.spi_cs = 0
  <2>1. m.delay_counter = 0 /\ edges = 0
    BY <1>2, <1>3, <1>5 DEF TimingInv, Timing, FrameInv, Frame
  <2>2. edges' = 0 /\ m'.delay_counter = 1
    BY <1>2, <1>3, <2>1, CountersNext, EdgeWhen
  <2>3. QED
    BY <1>4, <1>5, <2>2
<1>6. CASE m.spi_cs = 1 /\ SclkEdge
  <2>1. m.delay_counter > DELAY_CONSTANT /\ m.div_counter = 0
    BY <1>6, CountersNext, EdgeWhen
  <2>2. edges' = edges + 1 /\ m'.div_counter = 1
    BY <1>2, <1>3, <1>6, <2>1, CountersNext DEF CountTo
  <2>3. QED
    BY <1>2, <1>4, <1>6, <2>2
<1>7. CASE m.spi_cs = 1 /\ ~SclkEdge
  <2>1. /\ gap' = gap + 1 /\ edges' = edges
        /\ m'.delay_counter = m.delay_counter + 1
    BY <1>3, <1>4, <1>7, CountersNext
  <2>2. CASE edges = 0
    BY <1>2, <1>3, <1>7, <2>1, <2>2 DEF GapInv
  <2>3. CASE edges # 0
    <3>1. m.delay_counter > DELAY_CONSTANT
      BY <1>2, <1>3, <2>3, TimingParts
    <3>2. m.div_counter # 0
      BY <1>3, <1>7, <3>1, CountersNext, EdgeWhen
    <3>3. m'.div_counter = CountTo(m.div_counter, CLK_DIV - 1)
      BY <3>1, CountersNext
    <3>4. gap = m.div_counter - 1
      BY <1>3, <1>7, <2>3, <3>2 DEF GapInv
    <3>5. QED
      BY <1>2, <2>1, <2>3, <3>2, <3>3, <3>4 DEF CountTo
  <2>4. QED
    BY <2>2, <2>3
<1>8. QED
  BY <1>2, <1>5, <1>6, <1>7 DEF Bit

LEMMA GapNext ==
    ASSUME CLK_DIV > 1, DelaysWide, TypeOK, FrameInv, TimingInv, GapInv, [Next]_vars
    PROVE  GapInv'
<1>1. CASE Tick
  BY <1>1, GapClock
     DEF Tick, ClockOnly, WriteStart, WriteTx, WriteDelayBetween, WriteDelay
<1>2. CASE SlaveLoad
  BY <1>2 DEF SlaveLoad, history, GapInv
<1>3. CASE Reset
  BY <1>3 DEF Reset, ResetReg, GapInv
<1>4. CASE UNCHANGED vars
  BY <1>4 DEF vars, slave, history, GapInv
<1>5. QED
  BY <1>1, <1>2, <1>3, <1>4 DEF Next

\* The first edge comes DELAY_CONSTANT + 1 cycles after CS and the others
\* CLK_DIV cycles apart, whatever the divider, the delay and the phase.
THEOREM SclkTimingAlways == CLK_DIV > 1 /\ DelaysWide => (Spec => SclkTiming)
<1> SUFFICES ASSUME CLK_DIV > 1, DelaysWide PROVE Spec => SclkTiming
  OBVIOUS
<1> DEFINE IInv == TypeOK /\ FrameInv /\ TimingInv /\ GapInv
           Spaced == SclkEdge /\ m'.spi_cs = 1 =>
                       gap = IF edges = 0 THEN DELAY_CONSTANT ELSE CLK_DIV - 1
<1>1. Init => IInv
  BY InitType, FrameInit, TimingInit DEF Init, GapInv, ResetReg
<1>2. IInv /\ [Next]_vars => IInv'
  BY NextType, FrameNext, TimingNext, GapNext, NextIsAny
<1>3. IInv /\ [Next]_vars => [Spaced]_vars
  <2> SUFFICES ASSUME IInv, Next, SclkEdge, m'.spi_cs = 1
               PROVE  gap = IF edges = 0 THEN DELAY_CONSTANT ELSE CLK_DIV - 1
    OBVIOUS
  <2>1. CASE Clock
    <3>1. /\ m.state = "communication_state"
          /\ m.delay_counter > DELAY_CONSTANT /\ m.div_counter = 0
      BY <2>1, CountersNext, EdgeWhen
    <3>2. m.delay_counter \in Nat /\ DELAY_CONSTANT \in Nat /\ m.spi_cs \in Bit
      BY DelayRange DEF TypeOK, Registers
    <3>3. m.spi_cs = 1 /\ InFrame
      BY <3>1, <3>2 DEF TimingInv, Timing, InFrame, MidFrame
    <3>4. edges = 0 => m.delay_counter = DELAY_CONSTANT + 1
      BY <3>1, <3>3, TimingParts
    <3>5. QED
      BY <3>1, <3>2, <3>3, <3>4 DEF GapInv
  <2>2. CASE SlaveLoad \/ Reset
    BY <2>2 DEF SlaveLoad, Reset, ResetReg, SclkEdge
  <2>3. QED
    BY <2>1, <2>2 DEF Next, Tick, ClockOnly, WriteStart, WriteTx,
                      WriteDelayBetween, WriteDelay
<1>4. QED
  BY <1>1, <1>2, <1>3, PTL DEF Spec, SclkTiming

-----------------------------------------------------------------------------
(* The word received.                                                      *)

\* The master shifts on the edge its phase names, and on no other cycle of
\* the communication state.
LEMMA ShiftWhen ==
    ASSUME CLK_DIV > 1, DelaysWide, TypeOK, FrameInv, TimingInv, Clock,
           m.state = "communication_state"
    PROVE  en_tx(m, DELAY_CONSTANT) <=> SclkEdge /\ (Odd <=> cpha = 0)
BY ShiftPulse, ClockRegisters, DelayRange DEF TimingInv, Timing, FrameInv, Frame, Odd, OddEdge

\* What a clock edge does to the two shift registers and to MISO.
LEMMA DataNext ==
    ASSUME CLK_DIV > 1, DelaysWide, TypeOK, FrameInv, TimingInv, Clock,
           m.state = "communication_state"
    PROVE  /\ m'.rx_buffer = IF SclkEdge /\ (Odd <=> cpha = 0)
                             THEN ShiftIn(m.rx_buffer, miso) ELSE m.rx_buffer
           /\ IF SclkEdge /\ (Odd <=> SLAVE_SAMPLE = "trailing")
              THEN \E b : spidat' = ShiftIn(spidat, b)
              ELSE spidat' = spidat
           /\ miso' = IF SLAVE_SAMPLE = "leading" /\ edges' = 0 THEN spidat'[1]
                      ELSE IF SclkEdge /\ (Odd <=> SLAVE_SAMPLE = "leading")
                      THEN spidat[1] ELSE miso
           /\ answer' = IF m.spi_cs = 1 /\ edges = 0 THEN spidat ELSE answer
<1>1. m'.rx_buffer = IF SclkEdge /\ (Odd <=> cpha = 0)
                     THEN ShiftIn(m.rx_buffer, miso) ELSE m.rx_buffer
  BY ShiftWhen, ClockFields DEF rx_buffer_next, load_tx_buffer
<1>2. /\ LeadingEdge <=> SclkEdge /\ ~Odd
      /\ TrailingEdge <=> SclkEdge /\ Odd
  <2>1. /\ m.spi_clk \in Bit /\ m'.spi_clk \in Bit /\ edges \in Nat
    BY ClockType DEF TypeOK, Registers
  <2>2. m.spi_clk = cpol <=> ~Odd
    BY <2>1 DEF FrameInv, Frame, Odd
  <2>3. QED
    BY <2>1, <2>2, MasterAssumption DEF SclkEdge, LeadingEdge, TrailingEdge, Bit
<1>3. /\ SampleEdge <=> SclkEdge /\ (Odd <=> SLAVE_SAMPLE = "trailing")
      /\ DriveEdge <=> SclkEdge /\ (Odd <=> SLAVE_SAMPLE = "leading")
  <2>1. CASE SLAVE_SAMPLE = "leading"
    BY <1>2, <2>1 DEF SampleEdge, DriveEdge
  <2>2. CASE SLAVE_SAMPLE = "trailing"
    BY <1>2, <2>2 DEF SampleEdge, DriveEdge
  <2>3. QED
    BY <2>1, <2>2, EnvironmentAssumption
<1>4. m'.spi_cs = 1
  BY CountersNext
<1>5. /\ IF SampleEdge THEN \E b : spidat' = ShiftIn(spidat, b)
                       ELSE spidat' = spidat
      /\ miso' = IF SLAVE_SAMPLE = "leading" /\ edges' = 0 THEN spidat'[1]
                 ELSE IF DriveEdge THEN spidat[1] ELSE miso
      /\ answer' = IF m.spi_cs = 1 /\ edges = 0 THEN spidat ELSE answer
  BY <1>4 DEF Clock, SlaveReact, SlaveSample, SlaveDrive, Record
<1>6. QED
  BY <1>1, <1>3, <1>5

\* One edge of SCLK moves one bit: on the even ones the slave's bit number
\* edges / 2 + 1 is on the line, and it is taken there or on the next edge.
LEMMA DataEdge ==
    ASSUME CLK_DIV > 1, DelaysWide, PhasesFit, TypeOK, FrameInv, TimingInv, DataInv,
           Clock, m.state = "communication_state", SclkEdge
    PROVE  DataInv'
<1> DEFINE a == answer'
<1>1. /\ WORD \in Nat \ {0} /\ edges \in Nat /\ m.spi_cs \in Bit
      /\ m.delay_counter \in Nat /\ DELAY_CONSTANT \in Nat
  BY MasterAssumption, DelayRange DEF TypeOK, Registers
<1>2. m.delay_counter > DELAY_CONSTANT /\ m.div_counter = 0
  BY CountersNext, EdgeWhen
<1>3. m.spi_cs = 1
  BY <1>1, <1>2 DEF TimingInv, Timing, Bit
<1>4. edges < 2 * WORD /\ edges' = edges + 1
  BY <1>1, <1>2, CountersNext DEF FrameInv, Frame
<1>5. a = IF edges = 0 THEN spidat ELSE answer
  BY <1>3, DataNext
<1>6. Received(m.rx_buffer, a, Shifted)
  <2>1. CASE edges = 0
    <3>1. Shifted = 0
      BY <2>1, MasterAssumption DEF Shifted, BitsIn
    <3>2. QED
      BY <3>1 DEF Received
  <2>2. CASE edges # 0
    BY <1>1, <1>5, <2>2 DEF DataInv
  <2>3. QED
    BY <2>1, <2>2
<1>7. Remaining(spidat, a, Sent)
  <2>1. CASE edges = 0
    <3>1. Sent = 0
      BY <2>1 DEF Sent
    <3>2. QED
      BY <1>1, <1>5, <2>1, <3>1 DEF Remaining
  <2>2. CASE edges # 0
    BY <1>1, <1>5, <2>2 DEF DataInv
  <2>3. QED
    BY <2>1, <2>2
<1>8. SLAVE_SAMPLE = "leading" \/ Odd => miso = a[edges \div 2 + 1]
  <2>1. CASE edges = 0
    BY <1>5, <2>1 DEF DataInv, Odd
  <2>2. CASE edges # 0
    BY <1>1, <1>4, <1>5, <2>2 DEF DataInv
  <2>3. QED
    BY <2>1, <2>2
<1>9. PICK p \in Nat : edges = 2 * p \/ edges = 2 * p + 1
  <2>1. /\ edges \div 2 \in Nat
        /\ edges = 2 * (edges \div 2) \/ edges = 2 * (edges \div 2) + 1
    BY <1>1
  <2>2. QED
    BY <2>1
<1>10. p \in 0..(WORD - 1) /\ edges \div 2 = p
  BY <1>1, <1>4, <1>9
<1>11. /\ Odd => /\ ~Odd'
                 /\ (edges + 1) \div 2 = p + 1 /\ edges' \div 2 = p + 1
                 /\ (edges' + 1) \div 2 = p + 1
       /\ ~Odd => /\ Odd'
                  /\ (edges + 1) \div 2 = p /\ edges' \div 2 = p
                  /\ (edges' + 1) \div 2 = p + 1
  <2>1. CASE edges = 2 * p
    <3>1. edges' = 2 * p + 1 /\ edges' \in Nat
      BY <1>1, <1>4, <2>1
    <3>2. QED
      BY <1>1, <2>1, <3>1, Halves DEF Odd
  <2>2. CASE edges = 2 * p + 1
    <3>1. edges' = 2 * (p + 1) /\ edges' \in Nat /\ p + 1 \in Nat
      BY <1>1, <1>4, <2>2
    <3>2. QED
      BY <1>1, <2>2, <3>1, Halves DEF Odd
  <2>3. QED
    BY <1>9, <2>1, <2>2
<1>12. Received(m'.rx_buffer, a, Shifted')
  <2>1. CASE Odd <=> cpha = 0
    <3>1. m'.rx_buffer = ShiftIn(m.rx_buffer, miso)
      BY <2>1, DataNext
    <3>2. Shifted = p /\ Shifted' = p + 1
      BY <1>10, <1>11, <2>1 DEF Shifted, BitsIn
    <3>3. miso = a[p + 1]
      BY <1>8, <1>10, <2>1 DEF PhasesFit
    <3>4. Received(m.rx_buffer, a, p)
      BY <1>6, <3>2
    <3>5. QED
      BY <1>10, <3>1, <3>2, <3>3, <3>4, ShiftRx
  <2>2. CASE ~(Odd <=> cpha = 0)
    <3>1. m'.rx_buffer = m.rx_buffer
      BY <2>2, DataNext
    <3>2. Shifted' = Shifted
      BY <1>10, <1>11, <2>2 DEF Shifted, BitsIn
    <3>3. QED
      BY <1>6, <3>1, <3>2
  <2>3. QED
    BY <2>1, <2>2
<1>13. Remaining(spidat', a, Sent')
  <2>1. CASE Odd <=> SLAVE_SAMPLE = "trailing"
    <3>1. PICK b : spidat' = ShiftIn(spidat, b)
      BY <2>1, DataNext
    <3>2. Sent = p /\ Sent' = p + 1
      BY <1>10, <1>11, <2>1, EnvironmentAssumption DEF Sent
    <3>3. Remaining(spidat, a, p)
      BY <1>7, <3>2
    <3>4. QED
      BY <3>1, <3>2, <3>3, ShiftTx
  <2>2. CASE ~(Odd <=> SLAVE_SAMPLE = "trailing")
    <3>1. spidat' = spidat
      BY <2>2, DataNext
    <3>2. Sent' = Sent
      BY <1>10, <1>11, <2>2, EnvironmentAssumption DEF Sent
    <3>3. QED
      BY <1>7, <3>1, <3>2
  <2>3. QED
    BY <2>1, <2>2
<1>14. edges' < 2 * WORD /\ (SLAVE_SAMPLE = "leading" \/ Odd')
          => miso' = a[edges' \div 2 + 1]
  <2> SUFFICES ASSUME edges' < 2 * WORD, SLAVE_SAMPLE = "leading" \/ Odd'
               PROVE  miso' = a[edges' \div 2 + 1]
    OBVIOUS
  <2>1. edges' # 0
    BY <1>1, <1>4
  <2>2. CASE Odd <=> SLAVE_SAMPLE = "leading"
    <3>1. miso' = spidat[1]
      BY <2>1, <2>2, DataNext
    <3>2. Sent = edges' \div 2
      BY <1>10, <1>11, <2>2, EnvironmentAssumption DEF Sent
    <3>3. edges' \div 2 < WORD
      BY <1>1, <1>4, <1>10, <1>11
    <3>4. WORD - Sent >= 1 /\ 1 \in 1..(WORD - Sent) /\ 1 + Sent = edges' \div 2 + 1
      BY <1>1, <1>4, <3>2, <3>3
    <3>5. spidat[1] = a[1 + Sent]
      BY <1>7, <3>4 DEF Remaining
    <3>6. QED
      BY <3>1, <3>4, <3>5
  <2>3. CASE ~(Odd <=> SLAVE_SAMPLE = "leading")
    <3>1. miso' = miso
      BY <2>1, <2>3, DataNext
    <3>2. SLAVE_SAMPLE = "leading" /\ ~Odd
      BY <1>11, <2>3, EnvironmentAssumption
    <3>3. edges' \div 2 = edges \div 2
      BY <1>10, <1>11, <3>2
    <3>4. QED
      BY <1>8, <3>1, <3>2, <3>3
  <2>4. QED
    BY <2>2, <2>3
<1>15. m'.state # "end_state" /\ edges' # 0
  BY <1>1, <1>4, ClockFields, StateNext DEF TypeOK, Registers
<1>16. QED
  BY <1>12, <1>13, <1>14, <1>15 DEF DataInv

LEMMA DataClock ==
    ASSUME CLK_DIV > 1, DelaysWide, PhasesFit, TypeOK, FrameInv, TimingInv, DataInv,
           Clock
    PROVE  DataInv'
<1>1. /\ m.state \in state_type /\ WORD \in Nat \ {0} /\ edges \in Nat
      /\ m.rx_buffer \in Word /\ answer \in Word
  BY MasterAssumption DEF TypeOK, Registers
<1>2. CASE m.state = "communication_state" /\ SclkEdge
  BY <1>2, DataEdge
<1>3. CASE m.state = "communication_state" /\ ~SclkEdge
  <2>1. m'.state # "end_state"
    BY <1>3, ClockFields, StateNext, <1>1
  <2>2. edges' = edges
    BY <1>3, CountersNext
  <2>3. m'.rx_buffer = m.rx_buffer /\ spidat' = spidat
    BY <1>3, DataNext
  <2>4. miso' = IF SLAVE_SAMPLE = "leading" /\ edges = 0 THEN spidat[1] ELSE miso
    BY <1>3, <2>2, <2>3, DataNext
  <2>5. edges > 0 => answer' = answer
    BY <1>1, <1>3, DataNext
  <2>6. QED
    BY <1>1, <2>1, <2>2, <2>3, <2>4, <2>5 DEF DataInv, Shifted, BitsIn, Sent, Odd
<1>4. CASE m.state # "communication_state"
  <2>1. edges' = 0
    BY <1>4, CountersNext
  <2>2. SLAVE_SAMPLE = "leading" => miso' = spidat'[1]
    BY <2>1 DEF Clock, SlaveReact, SlaveDrive
  <2>3. CASE m.state = "store_rx_state"
    <3>1. edges = 2 * WORD /\ m.spi_cs = 1
      BY <2>3 DEF FrameInv, Frame
    <3>2. Shifted = WORD
      BY <1>1, <3>1, Halves DEF Shifted, BitsIn
    <3>3. Received(m.rx_buffer, answer, WORD)
      BY <1>1, <3>1, <3>2 DEF DataInv
    <3>4. \A i \in 1..WORD : m.rx_buffer[i] = answer[i]
      BY <1>1, <3>3 DEF Received
    <3>5. m.rx_buffer = answer
      BY <1>1, <3>4 DEF Word
    <3>6. m'.rx_data = m.rx_buffer /\ answer' = answer
      BY <1>1, <2>3, <3>1, ClockFields DEF rx_data_next, Clock, Record
    <3>7. QED
      BY <2>1, <2>2, <3>5, <3>6 DEF DataInv
  <2>4. CASE m.state # "store_rx_state"
    <3>1. m'.state = "end_state" => m.state = "end_state"
      BY <1>1, <1>4, <2>4, ClockFields, StateNext DEF state_type
    <3>2. m.spi_cs = 0
      BY <1>4, <2>4 DEF FrameInv, Frame, InFrame, MidFrame
    <3>3. m'.rx_data = m.rx_data /\ answer' = answer
      BY <2>4, <3>2, ClockFields DEF rx_data_next, Clock, Record
    <3>4. QED
      BY <2>1, <2>2, <3>1, <3>3 DEF DataInv
  <2>5. QED
    BY <2>3, <2>4
<1>5. QED
  BY <1>2, <1>3, <1>4

LEMMA DataInvNext ==
    ASSUME CLK_DIV > 1, DelaysWide, PhasesFit, TypeOK, FrameInv, TimingInv, DataInv,
           [Next]_vars
    PROVE  DataInv'
<1>1. CASE Tick
  BY <1>1, DataClock
     DEF Tick, ClockOnly, WriteStart, WriteTx, WriteDelayBetween, WriteDelay
<1>2. CASE SlaveLoad
  BY <1>2 DEF SlaveLoad, history, DataInv
<1>3. CASE Reset
  <2>1. m' = ResetReg /\ edges' = 0
    BY <1>3 DEF Reset, SlaveReact, ResetReg
  <2>2. SLAVE_SAMPLE = "leading" => miso' = spidat'[1]
    BY <1>3, <2>1 DEF Reset, SlaveReact, SlaveDrive
  <2>3. QED
    BY <2>1, <2>2 DEF DataInv, ResetReg
<1>4. CASE UNCHANGED vars
  BY <1>4 DEF vars, slave, history, DataInv, Shifted, BitsIn, Sent, Odd
<1>5. QED
  BY <1>1, <1>2, <1>3, <1>4 DEF Next

\* The master hands software exactly the word the slave held at the first edge
\* of SCLK: for every word length, every divider of at least two, every delay
\* wide enough and every pair of phases that fit, after any history of
\* transfers, resets, register writes and loads of the slave.
THEOREM WordReceivedAlways ==
    CLK_DIV > 1 /\ DelaysWide /\ PhasesFit => (Spec => []WordReceived)
<1> SUFFICES ASSUME CLK_DIV > 1, DelaysWide, PhasesFit
             PROVE  Spec => []WordReceived
  OBVIOUS
<1> DEFINE IInv == TypeOK /\ FrameInv /\ TimingInv /\ DataInv
<1>1. Init => IInv
  BY InitType, FrameInit, TimingInit DEF Init, DataInv, ResetReg
<1>2. IInv /\ [Next]_vars => IInv'
  BY NextType, FrameNext, TimingNext, DataInvNext, NextIsAny
<1>3. IInv => WordReceived
  BY DEF DataInv, WordReceived
<1>4. QED
  BY <1>1, <1>2, <1>3, PTL DEF Spec

-----------------------------------------------------------------------------
(* The word delivered, when the master shifts on trailing edges and the    *)
(* slave samples on leading ones.                                          *)

\* On a leading edge the slave takes the bit on MOSI, which does not move
\* there; on a trailing one the master shifts it.
LEMMA OutNext ==
    ASSUME CLK_DIV > 1, DelaysWide, cpha = 0, SLAVE_SAMPLE = "leading",
           TypeOK, FrameInv, TimingInv, Clock, m.state = "communication_state"
    PROVE  /\ m'.tx_buffer = IF SclkEdge /\ Odd THEN ShiftIn(m.tx_buffer, 0)
                                                ELSE m.tx_buffer
           /\ spidat' = IF SclkEdge /\ ~Odd THEN ShiftIn(spidat, m.tx_buffer[1])
                                            ELSE spidat
           /\ sent' = sent
<1>1. m'.tx_buffer = IF SclkEdge /\ Odd THEN ShiftIn(m.tx_buffer, 0)
                                        ELSE m.tx_buffer
  BY ShiftWhen, ClockFields DEF tx_buffer_next, load_tx_buffer
<1>2. SampleEdge <=> SclkEdge /\ ~Odd
  <2>1. m.spi_clk \in Bit /\ m'.spi_clk \in Bit /\ edges \in Nat
    BY ClockType DEF TypeOK, Registers
  <2>2. m.spi_clk = cpol <=> ~Odd
    BY <2>1 DEF FrameInv, Frame, Odd
  <2>3. QED
    BY <2>1, <2>2, MasterAssumption DEF SampleEdge, SclkEdge, LeadingEdge, Bit
<1>3. m'.spi_cs = 1
  BY CountersNext
<1>4. CASE SclkEdge /\ ~Odd
  <2>1. PICK b \in {spi_mosi_out(m), spi_mosi_out(m')} : spidat' = ShiftIn(spidat, b)
    BY <1>2, <1>3, <1>4 DEF Clock, SlaveReact, SlaveSample
  <2>2. b = m.tx_buffer[1]
    BY <1>1, <1>4 DEF spi_mosi_out
  <2>3. QED
    BY <1>1, <1>4, <2>1, <2>2 DEF Clock, Record, load_tx_buffer
<1>5. CASE ~(SclkEdge /\ ~Odd)
  BY <1>1, <1>2, <1>3, <1>5 DEF Clock, SlaveReact, Record, load_tx_buffer
<1>6. QED
  BY <1>4, <1>5

LEMMA DeliverEdge ==
    ASSUME CLK_DIV > 1, DelaysWide, cpha = 0, SLAVE_SAMPLE = "leading",
           TypeOK, FrameInv, TimingInv, DeliverInv,
           Clock, m.state = "communication_state", SclkEdge
    PROVE  DeliverInv'
<1>1. WORD \in Nat \ {0} /\ edges \in Nat /\ InFrame
  BY MasterAssumption DEF TypeOK, Registers, InFrame, MidFrame
<1>2. edges < 2 * WORD /\ edges' = edges + 1
  BY <1>1, CountersNext, EdgeWhen DEF FrameInv, Frame
<1>3. edges \div 2 \in Nat /\ (edges = 2 * (edges \div 2)
                                 \/ edges = 2 * (edges \div 2) + 1)
  BY <1>1
<1>4. PICK p \in Nat : edges = 2 * p \/ edges = 2 * p + 1
  BY <1>3
<1>5. CASE edges = 2 * p
  <2>1. /\ ~Odd /\ p \in 0..(WORD - 1)
        /\ edges \div 2 = p /\ (edges + 1) \div 2 = p
    BY <1>1, <1>2, <1>5, Halves DEF Odd
  <2>2. edges' = 2 * p + 1 /\ edges' \in Nat
    BY <1>1, <1>2, <1>5
  <2>3. edges' \div 2 = p /\ (edges' + 1) \div 2 = p + 1
    BY <2>2, Halves
  <2>4. /\ m'.tx_buffer = m.tx_buffer /\ sent' = sent
        /\ spidat' = ShiftIn(spidat, m.tx_buffer[1])
    BY <2>1, OutNext
  <2>5. Remaining(m.tx_buffer, sent, p)
    BY <1>1, <2>1 DEF DeliverInv
  <2>6. m.tx_buffer[1] = sent[p + 1]
    <3>1. 1 \in 1..(WORD - p) /\ 1 + p = p + 1
      BY <1>1, <2>1
    <3>2. QED
      BY <2>5, <3>1 DEF Remaining
  <2>7. Received(spidat, sent, p)
    <3>1. CASE p = 0
      BY <3>1 DEF Received
    <3>2. CASE p # 0
      BY <1>1, <1>5, <2>1, <3>2 DEF DeliverInv
    <3>3. QED
      BY <3>1, <3>2
  <2>8. Received(spidat', sent, p + 1)
    BY <2>1, <2>4, <2>6, <2>7, ShiftRx
  <2>9. QED
    BY <2>3, <2>4, <2>5, <2>8 DEF DeliverInv
<1>6. CASE edges = 2 * p + 1
  <2>1. /\ Odd /\ edges \div 2 = p /\ (edges + 1) \div 2 = p + 1
    BY <1>1, <1>6, Halves DEF Odd
  <2>2. edges' = 2 * (p + 1) /\ edges' \in Nat /\ p + 1 \in Nat
    BY <1>1, <1>2, <1>6
  <2>3. edges' \div 2 = p + 1 /\ (edges' + 1) \div 2 = p + 1
    BY <2>2, Halves
  <2>4. /\ m'.tx_buffer = ShiftIn(m.tx_buffer, 0) /\ sent' = sent
        /\ spidat' = spidat
    BY <2>1, OutNext
  <2>5. Remaining(m.tx_buffer, sent, p)
    BY <1>1, <2>1 DEF DeliverInv
  <2>6. Remaining(m'.tx_buffer, sent, p + 1)
    BY <2>4, <2>5, ShiftTx
  <2>7. Received(spidat, sent, p + 1)
    BY <1>1, <1>6, <2>1 DEF DeliverInv
  <2>8. QED
    BY <2>3, <2>4, <2>6, <2>7 DEF DeliverInv
<1>7. QED
  BY <1>4, <1>5, <1>6

LEMMA DeliverClock ==
    ASSUME CLK_DIV > 1, DelaysWide, cpha = 0, SLAVE_SAMPLE = "leading",
           TypeOK, FrameInv, TimingInv, DeliverInv, Clock
    PROVE  DeliverInv'
<1>1. m.state \in state_type /\ WORD \in Nat \ {0} /\ edges \in Nat
  BY MasterAssumption DEF TypeOK, Registers
<1>2. CASE m.state = "communication_state" /\ SclkEdge
  BY <1>2, DeliverEdge
<1>3. CASE m.state = "communication_state" /\ ~SclkEdge
  <2>1. /\ m'.tx_buffer = m.tx_buffer /\ spidat' = spidat /\ sent' = sent
    BY <1>3, OutNext
  <2>2. edges' = edges
    BY <1>3, CountersNext
  <2>3. QED
    BY <1>3, <2>1, <2>2 DEF DeliverInv, InFrame, MidFrame
<1>4. CASE m.state = "init_tx_state"
  <2>1. edges' = 0
    BY <1>4, CountersNext
  <2>2. m'.tx_buffer = sent'
    BY <1>4, ClockFields DEF Clock, Record, tx_buffer_next, load_tx_buffer
  <2>3. edges' \div 2 = 0
    BY <2>1
  <2>4. Remaining(m'.tx_buffer, sent', 0)
    BY <1>1, <2>2 DEF Remaining
  <2>5. QED
    BY <2>1, <2>3, <2>4 DEF DeliverInv
<1>5. CASE m.state \in {"idle", "store_rx_state", "end_state"}
  <2>1. edges' = 0
    BY <1>5, CountersNext
  <2>2. ~InFrame'
    BY <1>1, <1>5, ClockFields, StateNext DEF InFrame, MidFrame
  <2>3. QED
    BY <2>1, <2>2 DEF DeliverInv
<1>6. QED
  BY <1>1, <1>2, <1>3, <1>4, <1>5 DEF state_type

LEMMA DeliverNext ==
    ASSUME CLK_DIV > 1, DelaysWide, cpha = 0, SLAVE_SAMPLE = "leading",
           TypeOK, FrameInv, TimingInv, DeliverInv, [Next]_vars
    PROVE  DeliverInv'
<1>1. CASE Tick
  BY <1>1, DeliverClock
     DEF Tick, ClockOnly, WriteStart, WriteTx, WriteDelayBetween, WriteDelay
<1>2. CASE SlaveLoad
  BY <1>2 DEF SlaveLoad, history, DeliverInv, InFrame, MidFrame
<1>3. CASE Reset
  <2>1. m' = ResetReg /\ edges' = 0
    BY <1>3 DEF Reset, SlaveReact, ResetReg
  <2>2. QED
    BY <2>1 DEF DeliverInv, InFrame, MidFrame, ResetReg
<1>4. CASE UNCHANGED vars
  BY <1>4 DEF vars, slave, history, DeliverInv, InFrame, MidFrame
<1>5. QED
  BY <1>1, <1>2, <1>3, <1>4 DEF Next

LEMMA DeliverInit == Init => DeliverInv
BY DEF Init, DeliverInv, InFrame, MidFrame, ResetReg

\* After the last edge the invariant says that the whole word has arrived.
LEMMA Delivered ==
    ASSUME TypeOK, DeliverInv, edges = 2 * WORD
    PROVE  spidat = sent
<1>1. /\ WORD \in Nat \ {0} /\ edges > 0 /\ spidat \in Word /\ sent \in Word
      /\ (edges + 1) \div 2 = WORD
  BY MasterAssumption, Halves DEF TypeOK
<1>2. Received(spidat, sent, WORD)
  BY <1>1 DEF DeliverInv
<1>3. \A i \in 1..WORD : spidat[i] = sent[i]
  BY <1>1, <1>2 DEF Received
<1>4. QED
  BY <1>1, <1>3 DEF Word

\* After the last edge of a frame the slave holds the word that was in TX when
\* the transfer started, whatever software wrote to TX meanwhile: for every
\* word length, divider of at least two and delay wide enough, with the phases
\* of this board (shift on trailing edges, sample on leading ones).
THEOREM WordDeliveredAlways ==
    CLK_DIV > 1 /\ DelaysWide /\ cpha = 0 /\ SLAVE_SAMPLE = "leading"
        => (Spec => []WordDelivered)
<1> SUFFICES ASSUME CLK_DIV > 1, DelaysWide, cpha = 0, SLAVE_SAMPLE = "leading"
             PROVE  Spec => []WordDelivered
  OBVIOUS
<1> DEFINE IInv == TypeOK /\ FrameInv /\ TimingInv /\ DeliverInv
<1>1. Init => IInv
  BY InitType, FrameInit, TimingInit, DeliverInit
<1>2. IInv /\ [Next]_vars => IInv'
  BY NextType, FrameNext, TimingNext, DeliverNext, NextIsAny
<1>3. IInv => WordDelivered
  BY Delivered DEF WordDelivered
<1>4. QED
  BY <1>1, <1>2, <1>3, PTL DEF Spec

-----------------------------------------------------------------------------
(* The transfer: the clocked master with its slave implements SpiTransfer. *)

Matched == cpha = 0 /\ SLAVE_SAMPLE = "leading"

TransferInv == /\ TypeOK /\ FrameInv /\ TimingInv /\ DataInv
               /\ Matched => DeliverInv

\* The word the abstract slave holds.
Committed == IF phaseOf = "exchanging" THEN answer ELSE spidat

LEMMA PhaseValue ==
    ASSUME m.state \in state_type, m'.state \in state_type
    PROVE  /\ m.state = "idle" => phaseOf = "idle"
           /\ m.state = "init_tx_state" => phaseOf = "accepted"
           /\ m.state = "end_state" => phaseOf = "done"
           /\ InFrame => phaseOf = IF edges = 0 THEN "selected" ELSE "exchanging"
           /\ m'.state = "idle" => phaseOf' = "idle"
           /\ m'.state = "init_tx_state" => phaseOf' = "accepted"
           /\ m'.state = "end_state" => phaseOf' = "done"
           /\ InFrame' => phaseOf' = IF edges' = 0 THEN "selected" ELSE "exchanging"
BY DEF phaseOf, InFrame, MidFrame, state_type

\* One clock edge, as the abstract transfer sees it.
LEMMA ClockShows ==
    ASSUME CLK_DIV > 1, DelaysWide, TransferInv, Clock
    PROVE  \/ /\ phaseOf = "idle" /\ start = 1 /\ phaseOf' = "accepted"
              /\ sent' = sent /\ Committed' = Committed /\ m'.rx_data = m.rx_data
           \/ /\ phaseOf = "accepted" /\ phaseOf' = "selected"
              /\ sent' = data_tx_in
              /\ Committed' = Committed /\ m'.rx_data = m.rx_data
           \/ /\ phaseOf = "selected" /\ phaseOf' = "exchanging"
              /\ sent' = sent /\ Committed' = Committed /\ m'.rx_data = m.rx_data
           \/ /\ phaseOf = "exchanging" /\ phaseOf' = "done"
              /\ m'.rx_data = m.rx_buffer /\ edges = 2 * WORD
              /\ Committed = answer /\ answer' = answer
              /\ Committed' = spidat /\ sent' = sent
           \/ /\ phaseOf = "done" /\ start = 0 /\ phaseOf' = "idle"
              /\ sent' = sent /\ Committed' = Committed /\ m'.rx_data = m.rx_data
           \/ /\ phaseOf' = phaseOf
              /\ sent' = sent /\ Committed' = Committed /\ m'.rx_data = m.rx_data
<1>1. /\ TypeOK /\ FrameInv /\ TimingInv
      /\ m.state \in state_type /\ m'.state \in state_type
      /\ WORD \in Nat \ {0} /\ edges \in Nat /\ start \in {0, 1}
  BY MasterAssumption, ClockType DEF TransferInv, TypeOK, Registers, Bit
<1>2. CASE m.state \in {"idle", "init_tx_state", "end_state"}
  <2>1. /\ m'.spi_cs = 0 /\ edges' = 0 /\ m.spi_cs = 0
    BY <1>1, <1>2, CountersNext DEF FrameInv, Frame, InFrame, MidFrame
  <2>2. /\ spidat' = spidat /\ answer' = answer /\ m'.rx_data = m.rx_data
    BY <1>2, <2>1, ClockFields DEF Clock, SlaveReact, Record, rx_data_next
  <2>3. CASE m.state = "idle"
    <3>1. /\ m'.state = IF start = 1 THEN "init_tx_state" ELSE "idle"
      BY <2>3, ClockFields DEF state_next
    <3>2. phaseOf = "idle" /\ phaseOf' = IF start = 1 THEN "accepted" ELSE "idle"
      BY <1>1, <2>3, <3>1, PhaseValue
    <3>3. sent' = sent
      BY <2>3 DEF Clock, Record, load_tx_buffer
    <3>4. Committed = spidat /\ Committed' = spidat
      BY <1>1, <2>2, <3>2 DEF Committed
    <3>5. QED
      BY <1>1, <2>2, <3>2, <3>3, <3>4
  <2>4. CASE m.state = "init_tx_state"
    <3>1. m'.state = "communication_state"
      BY <1>1, <2>4, ClockFields, StateNext
    <3>2. phaseOf = "accepted" /\ phaseOf' = "selected"
      BY <1>1, <2>1, <2>4, <3>1, PhaseValue DEF InFrame, MidFrame
    <3>3. sent' = data_tx_in
      BY <2>4 DEF Clock, Record, load_tx_buffer
    <3>4. Committed = spidat /\ Committed' = spidat
      BY <2>2, <3>2 DEF Committed
    <3>5. QED
      BY <2>2, <3>2, <3>3, <3>4
  <2>5. CASE m.state = "end_state"
    <3>1. m'.state = IF start = 1 THEN "end_state" ELSE "idle"
      BY <2>5, ClockFields DEF state_next, after_end
    <3>2. phaseOf = "done" /\ phaseOf' = IF start = 1 THEN "done" ELSE "idle"
      BY <1>1, <2>5, <3>1, PhaseValue
    <3>3. sent' = sent
      BY <2>5 DEF Clock, Record, load_tx_buffer
    <3>4. Committed = spidat /\ Committed' = spidat
      BY <1>1, <2>2, <3>2 DEF Committed
    <3>5. QED
      BY <1>1, <2>2, <3>2, <3>3, <3>4
  <2>6. QED
    BY <1>2, <2>3, <2>4, <2>5
<1>3. CASE m.state = "communication_state"
  <2>1. /\ InFrame /\ InFrame' /\ m'.spi_cs = 1
        /\ sent' = sent /\ m'.rx_data = m.rx_data
    BY <1>1, <1>3, ClockFields, StateNext, CountersNext
       DEF InFrame, MidFrame, Clock, Record, load_tx_buffer, rx_data_next
  <2>2. /\ phaseOf = IF edges = 0 THEN "selected" ELSE "exchanging"
        /\ phaseOf' = IF edges' = 0 THEN "selected" ELSE "exchanging"
    BY <1>1, <2>1, PhaseValue
  <2>3. edges' = IF SclkEdge THEN edges + 1 ELSE edges
    BY <1>1, <1>3, CountersNext
  <2>4. edges > 0 => answer' = answer
    BY <1>1 DEF Clock, Record
  <2>5. CASE edges = 0 /\ SclkEdge
    <3>1. m.spi_cs = 1
      <4>1. m.delay_counter > DELAY_CONSTANT
        BY <1>1, <2>5, CountersNext, EdgeWhen
      <4>2. /\ m.delay_counter \in Nat /\ DELAY_CONSTANT \in Nat
            /\ m.spi_cs \in Bit
        BY <1>1, DelayRange DEF TypeOK, Registers
      <4>3. QED
        BY <1>3, <4>1, <4>2, <1>1 DEF TimingInv, Timing, Bit
    <3>2. answer' = spidat
      BY <2>5, <3>1 DEF Clock, Record
    <3>3. edges' # 0
      BY <2>3, <2>5
    <3>4. QED
      BY <2>1, <2>2, <2>5, <3>2, <3>3 DEF Committed
  <2>6. CASE edges = 0 /\ ~SclkEdge
    <3>1. spidat' = spidat
      BY <2>6 DEF Clock, SlaveReact, SampleEdge, LeadingEdge, TrailingEdge
    <3>2. phaseOf = "selected" /\ phaseOf' = "selected"
      BY <2>2, <2>3, <2>6
    <3>3. QED
      BY <2>1, <3>1, <3>2 DEF Committed
  <2>7. CASE edges # 0
    <3>1. phaseOf = "exchanging" /\ phaseOf' = "exchanging"
      BY <1>1, <2>2, <2>3, <2>7
    <3>2. Committed = answer /\ Committed' = answer
      BY <1>1, <2>4, <2>7, <3>1 DEF Committed
    <3>3. QED
      BY <2>1, <3>1, <3>2
  <2>8. QED
    BY <2>5, <2>6, <2>7
<1>4. CASE m.state = "store_rx_state"
  <2>1. /\ InFrame /\ edges = 2 * WORD /\ edges # 0
    BY <1>1, <1>4 DEF InFrame, MidFrame, FrameInv, Frame
  <2>2. m'.state = "end_state"
    BY <1>1, <1>4, ClockFields, StateNext
  <2>3. phaseOf = "exchanging" /\ phaseOf' = "done"
    BY <1>1, <2>1, <2>2, PhaseValue
  <2>4. m'.spi_cs = 0
    BY <1>1, <1>4, CountersNext
  <2>5. /\ m'.rx_data = m.rx_buffer /\ answer' = answer /\ sent' = sent
        /\ spidat' = spidat
    BY <1>4, <2>1, <2>4, ClockFields
       DEF Clock, SlaveReact, Record, rx_data_next, load_tx_buffer
  <2>6. QED
    BY <2>1, <2>3, <2>5 DEF Committed
<1>5. QED
  BY <1>1, <1>2, <1>3, <1>4 DEF state_type

\* A clock edge, with whatever software writes meanwhile, is a step of the transfer.
LEMMA ClockRefines ==
    ASSUME CLK_DIV > 1, DelaysWide, TransferInv, TransferInv', Clock
    PROVE  Transfer!Next
<1>1. Transfer!Software
  BY DEF TransferInv, TypeOK, Bit, Transfer!Software
<1>2. CASE /\ phaseOf = "idle" /\ start = 1 /\ phaseOf' = "accepted"
           /\ sent' = sent /\ Committed' = Committed /\ m'.rx_data = m.rx_data
  BY <1>1, <1>2 DEF Transfer!Next, Transfer!Accept, Committed
<1>3. CASE /\ phaseOf = "accepted" /\ phaseOf' = "selected"
           /\ sent' = data_tx_in
           /\ Committed' = Committed /\ m'.rx_data = m.rx_data
  BY <1>1, <1>3 DEF Transfer!Next, Transfer!Load, Committed
<1>4. CASE /\ phaseOf = "selected" /\ phaseOf' = "exchanging"
           /\ sent' = sent /\ Committed' = Committed /\ m'.rx_data = m.rx_data
  BY <1>1, <1>4 DEF Transfer!Next, Transfer!Commit, Committed
<1>5. CASE /\ phaseOf = "exchanging" /\ phaseOf' = "done"
           /\ m'.rx_data = m.rx_buffer /\ edges = 2 * WORD
           /\ Committed = answer /\ answer' = answer
           /\ Committed' = spidat /\ sent' = sent
  <2>1. m'.state = "end_state"
    <3>1. m'.state \in state_type
      BY DEF TransferInv, TypeOK, Registers
    <3>2. QED
      BY <1>5, <3>1 DEF phaseOf, state_type
  <2>2. m'.rx_data = Committed
    BY <1>5, <2>1 DEF TransferInv, DataInv
  <2>3. Matched => Committed' = sent
    BY <1>5, Delivered DEF TransferInv
  <2>4. Committed' \in Word
    BY <1>5 DEF TransferInv, TypeOK
  <2>5. Transfer!Exchange
    BY <1>5, <2>2, <2>3, <2>4 DEF Transfer!Exchange, Committed, Matched
  <2>6. QED
    BY <1>1, <2>5 DEF Transfer!Next
<1>6. CASE /\ phaseOf = "done" /\ start = 0 /\ phaseOf' = "idle"
           /\ sent' = sent /\ Committed' = Committed /\ m'.rx_data = m.rx_data
  BY <1>1, <1>6 DEF Transfer!Next, Transfer!Release, Committed
<1>7. CASE /\ phaseOf' = phaseOf
           /\ sent' = sent /\ Committed' = Committed /\ m'.rx_data = m.rx_data
  BY <1>1, <1>7 DEF Transfer!Next, Transfer!Wait, Committed
<1>8. QED
  BY <1>2, <1>3, <1>4, <1>5, <1>6, <1>7, ClockShows

\* The slave's processor loads its register while its word is not committed.
LEMMA LoadRefines ==
    ASSUME TransferInv, SlaveLoad
    PROVE  Transfer!Next
<1>1. m.state \in state_type /\ phaseOf # "exchanging" /\ phaseOf' = phaseOf
  BY DEF TransferInv, TypeOK, Registers, SlaveLoad, phaseOf, state_type
<1>2. spidat' \in Word
  BY EnvironmentAssumption DEF SlaveLoad
<1>3. QED
  BY <1>1, <1>2 DEF SlaveLoad, inputs, history, Transfer!Next, Transfer!SlaveLoad

\* A reset in a frame leaves the slave with whatever was shifted so far.
LEMMA ResetRefines ==
    ASSUME TransferInv, TransferInv', Reset
    PROVE  Transfer!Next
<1>1. m.state \in state_type /\ m' = ResetReg /\ phaseOf' = "idle" /\ spidat' \in Word
  BY DEF TransferInv, TypeOK, Registers, Reset, ResetReg, phaseOf
<1>2. spidat' = spidat
  BY <1>1 DEF Reset, SlaveReact, ResetReg
<1>3. QED
  BY <1>1, <1>2 DEF Reset, inputs, ResetReg, Transfer!Next, Transfer!Abort

LEMMA TransferRefines ==
    ASSUME CLK_DIV > 1, DelaysWide, TransferInv, TransferInv', [Next]_vars
    PROVE  [Transfer!Next]_(Transfer!vars)
<1>1. CASE Tick
  BY <1>1, ClockRefines
     DEF Tick, ClockOnly, WriteStart, WriteTx, WriteDelayBetween, WriteDelay
<1>2. CASE SlaveLoad
  BY <1>2, LoadRefines
<1>3. CASE Reset
  BY <1>3, ResetRefines
<1>4. CASE UNCHANGED vars
  BY <1>4 DEF vars, inputs, slave, history, phaseOf, Transfer!vars
<1>5. QED
  BY <1>1, <1>2, <1>3, <1>4 DEF Next

\* The master with its slave implements the transfer that software sees: one
\* exchange per START, of the word in TX at its start for the slave's word at
\* the first edge, and a RX register that changes at no other time.  For every
\* word length, divider of at least two and delay wide enough, and every pair
\* of phases that fit; where the phases are this board's, what the slave
\* receives is part of the promise.
THEOREM ImplementsTransferAlways ==
    CLK_DIV > 1 /\ DelaysWide /\ PhasesFit => (Spec => ImplementsTransfer)
<1> SUFFICES ASSUME CLK_DIV > 1, DelaysWide, PhasesFit
             PROVE  Spec => ImplementsTransfer
  OBVIOUS
<1>1. Init => TransferInv
  BY InitType, FrameInit, TimingInit, DeliverInit
     DEF TransferInv, Init, DataInv, ResetReg
<1>2. TransferInv /\ [Next]_vars => TransferInv'
  BY NextType, FrameNext, TimingNext, DataInvNext, DeliverNext, NextIsAny
     DEF TransferInv, Matched
<1>3. Init => Transfer!Init
  <2> SUFFICES ASSUME Init PROVE Transfer!Init
    OBVIOUS
  <2>1. phaseOf = "idle"
    BY DEF Init, ResetReg, phaseOf
  <2>2. spidat \in Word
    BY EnvironmentAssumption DEF Init
  <2>3. QED
    BY <2>1, <2>2 DEF Init, ResetReg, Transfer!Init
<1>4. TransferInv /\ TransferInv' /\ [Next]_vars => [Transfer!Next]_(Transfer!vars)
  BY TransferRefines
<1>5. QED
  BY <1>1, <1>2, <1>3, <1>4, PTL DEF Spec, ImplementsTransfer, Transfer!Spec
=============================================================================
