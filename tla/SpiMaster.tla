------------------------------ MODULE SpiMaster ------------------------------
(***************************************************************************)
(* One spi_master_module, the register file that drives its input ports    *)
(* and the SPI slave on its pins.                                          *)
(*                                                                         *)
(* A step of the system is one rising edge of clk.  The Nios II writes its *)
(* PIO registers on the same clock, so a step may also carry one bus write *)
(* (START, the TX register or DELAY), seen by the master from the next     *)
(* edge on.  The slave is external: it reacts to the edges of SCLK before  *)
(* the next edge of clk, and its own processor may load its shift register *)
(* between two edges.                                                      *)
(***************************************************************************)
EXTENDS SpiMasterLogic, FiniteSets

CONSTANTS Delays,        \* values software writes to DELAY
          TxWords,       \* words software writes to the TX register
          SlaveWords,    \* words the slave's processor loads
          SLAVE_SAMPLE   \* the SCLK edge on which the slave samples MOSI; it
                         \* changes MISO on the other one

ASSUME EnvironmentAssumption == /\ Delays \subseteq Nat
                                /\ Delays # {}
                                /\ TxWords \subseteq Word
                                /\ TxWords # {}
                                /\ SlaveWords \subseteq Word
                                /\ SlaveWords # {}
                                /\ SLAVE_SAMPLE \in {"leading", "trailing"}

VARIABLES m,               \* the registers of the master
          start,           \* input port, one bit of the START register
          data_tx_in,      \* input port, the TX register
          DELAY_CONSTANT,  \* input port, the DELAY register
          spidat,          \* the slave's shift register
          miso,            \* the slave's output pin
          edges,           \* SCLK edges the slave counted since CS rose
          sent,            \* history: the word the master loaded
          answer,          \* history: what the slave held at the first edge
          gap              \* history: clk edges since CS rose or since the
                           \* last edge of SCLK

inputs  == <<start, data_tx_in, DELAY_CONSTANT>>
slave   == <<spidat, miso, edges>>
history == <<sent, answer, gap>>
vars    == <<m, inputs, slave, history>>

TypeOK == /\ m \in Registers
          /\ start \in Bit
          /\ data_tx_in \in Word
          /\ DELAY_CONSTANT \in Delays
          /\ spidat \in Word
          /\ miso \in Bit
          /\ edges \in Nat
          /\ sent \in Word
          /\ answer \in Word
          /\ gap \in Nat

Init == /\ m = ResetReg
        /\ start = 0
        /\ data_tx_in = Zeros
        /\ DELAY_CONSTANT \in Delays
        /\ spidat \in SlaveWords
        /\ miso = spidat[1]
        /\ edges = 0
        /\ sent = Zeros
        /\ answer = spidat
        /\ gap = 0

-----------------------------------------------------------------------------
(* The slave: what it does about the pins before and after a step of the   *)
(* master.                                                                 *)

SclkEdge     == m'.spi_clk # m.spi_clk
LeadingEdge  == SclkEdge /\ m'.spi_clk # cpol
TrailingEdge == SclkEdge /\ m'.spi_clk = cpol

SampleEdge == IF SLAVE_SAMPLE = "leading" THEN LeadingEdge ELSE TrailingEdge
DriveEdge  == SclkEdge /\ ~SampleEdge

\* A MOSI that changes together with the sampling edge may be sampled as its
\* old or as its new value.
SlaveSample == \E b \in {spi_mosi_out(m), spi_mosi_out(m')} :
                    spidat' = ShiftIn(spidat, b)

\* The pin of a slave that samples on leading edges shows the first bit
\* before the first edge; on a drive edge every slave shows the next bit.
SlaveDrive ==
    miso' = IF SLAVE_SAMPLE = "leading" /\ edges' = 0 THEN spidat'[1]
            ELSE IF DriveEdge THEN spidat[1]
            ELSE miso

SlaveReact == /\ IF m'.spi_cs = 1 /\ SampleEdge THEN SlaveSample
                                               ELSE UNCHANGED spidat
              /\ edges' = IF m'.spi_cs = 0 THEN 0
                          ELSE IF SclkEdge THEN edges + 1 ELSE edges
              /\ SlaveDrive

\* What the properties compare: recorded, never read by the system.
Record == /\ sent' = IF load_tx_buffer(m) THEN data_tx_in ELSE sent
          /\ answer' = IF m.spi_cs = 1 /\ edges = 0 THEN spidat ELSE answer
          /\ gap' = IF m.spi_cs = 0 \/ SclkEdge THEN 0 ELSE gap + 1

-----------------------------------------------------------------------------
(* The steps.                                                              *)

\* A rising edge of clk: every register of the master is updated at once.
Clock == /\ m' = NextReg(m, start, data_tx_in, DELAY_CONSTANT, miso)
         /\ SlaveReact
         /\ Record

ClockOnly == Clock /\ UNCHANGED inputs

WriteStart == /\ Clock
              /\ start' = 1 - start
              /\ UNCHANGED <<data_tx_in, DELAY_CONSTANT>>

WriteTx == /\ Clock
           /\ data_tx_in' \in TxWords \ {data_tx_in}
           /\ UNCHANGED <<start, DELAY_CONSTANT>>

WriteDelay == /\ Clock
              /\ DELAY_CONSTANT' \in Delays \ {DELAY_CONSTANT}
              /\ UNCHANGED <<start, data_tx_in>>

\* Software that sets DELAY between transfers only, as hello_world.c does.
WriteDelayBetween == m.state \in {"idle", "end_state"} /\ WriteDelay

\* The slave's processor loads its shift register before the first edge.
SlaveLoad == /\ edges = 0
             /\ spidat' \in SlaveWords \ {spidat}
             /\ miso' = IF SLAVE_SAMPLE = "leading" THEN spidat'[1] ELSE miso
             /\ UNCHANGED <<m, inputs, edges, history>>

\* reset is asynchronous: it cuts a transfer short and takes CS away.
Reset == /\ m' = ResetReg
         /\ SlaveReact
         /\ gap' = 0
         /\ UNCHANGED <<inputs, sent, answer>>

Tick    == ClockOnly \/ WriteStart \/ WriteTx \/ WriteDelayBetween
TickAny == ClockOnly \/ WriteStart \/ WriteTx \/ WriteDelay

Next    == Tick \/ SlaveLoad \/ Reset
NextAny == TickAny \/ SlaveLoad \/ Reset

Spec    == Init /\ [][Next]_vars
SpecAny == Init /\ [][NextAny]_vars

\* The oscillator never stops; nothing else is assumed to happen.
FairSpec    == Spec /\ WF_vars(Tick)
FairSpecAny == SpecAny /\ WF_vars(TickAny)

-----------------------------------------------------------------------------
(* Properties.                                                             *)

\* When END is shown, the RX word is the one the slave held at the first edge
\* of SCLK: no bit is lost, duplicated or shifted, whatever was left in the
\* shift registers by an earlier transfer or by a reset that cut one short.
WordReceived == m.state = "end_state" => m.rx_data = answer

\* After the last edge of the frame the slave holds the word that was in the
\* TX register when the transfer started, later writes to TX notwithstanding.
WordDelivered == m.spi_cs = 1 /\ edges = 2 * WORD => spidat = sent

\* CS is never taken away in the middle of a word: unless a reset does it, it
\* falls after exactly one leading and one trailing edge per bit.
FrameWhole == [][m.spi_cs = 1 /\ m'.spi_cs = 0 /\ m' # ResetReg
                   => edges = 2 * WORD]_vars

\* SCLK rests at cpol whenever CS is low, so that the slave's next frame
\* starts with a leading edge.
SclkRests == m.spi_cs = 0 => m.spi_clk = cpol

\* The first edge comes DELAY_CONSTANT + 1 periods of clk after the rise of
\* CS (hello_world.c:20 says DELAY periods; with the comparison of vhd:209
\* it is one more), and the following ones are CLK_DIV periods apart.
SclkTiming == [][SclkEdge /\ m'.spi_cs = 1
                   => gap = IF edges = 0 THEN DELAY_CONSTANT ELSE CLK_DIV - 1]_vars

\* While CS is high MOSI moves on one kind of edge only, the trailing edge for
\* cpha = 0 and the leading one for cpha = 1: it is stable on the other one.
MosiStable == [][m.spi_cs = 1 /\ m'.spi_cs = 1
                   /\ spi_mosi_out(m') # spi_mosi_out(m)
                   => IF cpha = 0 THEN TrailingEdge ELSE LeadingEdge]_vars

\* The counters, integers without a range in the VHDL, stay within a few bits
\* even when DELAY is rewritten in the middle of a transfer.
CountersBounded == /\ m.bits_counter <= 2 * WORD
                   /\ \E D \in Delays :
                        m.delay_counter <= D + (2 * WORD - 1) * CLK_DIV + 3

\* A transfer that has begun reaches END unless a reset ends it: no value of
\* DELAY, and no rewriting of it, can stall the state machine.
Completes == m.state = "init_tx_state"
                ~> m.state = "end_state" \/ m = ResetReg

\* END is shown until software takes START back, and then the master becomes
\* ready for the next transfer.
Released == <>[](start = 0) => <>[](m.state = "idle")

-----------------------------------------------------------------------------
(* The transfer seen from the software of both ends.                       *)

\* The slave's word is committed from the first edge of SCLK on; the mixture
\* in its shift register during the frame is not shown.
phaseOf == CASE m.state = "idle"          -> "idle"
             [] m.state = "init_tx_state" -> "accepted"
             [] m.state = "end_state"     -> "done"
             [] OTHER                     -> IF edges = 0 THEN "selected"
                                                          ELSE "exchanging"

Transfer == INSTANCE SpiTransfer
    WITH Words    <- Word,
         Cleared  <- Zeros,
         DELIVERS <- cpha = 0 /\ SLAVE_SAMPLE = "leading",
         phase    <- phaseOf,
         start    <- start,
         tx       <- data_tx_in,
         out      <- sent,
         slave    <- IF phaseOf = "exchanging" THEN answer ELSE spidat,
         result   <- m.rx_data

\* The clocked master with its slave implements the transfer: one exchange per
\* START, of the word in TX at its start for the slave's word at the first
\* edge, and a RX register that changes at no other time.
ImplementsTransfer == Transfer!Spec
=============================================================================
