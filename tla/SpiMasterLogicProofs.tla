------------------------ MODULE SpiMasterLogicProofs ------------------------
(***************************************************************************)
(* Lemmas about the registers of spi_master_module, for the modules that   *)
(* prove theorems about it.                                                *)
(***************************************************************************)
EXTENDS SpiMasterFrame, TLAPS

\* A shift register stays a word.
LEMMA ShiftInType ==
    ASSUME NEW w \in Word, NEW b \in Bit
    PROVE  ShiftIn(w, b) \in Word
BY MasterAssumption DEF ShiftIn, Word

LEMMA ZerosType == Zeros \in Word
BY DEF Zeros, Word, Bit

LEMMA ResetRegType == ResetReg \in Registers
BY ZerosType, MasterAssumption DEF ResetReg, Registers, state_type, Bit

\* One clock edge keeps every register in its range; in particular the
\* dividers wrap before they reach CLK_DIV and 2 * CLK_DIV.
LEMMA NextRegType ==
    ASSUME NEW r \in Registers, NEW s, NEW w \in Word, NEW D, NEW b \in Bit
    PROVE  NextReg(r, s, w, D, b) \in Registers
<1>1. state_next(r, s) \in state_type
  BY DEF Registers, state_type, state_next, after_end
<1>2. tx_buffer_next(r, D, w) \in Word
  BY ShiftInType DEF Registers, tx_buffer_next, Bit
<1>3. rx_buffer_next(r, D, b) \in Word
  BY ShiftInType DEF Registers, rx_buffer_next
<1>4. rx_data_next(r) \in Word
  BY DEF Registers, rx_data_next
<1>5. delay_counter_next(r) \in Nat
  BY DEF Registers, delay_counter_next
<1>6. div_counter_next(r, D) \in 0..(CLK_DIV - 1)
  BY MasterAssumption DEF Registers, div_counter_next, CountTo
<1>7. div_counter_2_next(r, D) \in 0..(2 * CLK_DIV - 1)
  BY MasterAssumption DEF Registers, div_counter_2_next, CountTo
<1>8. bits_counter_next(r, D) \in Nat
  BY DEF Registers, bits_counter_next
<1>9. spi_cs_next(r) \in Bit /\ spi_clk_next(r, D) \in Bit
  BY DEF Registers, spi_cs_next, spi_clk_next, Bit
<1>10. QED
  BY <1>1, <1>2, <1>3, <1>4, <1>5, <1>6, <1>7, <1>8, <1>9 DEF NextReg, Registers

-----------------------------------------------------------------------------
(* The state machine and the counters, in the form the SMT solver takes.   *)

\* The successor of each state.
LEMMA StateStep ==
    ASSUME NEW r \in Registers, NEW s, NEW q, q = state_next(r, s)
    PROVE  /\ r.state = "idle" => q \in {"idle", "init_tx_state"}
           /\ r.state = "init_tx_state" => q = "communication_state"
           /\ r.state = "communication_state" =>
                q = IF frame_sent(r) THEN "store_rx_state" ELSE "communication_state"
           /\ r.state = "store_rx_state" => q = "end_state"
           /\ r.state = "end_state" => q \in {"end_state", "idle"}
BY DEF Registers, state_type, state_next, after_end

LEMMA RegisterRanges ==
    ASSUME NEW r \in Registers
    PROVE  /\ r.state \in state_type /\ r.rx_buffer \in Word /\ r.tx_buffer \in Word
           /\ r.delay_counter \in Nat /\ r.bits_counter \in Nat
           /\ r.div_counter \in 0..(CLK_DIV - 1)
           /\ r.div_counter_2 \in 0..(2 * CLK_DIV - 1)
           /\ r.spi_cs \in {0, 1} /\ r.spi_clk \in {0, 1}
           /\ CLK_DIV \in Nat \ {0} /\ WORD \in Nat \ {0}
           /\ cpol \in {0, 1} /\ cpha \in {0, 1}
BY MasterAssumption DEF Registers, Bit

\* The pulse that makes an edge of SCLK.
Edge(r, D) == r.state = "communication_state" /\ start_sclk(r, D)

\* What a clock edge does to the counters, to CS and to SCLK.
LEMMA CountersStep ==
    ASSUME NEW r \in Registers, NEW s, NEW w, NEW D, NEW b,
           NEW q, q = NextReg(r, s, w, D, b)
    PROVE  /\ q.delay_counter = IF r.state = "communication_state"
                                THEN r.delay_counter + 1 ELSE 0
           /\ q.div_counter = IF r.delay_counter > D
                              THEN CountTo(r.div_counter, CLK_DIV - 1) ELSE 0
           /\ q.div_counter_2 = IF r.delay_counter > D + SHIFT
                                THEN CountTo(r.div_counter_2, 2 * CLK_DIV - 1) ELSE 0
           /\ q.spi_cs = IF r.state = "communication_state" THEN 1 ELSE 0
           /\ q.bits_counter = IF r.state # "communication_state" THEN 0
                               ELSE IF Edge(r, D) THEN r.bits_counter + 1
                               ELSE r.bits_counter
           /\ q.spi_clk = IF Edge(r, D) THEN 1 - r.spi_clk ELSE r.spi_clk
           /\ q.state = state_next(r, s)
           /\ Edge(r, D) => r.delay_counter > D /\ r.div_counter = 0
BY DEF NextReg, delay_counter_next, start_delay, div_counter_next, delay_counter_end,
       div_counter_2_next, delay_counter_shift_end, spi_cs_next, bits_counter_next,
       spi_clk_next, Edge, start_sclk, div_clk_pulse

-----------------------------------------------------------------------------
(* Frames, whatever DELAY is at each edge of clk.                          *)

LEMMA FrameReset == Frame(ResetReg)
BY MasterAssumption DEF Frame, MidFrame, ResetReg

LEMMA FrameStep ==
    ASSUME CLK_DIV > 1, NEW r \in Registers, Frame(r),
           NEW s, NEW w, NEW D, NEW b, NEW q, q = NextReg(r, s, w, D, b)
    PROVE  Frame(q)
<1>1. Edge(r, D) => r.state = "communication_state" /\ r.bits_counter < 2 * WORD
  BY RegisterRanges, CountersStep DEF Frame, Edge
<1>2. q.bits_counter <= 2 * WORD
  BY <1>1, RegisterRanges, CountersStep DEF Frame
<1>3. q.spi_clk = cpol <=> q.bits_counter % 2 = 0
  <2>1. CASE Edge(r, D)
    <3>1. q.spi_clk = 1 - r.spi_clk /\ q.bits_counter = r.bits_counter + 1
      BY <1>1, <2>1, CountersStep
    <3>2. q.bits_counter % 2 = 0 <=> r.bits_counter % 2 # 0
      BY <3>1, RegisterRanges
    <3>3. q.spi_clk = cpol <=> r.spi_clk # cpol
      BY <3>1, RegisterRanges
    <3>4. QED
      BY <3>2, <3>3 DEF Frame
  <2>2. CASE ~Edge(r, D) /\ r.state = "communication_state"
    BY <2>2, CountersStep DEF Frame
  <2>3. CASE r.state # "communication_state"
    <3>1. r.bits_counter % 2 = 0
      BY <2>3, RegisterRanges DEF Frame, MidFrame, state_type
    <3>2. QED
      BY <3>1, <1>1, <2>3, CountersStep DEF Frame
  <2>4. QED
    BY <2>1, <2>2, <2>3
<1>4. q.state = "store_rx_state" => /\ r.state = "communication_state"
                                    /\ r.bits_counter = 2 * WORD
  BY RegisterRanges, CountersStep, StateStep DEF state_type, Frame, frame_sent
<1>5. MidFrame(q) \/ q.spi_cs = 0
  BY RegisterRanges, CountersStep, StateStep DEF MidFrame, state_type
<1>6. q.spi_cs = 0 => q.bits_counter = 0
  BY CountersStep
<1>7. q.state = "store_rx_state" => q.spi_cs = 1 /\ q.bits_counter = 2 * WORD
  BY <1>1, <1>4, RegisterRanges, CountersStep
<1>8. q.state = "communication_state" /\ q.bits_counter = 2 * WORD => q.div_counter # 0
  <2>1. SUFFICES ASSUME q.state = "communication_state", q.bits_counter = 2 * WORD
                 PROVE  q.div_counter # 0
    OBVIOUS
  <2>2. r.state = "communication_state" /\ r.bits_counter < 2 * WORD
    BY <2>1, RegisterRanges, CountersStep, StateStep
       DEF state_type, Frame, frame_sent
  <2>3. Edge(r, D)
    BY <2>1, <2>2, RegisterRanges, CountersStep
  <2>4. r.delay_counter > D /\ r.div_counter = 0
    BY <2>3, CountersStep
  <2>5. QED
    BY <2>4, RegisterRanges, CountersStep DEF CountTo
<1>9. QED
  BY <1>2, <1>3, <1>5, <1>6, <1>7, <1>8 DEF Frame

-----------------------------------------------------------------------------
(* The dividers, when DELAY is wide and only changes between transfers.    *)

LEMMA DelayShift ==
    ASSUME NEW D \in Nat, Wide(D)
    PROVE  /\ SHIFT = IF cpha = 0 THEN -CLK_DIV ELSE 0
           /\ D + SHIFT \in Nat
           /\ D + SHIFT <= D
BY MasterAssumption DEF Wide, SHIFT

\* When the divider makes an edge: the delay is over and the divider is at 0.
LEMMA EdgeWhenever ==
    ASSUME NEW r \in Registers, NEW D \in Nat, Wide(D)
    PROVE  start_sclk(r, D) <=> r.delay_counter > D /\ r.div_counter = 0
BY RegisterRanges, DelayShift DEF start_sclk, delay_counter_shift_end, div_clk_pulse,
                                 delay_counter_end

LEMMA AheadFlip ==
    ASSUME NEW odd \in BOOLEAN
    PROVE  Ahead(odd) \in {0, CLK_DIV} /\ Ahead(~odd) = CLK_DIV - Ahead(odd)
BY MasterAssumption DEF Ahead

LEMMA TimingReset == \A D : Timing(ResetReg, D)
BY DEF Timing, MidFrame, ResetReg

LEMMA TimingStep ==
    ASSUME CLK_DIV > 1, NEW r \in Registers, Frame(r),
           NEW D \in Nat, Wide(D), Timing(r, D),
           NEW s, NEW w, NEW b, NEW q, q = NextReg(r, s, w, D, b),
           NEW E, E = D \/ r.state \in {"idle", "end_state"}
    PROVE  Timing(q, E)
<1> DEFINE S == D + SHIFT
           dc == r.delay_counter
<1>1. /\ r.state \in state_type /\ r.bits_counter \in Nat /\ dc \in Nat
      /\ r.div_counter \in 0..(CLK_DIV - 1)
      /\ r.div_counter_2 \in 0..(2 * CLK_DIV - 1)
      /\ CLK_DIV \in Nat
  BY RegisterRanges
<1>2. D \in Nat /\ S \in Nat /\ S = D - (IF cpha = 0 THEN CLK_DIV ELSE 0)
  BY DelayShift, MasterAssumption
<1>3. CASE r.state = "communication_state"
  <2>1. /\ MidFrame(r) /\ MidFrame(q)
        /\ q.state \in {"communication_state", "store_rx_state"}
        /\ q.spi_cs = 1 /\ q.delay_counter = dc + 1
        /\ E = D
    BY <1>3, CountersStep, StateStep DEF MidFrame
  <2>2. Edge(r, D) <=> dc > D /\ r.div_counter = 0
    BY <1>3, EdgeWhenever DEF Edge
  <2>3. CASE dc <= D
    <3>1. /\ r.div_counter = 0 /\ r.bits_counter = 0
          /\ r.div_counter_2 = IF dc <= S THEN 0 ELSE dc - S - 1
      BY <1>1, <1>2, <2>1, <2>3 DEF Timing
    <3>2. q.div_counter = 0 /\ q.bits_counter = 0
      BY <1>1, <1>2, <1>3, <2>2, <2>3, <3>1, CountersStep
    <3>3. q.div_counter_2 = IF dc + 1 <= S THEN 0 ELSE dc + 1 - S - 1
      BY <1>1, <1>2, <2>3, <3>1, CountersStep DEF CountTo
    <3>4. CASE dc + 1 <= D
      BY <1>1, <1>2, <2>1, <3>2, <3>3, <3>4 DEF Timing
    <3>5. CASE dc = D
      <4>1. q.div_counter_2 = IF cpha = 0 THEN CLK_DIV ELSE 0
        BY <1>1, <1>2, <3>3, <3>5
      <4>2. ~OddEdge(q) /\ q.div_counter_2 = Ahead(OddEdge(q))
        BY <3>2, <4>1, MasterAssumption DEF Ahead, OddEdge
      <4>3. QED
        BY <1>1, <1>2, <2>1, <3>2, <3>5, <4>2 DEF Timing
    <3>6. QED
      BY <1>1, <1>2, <2>3, <3>4, <3>5
  <2>4. CASE dc > D
    <3>1. /\ r.div_counter = 0 => r.div_counter_2 = Ahead(OddEdge(r))
          /\ r.div_counter # 0 =>
               /\ r.bits_counter > 0
               /\ r.div_counter_2 = r.div_counter + Ahead(~OddEdge(r))
      BY <2>1, <2>4 DEF Timing
    <3>2. q.div_counter = CountTo(r.div_counter, CLK_DIV - 1)
          /\ q.div_counter_2 = CountTo(r.div_counter_2, 2 * CLK_DIV - 1)
      BY <1>1, <1>2, <2>4, CountersStep
    <3>3. CASE r.div_counter = 0
      <4>1. q.bits_counter = r.bits_counter + 1 /\ q.div_counter = 1
        BY <1>1, <1>3, <2>2, <2>4, <3>2, <3>3, CountersStep DEF CountTo
      <4>2. OddEdge(q) <=> ~OddEdge(r)
        BY <1>1, <4>1 DEF OddEdge
      <4>3. q.div_counter_2 = 1 + Ahead(OddEdge(r))
        BY <1>1, <3>1, <3>2, <3>3 DEF CountTo, Ahead
      <4>4. QED
        BY <1>1, <1>2, <2>1, <2>4, <4>1, <4>2, <4>3 DEF Timing, Ahead, OddEdge
    <3>4. CASE r.div_counter # 0
      <4>1. /\ q.bits_counter = r.bits_counter /\ r.bits_counter > 0
            /\ OddEdge(q) <=> OddEdge(r)
        BY <1>1, <1>3, <2>2, <3>1, <3>4, CountersStep DEF OddEdge
      <4>2. CASE r.div_counter = CLK_DIV - 1
        <5>1. q.div_counter = 0
          BY <3>2, <4>2 DEF CountTo
        <5>2. q.div_counter_2 = Ahead(OddEdge(r))
          <6>1. /\ Ahead(OddEdge(r)) \in {0, CLK_DIV}
                /\ Ahead(~OddEdge(r)) = CLK_DIV - Ahead(OddEdge(r))
            BY AheadFlip DEF OddEdge
          <6>2. r.div_counter_2 = 2 * CLK_DIV - 1 - Ahead(OddEdge(r))
            BY <1>1, <3>1, <3>4, <4>2, <6>1
          <6>3. QED
            BY <1>1, <3>2, <6>1, <6>2 DEF CountTo
        <5>3. QED
          BY <1>1, <1>2, <2>1, <2>4, <4>1, <5>1, <5>2 DEF Timing, Ahead, OddEdge
      <4>3. CASE r.div_counter # CLK_DIV - 1
        <5>1. q.div_counter = r.div_counter + 1
          BY <3>2, <4>3 DEF CountTo
        <5>2. q.div_counter_2 = r.div_counter + 1 + Ahead(~OddEdge(r))
          BY <1>1, <3>1, <3>2, <3>4, <4>3, MasterAssumption DEF CountTo, Ahead
        <5>3. QED
          BY <1>1, <1>2, <2>1, <2>4, <4>1, <5>1, <5>2 DEF Timing, Ahead, OddEdge
      <4>4. QED
        BY <4>2, <4>3
    <3>5. QED
      BY <3>3, <3>4
  <2>5. QED
    BY <1>1, <1>2, <2>3, <2>4
<1>4. CASE r.state = "store_rx_state"
  <2>1. q.state = "end_state" /\ q.delay_counter = 0
    BY <1>4, CountersStep, StateStep
  <2>2. QED
    BY <2>1 DEF Timing, MidFrame
<1>5. CASE r.state \in {"idle", "init_tx_state", "end_state"}
  <2>1. dc = 0
    BY <1>5 DEF Timing, MidFrame
  <2>2. /\ q.delay_counter = 0 /\ q.div_counter = 0 /\ q.div_counter_2 = 0
        /\ q.spi_cs = 0 /\ q.bits_counter = 0
    BY <1>1, <1>2, <1>5, <2>1, CountersStep
  <2>3. CASE r.state = "init_tx_state"
    <3>1. q.state = "communication_state" /\ E = D
      BY <2>3, CountersStep, StateStep
    <3>2. QED
      BY <1>2, <2>2, <3>1 DEF Timing, MidFrame
  <2>4. CASE r.state # "init_tx_state"
    <3>1. q.state \in {"idle", "init_tx_state", "end_state"}
      BY <1>5, <2>4, CountersStep, StateStep
    <3>2. QED
      BY <2>2, <3>1 DEF Timing, MidFrame
  <2>5. QED
    BY <2>3, <2>4
<1>6. QED
  BY <1>1, <1>3, <1>4, <1>5 DEF state_type

\* The master shifts on the edge its phase names, and on no other cycle of
\* the communication state.
LEMMA ShiftPulse ==
    ASSUME CLK_DIV > 1, NEW r \in Registers, NEW D \in Nat, Wide(D), Timing(r, D),
           r.state = "communication_state"
    PROVE  en_tx(r, D) <=> Edge(r, D) /\ (OddEdge(r) <=> cpha = 0)
<1>1. /\ r.delay_counter \in Nat
      /\ r.div_counter \in 0..(CLK_DIV - 1)
      /\ r.div_counter_2 \in 0..(2 * CLK_DIV - 1) /\ MidFrame(r)
  BY RegisterRanges DEF MidFrame
<1>2. en_tx(r, D) <=> r.delay_counter > D /\ r.div_counter_2 = 0
  BY <1>1, DelayShift DEF en_tx, delay_counter_end, div_clk_2_pulse,
                          delay_counter_shift_end
<1>3. Edge(r, D) <=> r.delay_counter > D /\ r.div_counter = 0
  BY EdgeWhenever DEF Edge
<1>4. CASE r.delay_counter > D /\ r.div_counter = 0
  <2>1. r.div_counter_2 = Ahead(OddEdge(r))
    BY <1>1, <1>4 DEF Timing
  <2>2. Ahead(OddEdge(r)) = 0 <=> (OddEdge(r) <=> cpha = 0)
    BY MasterAssumption DEF Ahead, OddEdge
  <2>3. QED
    BY <1>2, <1>3, <1>4, <2>1, <2>2
<1>5. CASE r.delay_counter > D /\ r.div_counter # 0
  <2>1. r.div_counter_2 = r.div_counter + Ahead(~OddEdge(r))
    BY <1>1, <1>5 DEF Timing
  <2>2. Ahead(~OddEdge(r)) \in Nat
    BY MasterAssumption DEF Ahead
  <2>3. QED
    BY <1>1, <1>2, <1>3, <1>5, <2>1, <2>2
<1>6. QED
  BY <1>1, <1>2, <1>3, <1>4, <1>5

-----------------------------------------------------------------------------
(* The two shift registers.                                                *)

\* A receiving register with the first p bits of a word at its low end, and
\* the next bit coming in.
LEMMA ShiftRx ==
    ASSUME NEW w, NEW a, NEW p \in 0..(WORD - 1), NEW b,
           Received(w, a, p), b = a[p + 1]
    PROVE  Received(ShiftIn(w, b), a, p + 1)
<1> SUFFICES ASSUME NEW i \in 1..(p + 1)
             PROVE  ShiftIn(w, b)[WORD - (p + 1) + i] = a[i]
  BY DEF Received
<1>1. WORD \in Nat /\ WORD - (p + 1) + i \in 1..WORD
  BY MasterAssumption
<1>2. CASE i = p + 1
  BY <1>1, <1>2 DEF ShiftIn
<1>3. CASE i # p + 1
  <2>1. i \in 1..p /\ WORD - (p + 1) + i < WORD
    BY <1>1, <1>3
  <2>2. ShiftIn(w, b)[WORD - (p + 1) + i] = w[WORD - (p + 1) + i + 1]
    BY <1>1, <2>1 DEF ShiftIn
  <2>3. WORD - (p + 1) + i + 1 = WORD - p + i
    BY <1>1, <2>1
  <2>4. QED
    BY <2>1, <2>2, <2>3 DEF Received
<1>4. QED
  BY <1>2, <1>3

\* A sending register from which p bits have gone, and one more going.
LEMMA ShiftTx ==
    ASSUME NEW w, NEW a, NEW p \in Nat, NEW b,
           Remaining(w, a, p)
    PROVE  Remaining(ShiftIn(w, b), a, p + 1)
<1> SUFFICES ASSUME NEW i \in 1..(WORD - (p + 1))
             PROVE  ShiftIn(w, b)[i] = a[i + (p + 1)]
  BY DEF Remaining
<1>1. /\ WORD \in Nat /\ i \in 1..WORD /\ i < WORD
      /\ i + 1 \in 1..(WORD - p) /\ i + 1 + p = i + (p + 1)
  BY MasterAssumption
<1>2. ShiftIn(w, b)[i] = w[i + 1]
  BY <1>1 DEF ShiftIn
<1>3. QED
  BY <1>1, <1>2 DEF Remaining

\* The halves of an even and of an odd count of edges.
LEMMA Halves ==
    ASSUME NEW p \in Nat, NEW n \in Nat
    PROVE  /\ n = 2 * p => /\ n \div 2 = p /\ (n + 1) \div 2 = p
                           /\ n % 2 = 0
           /\ n = 2 * p + 1 => /\ n \div 2 = p /\ (n + 1) \div 2 = p + 1
                               /\ n % 2 = 1
OBVIOUS
=============================================================================
