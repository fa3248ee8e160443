--------------------------- MODULE SpiMasterFrame ---------------------------
(***************************************************************************)
(* What holds of the registers of one master, whichever module it is in:   *)
(* SpiMasterInv builds the invariants of SpiMaster from it, SpiTopInv      *)
(* those of the masters of the FPGA.                                       *)
(***************************************************************************)
EXTENDS SpiMasterLogic

MidFrame(r) == r.state \in {"communication_state", "store_rx_state"}

\* The frame, whatever happens to DELAY: CS is low outside a frame, the parity
\* of the count of edges is the level of SCLK, and after the last edge the
\* divider is past the value at which it would make another one (this needs
\* CLK_DIV > 1).
Frame(r) ==
    /\ r.bits_counter <= 2 * WORD
    /\ r.spi_clk = cpol <=> r.bits_counter % 2 = 0
    /\ ~MidFrame(r) => r.spi_cs = 0
    /\ r.spi_cs = 0 => r.bits_counter = 0
    /\ r.state = "store_rx_state" => r.spi_cs = 1 /\ r.bits_counter = 2 * WORD
    /\ r.state = "communication_state" /\ r.bits_counter = 2 * WORD => r.div_counter # 0

\* A delay for which the second divider is at rest when a transfer starts.
Wide(D) == cpha = 0 => D >= CLK_DIV

\* Where the second divider is when the first one starts a half period: it
\* runs ahead by half its length when cpha = 0, because it started CLK_DIV
\* cycles earlier.
Ahead(odd) == IF (cpha = 0) = odd THEN 0 ELSE CLK_DIV

OddEdge(r) == r.bits_counter % 2 = 1

\* The delay counter and the dividers, when DELAY is only written between
\* transfers and is wide enough.
Timing(r, D) ==
    /\ ~MidFrame(r) => r.delay_counter = 0
    /\ r.state \in {"idle", "init_tx_state"} =>
            r.div_counter = 0 /\ r.div_counter_2 = 0
    /\ r.state = "communication_state" => (r.spi_cs = 1 <=> r.delay_counter > 0)
    /\ MidFrame(r) /\ r.delay_counter <= D =>
            /\ r.bits_counter = 0
            /\ r.div_counter = 0
            /\ r.div_counter_2 =
                 IF r.delay_counter <= D + SHIFT THEN 0
                 ELSE r.delay_counter - (D + SHIFT) - 1
    /\ MidFrame(r) /\ r.delay_counter > D =>
            /\ r.bits_counter = 0 => r.delay_counter = D + 1
            /\ r.div_counter = 0 => r.div_counter_2 = Ahead(OddEdge(r))
            /\ r.div_counter # 0 =>
                 /\ r.bits_counter > 0
                 /\ r.div_counter_2 = r.div_counter + Ahead(~OddEdge(r))

\* Bits the master has shifted in after n edges of SCLK.
BitsIn(n) == IF cpha = 0 THEN n \div 2 ELSE (n + 1) \div 2

\* The low end of w holds the first p bits of a, in order.
Received(w, a, p) == \A i \in 1..p : w[WORD - p + i] = a[i]

\* The first p bits of a have left w.
Remaining(w, a, p) == \A i \in 1..(WORD - p) : w[i] = a[i + p]
=============================================================================
