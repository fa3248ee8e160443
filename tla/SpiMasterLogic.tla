--------------------------- MODULE SpiMasterLogic ---------------------------
(***************************************************************************)
(* The SPI master of spi_master_module.vhd as pure operators.              *)
(*                                                                         *)
(* A record r holds the registers of one instance (the x_reg signals of    *)
(* the VHDL, without the suffix).  Every combinational signal is an        *)
(* operator of r and of the input ports it reads, and NextReg(r, ...) is   *)
(* what all registers hold after a rising edge of clk.  Modules with one   *)
(* master (SpiMaster) and with several (SpiTop) share this one.            *)
(*                                                                         *)
(* A word is a function from 1..WORD to bits; 1 is the most significant    *)
(* bit, the one driven on MOSI.  Integers of the VHDL are unbounded here:  *)
(* SpiMaster shows that every counter stays far below 2^31.                *)
(***************************************************************************)
EXTENDS Integers

CONSTANTS CLK_DIV,    \* half an SCLK period, in periods of clk
          cpol,       \* level of SCLK when no transfer runs
          cpha,       \* 0: shift on the trailing SCLK edge, 1: on the leading one
          WORD        \* bits of a transfer

ASSUME MasterAssumption == /\ CLK_DIV \in Nat \ {0}
                           /\ WORD \in Nat \ {0}
                           /\ cpol \in {0, 1}
                           /\ cpha \in {0, 1}

Bit == {0, 1}
Word == [1..WORD -> Bit]
Zeros == [i \in 1..WORD |-> 0]

\* A shift register after one shift: the bit b enters at the low end.
ShiftIn(w, b) == [i \in 1..WORD |-> IF i < WORD THEN w[i + 1] ELSE b]

state_type == {"idle", "init_tx_state", "communication_state",
               "store_rx_state", "end_state"}

Registers == [state         : state_type,
              tx_buffer     : Word,
              rx_buffer     : Word,
              rx_data       : Word,
              delay_counter : Nat,
              div_counter   : 0..(CLK_DIV - 1),
              div_counter_2 : 0..(2 * CLK_DIV - 1),
              bits_counter  : Nat,
              spi_cs        : Bit,
              spi_clk       : Bit]

\* The asynchronous reset of reg_process.
ResetReg == [state |-> "idle", tx_buffer |-> Zeros, rx_buffer |-> Zeros,
             rx_data |-> Zeros, delay_counter |-> 0, div_counter |-> 0,
             div_counter_2 |-> 0, bits_counter |-> 0, spi_cs |-> 0,
             spi_clk |-> cpol]

-----------------------------------------------------------------------------
(* The delay counter and its two comparators.  They read DELAY_CONSTANT    *)
(* live: it is an input port, not a value latched when the transfer starts.*)

SHIFT == IF cpha = 0 THEN -CLK_DIV ELSE 0

start_delay(r) == r.state = "communication_state"

delay_counter_next(r) == IF start_delay(r) THEN r.delay_counter + 1 ELSE 0

delay_counter_end_ge(r, D) == r.delay_counter >= D                \* mutant

delay_counter_end(r, D) == r.delay_counter > D

delay_counter_shift_end(r, D) == r.delay_counter > D + SHIFT

-----------------------------------------------------------------------------
(* The two clock dividers: one pulse per half period of SCLK, and one per  *)
(* period.                                                                 *)

CountTo(n, last) == IF n = last THEN 0 ELSE n + 1

div_counter_next(r, D) ==
    IF delay_counter_end(r, D) THEN CountTo(r.div_counter, CLK_DIV - 1) ELSE 0

div_clk_pulse(r, D) == delay_counter_end(r, D) /\ r.div_counter = 0

div_counter_2_next(r, D) ==
    IF delay_counter_shift_end(r, D)
    THEN CountTo(r.div_counter_2, 2 * CLK_DIV - 1) ELSE 0

div_clk_2_pulse(r, D) == delay_counter_shift_end(r, D) /\ r.div_counter_2 = 0

start_sclk(r, D) == delay_counter_shift_end(r, D) /\ div_clk_pulse(r, D)

en_tx(r, D) == delay_counter_end(r, D) /\ div_clk_2_pulse(r, D)

-----------------------------------------------------------------------------
(* The algorithmic state machine.                                          *)

frame_sent_early(r) == r.bits_counter >= 2 * WORD - 1             \* mutant

\* All 2 * WORD edges of SCLK are out (one leading and one trailing per bit).
frame_sent(r) == r.bits_counter >= 2 * WORD

\* END is held until START is taken back.
after_end(start) == IF start = 1 THEN "end_state" ELSE "idle"

state_next_abort(r, start) ==                                     \* mutant
    CASE start = 0                       -> "idle"
      [] r.state = "idle"                -> "init_tx_state"
      [] r.state = "init_tx_state"       -> "communication_state"
      [] r.state = "communication_state" -> IF frame_sent(r)
                                            THEN "store_rx_state"
                                            ELSE "communication_state"
      [] OTHER                           -> "end_state"

state_next(r, start) ==
    CASE r.state = "idle"                -> IF start = 1 THEN "init_tx_state"
                                                         ELSE "idle"
      [] r.state = "init_tx_state"       -> "communication_state"
      [] r.state = "communication_state" -> IF frame_sent(r)
                                            THEN "store_rx_state"
                                            ELSE "communication_state"
      [] r.state = "store_rx_state"      -> "end_state"
      [] r.state = "end_state"           -> after_end(start)

load_tx_buffer(r) == r.state = "init_tx_state"

spi_cs_next(r) == IF r.state = "communication_state" THEN 1 ELSE 0

rx_data_next_live(r) ==                                           \* mutant
    IF r.state \in {"communication_state", "store_rx_state"}
    THEN r.rx_buffer ELSE r.rx_data

rx_data_next(r) == IF r.state = "store_rx_state" THEN r.rx_buffer ELSE r.rx_data

end_signal(r) == r.state = "end_state"

-----------------------------------------------------------------------------
(* SCLK, the count of its edges and the two shift registers.               *)

spi_clk_next(r, D) ==
    IF start_delay(r) /\ start_sclk(r, D) THEN 1 - r.spi_clk ELSE r.spi_clk

bits_counter_next(r, D) ==
    IF ~start_delay(r) THEN 0
    ELSE IF start_sclk(r, D) THEN r.bits_counter + 1 ELSE r.bits_counter

tx_buffer_next_live(r, D, data_tx_in) ==                          \* mutant
    IF load_tx_buffer(r) \/ r.bits_counter = 0 THEN data_tx_in
    ELSE IF en_tx(r, D) THEN ShiftIn(r.tx_buffer, 0) ELSE r.tx_buffer

tx_buffer_next(r, D, data_tx_in) ==
    IF load_tx_buffer(r) THEN data_tx_in
    ELSE IF en_tx(r, D) THEN ShiftIn(r.tx_buffer, 0) ELSE r.tx_buffer

rx_buffer_next(r, D, spi_miso_in) ==
    IF ~load_tx_buffer(r) /\ en_tx(r, D) THEN ShiftIn(r.rx_buffer, spi_miso_in)
                                         ELSE r.rx_buffer

\* The output ports.  data_rx_out follows rx_data_next, not the register: the
\* word is visible one cycle before end_signal rises.
spi_mosi_out(r) == r.tx_buffer[1]
data_rx_out(r)  == rx_data_next(r)

\* All registers after a rising edge of clk with reset low.
NextReg(r, start, data_tx_in, D, spi_miso_in) ==
    [state         |-> state_next(r, start),
     tx_buffer     |-> tx_buffer_next(r, D, data_tx_in),
     rx_buffer     |-> rx_buffer_next(r, D, spi_miso_in),
     rx_data       |-> rx_data_next(r),
     delay_counter |-> delay_counter_next(r),
     div_counter   |-> div_counter_next(r, D),
     div_counter_2 |-> div_counter_2_next(r, D),
     bits_counter  |-> bits_counter_next(r, D),
     spi_cs        |-> spi_cs_next(r),
     spi_clk       |-> spi_clk_next(r, D)]
=============================================================================
