------------------------------- MODULE SpiTop -------------------------------
(***************************************************************************)
(* The FPGA: the SPI masters of spi_minimized_delay_top.vhd, the PIO       *)
(* registers through which the Nios II drives them, the reset controller   *)
(* of the nios system, and the program hello_world.c.                      *)
(*                                                                         *)
(* Every step but those of the reset button is a rising edge of clk.  The  *)
(* program makes at most one bus access per edge, and may wait any number  *)
(* of edges between two.  A slave sends a word of equal bits, chosen when  *)
(* its CS rises: the order of the bits is the concern of SpiMaster.        *)
(***************************************************************************)
EXTENDS SpiMasterLogic, FiniteSets

CONSTANTS Modules,      \* the masters; 0..5 in the VHDL
          START_MASK,   \* the set of modules hello_world writes to START
          DELAY_VALUE,  \* what it writes to DELAY
          MaxResets,    \* bound: how often the button is pressed
          SYNC_DEPTH, RESET_REQ_WAIT_TIME, MIN_RST_ASSERTION_TIME,
          RESET_REQ_EARLY_DSRT_TIME

ASSUME TopAssumption == /\ IsFiniteSet(Modules)
                        /\ START_MASK \subseteq Modules
                        /\ START_MASK # {}
                        /\ DELAY_VALUE \in Nat
                        /\ MaxResets \in Nat

VARIABLES masters,    \* the registers of every master
          start_spi,  \* PIO: the START register, as the set of its ones
          spi_tx,     \* PIO: the TX registers
          delay_spi,  \* PIO: the DELAY register, 8 bits
          end_rd,     \* PIO: the registered read data of END
          rx_rd,      \* PIO: the registered read data of the RX registers
          miso,       \* the input pins
          pc,         \* where the program is
          spi_data,   \* the words the program has read
          began,      \* history: modules that began a transfer since the
                      \* program last wrote START, or since power-up
          resets      \* number of presses so far

VARIABLES reset_n, sync_chain, sync_out, int_chain, rst_chain, reset_out,
          reset_req, held, early, due

RC == INSTANCE ResetController

ASSUME ResetParameters == RC!TapsFit

pio  == <<start_spi, spi_tx, delay_spi, end_rd, rx_rd>>
prog == <<pc, spi_data>>
vars == <<masters, pio, miso, prog, began, resets, RC!vars>>

\* What the program writes to the TX registers; 10 in the code.
TX_VALUE == [b \in 1..WORD |-> b % 2]

Locations == {"boot", "delay", "tx", "start", "poll", "read", "print"}

TypeOK == /\ masters \in [Modules -> Registers]
          /\ start_spi \subseteq Modules
          /\ spi_tx \in [Modules -> Word]
          /\ delay_spi \in 0..255
          /\ end_rd \in {0, 1}
          /\ rx_rd \in [Modules -> Word]
          /\ miso \in [Modules -> Bit]
          /\ pc \in Locations
          /\ spi_data \in [Modules -> Word]
          /\ resets \in 0..MaxResets
          /\ RC!TypeOK

Init == /\ masters = [i \in Modules |-> ResetReg]
        /\ start_spi = {}
        /\ spi_tx = [i \in Modules |-> Zeros]
        /\ delay_spi = 0
        /\ end_rd = 0
        /\ rx_rd = [i \in Modules |-> Zeros]
        /\ miso = [i \in Modules |-> 0]
        /\ pc = "boot"
        /\ spi_data = [i \in Modules |-> Zeros]
        /\ began = {}
        /\ resets = 0
        /\ RC!Init

Answer(i) == [b \in 1..WORD |-> miso[i]]
Busy(i)   == masters[i].state \in {"init_tx_state", "communication_state",
                                   "store_rx_state"}
StartBit_next(i) == IF i - 1 \in start_spi THEN 1 ELSE 0           \* mutant
StartBit(i) == IF i \in start_spi THEN 1 ELSE 0
Begins(i) == masters[i].state = "idle" /\ masters'[i].state # "idle"

-----------------------------------------------------------------------------
(* A rising edge of clk.                                                   *)

\* rst is reset_n inverted, without the delay of the reset controller.
MastersClock ==
    masters' = [i \in Modules |->
                  IF reset_n = 0 THEN masters[i]
                  ELSE NextReg(masters[i], StartBit(i), spi_tx[i], delay_spi,
                               miso[i])]

\* The slave of a module picks its next word when CS rises.
SlavesChoose ==
    miso' \in {f \in [Modules -> Bit] :
                 \A i \in Modules :
                    masters[i].spi_cs = 1 \/ masters'[i].spi_cs = 0
                        => f[i] = miso[i]}

end_any_all == IF \A i \in Modules : end_signal(masters[i]) THEN 1 ELSE 0 \* mutant

\* The OR of the end signals, on the input port of the END register.
end_signal_spi_dsp == IF \E i \in Modules : end_signal(masters[i]) THEN 1 ELSE 0

\* The read data of the PIO inputs follow the ports by one cycle.
ReadPorts == IF reset_out' = 1
             THEN end_rd' = 0 /\ rx_rd' = [i \in Modules |-> Zeros]
             ELSE /\ end_rd' = end_signal_spi_dsp
                  /\ rx_rd' = [i \in Modules |-> data_rx_out(masters[i])]

Record == began' = (IF pc = "start" /\ pc' = "poll" THEN {} ELSE began)
                     \cup {i \in Modules : Begins(i)}

\* Everything but the program and the output registers it writes.
Hardware == /\ RC!Clock
            /\ MastersClock
            /\ SlavesChoose
            /\ ReadPorts
            /\ Record
            /\ UNCHANGED resets

\* The reset of the nios system clears the output registers and restarts the
\* processor.
NiosReset == /\ start_spi' = {}
             /\ delay_spi' = 0
             /\ spi_tx' = [i \in Modules |-> Zeros]
             /\ pc' = "boot"
             /\ spi_data' = [i \in Modules |-> Zeros]
             /\ Hardware
             /\ reset_out' = 1

Running == Hardware /\ reset_out' = 0

-----------------------------------------------------------------------------
(* hello_world.c, one action per bus access.                               *)

\* The start-up code takes some hundred instructions of a Nios II/e, at six
\* cycles each: longer than the reset pipeline and than any transfer.
BootDone == /\ pc = "boot"
            /\ \A k \in DOMAIN rst_chain : rst_chain[k] = 0
            /\ \A i \in Modules : ~Busy(i)
            /\ pc' = "delay"
            /\ UNCHANGED <<start_spi, delay_spi, spi_tx, spi_data>>
            /\ Running

WriteDelay == /\ pc = "delay" /\ pc' = "tx"
              /\ delay_spi' = DELAY_VALUE % 256
              /\ UNCHANGED <<start_spi, spi_tx, spi_data>>
              /\ Running

\* One write for each module to be started.
WriteTx == /\ pc = "tx"
           /\ \E i \in START_MASK :
                 /\ spi_tx[i] # TX_VALUE
                 /\ spi_tx' = [spi_tx EXCEPT ![i] = TX_VALUE]
           /\ pc' = IF \A i \in START_MASK : spi_tx'[i] = TX_VALUE THEN "start" ELSE "tx"
           /\ UNCHANGED <<start_spi, delay_spi, spi_data>>
           /\ Running

WriteStart == /\ pc = "start" /\ pc' = "poll"
              /\ start_spi' = START_MASK
              /\ UNCHANGED <<delay_spi, spi_tx, spi_data>>
              /\ Running

PollEnd_once == /\ pc = "poll" /\ pc' = "read"                    \* mutant
                /\ UNCHANGED <<start_spi, delay_spi, spi_tx, spi_data>>
                /\ Running

\* do status_spi = IORD(END) while (status_spi == 0)
PollEnd == /\ pc = "poll"
           /\ pc' = IF end_rd = 0 THEN "poll" ELSE "read"
           /\ UNCHANGED <<start_spi, delay_spi, spi_tx, spi_data>>
           /\ Running

ReadRx == /\ pc = "read" /\ pc' = "print"
          /\ spi_data' = [i \in Modules |-> IF i \in START_MASK THEN rx_rd[i]
                                                                ELSE spi_data[i]]
          /\ UNCHANGED <<start_spi, delay_spi, spi_tx>>
          /\ Running

\* The processor is between two bus accesses, or in its final loop.
Compute == UNCHANGED <<start_spi, delay_spi, spi_tx, prog>> /\ Running

Program == BootDone \/ WriteDelay \/ WriteTx \/ WriteStart \/ PollEnd \/ ReadRx

-----------------------------------------------------------------------------
(* The button, between two edges of clk.                                   *)

PressReset == /\ resets < MaxResets
              /\ resets' = resets + 1
              /\ RC!ResetAssert
              /\ masters' = [i \in Modules |-> ResetReg]
              /\ UNCHANGED <<pio, miso, prog, began>>

ReleaseReset == /\ RC!ResetRelease
                /\ UNCHANGED <<masters, pio, miso, prog, began, resets>>

Tick == NiosReset \/ Program \/ Compute

Next == Tick \/ PressReset \/ ReleaseReset

Spec == Init /\ [][Next]_vars

\* clk runs, and the processor does not stop between two accesses.
FairSpec == Spec /\ WF_vars(Tick) /\ WF_vars(Program)

-----------------------------------------------------------------------------
(* Properties.                                                             *)

\* The registers that steer a transfer, without the data.
Control(r) == <<r.state, r.delay_counter, r.div_counter, r.div_counter_2,
                r.bits_counter, r.spi_cs, r.spi_clk>>

\* The modules started by one write run in lockstep, through resets too: this
\* is what makes one END bit and one DELAY register enough for all of them.
Lockstep == \A i, j \in START_MASK : Control(masters[i]) = Control(masters[j])

\* Modules that are not in the mask are never selected.
OthersQuiet == \A i \in Modules \ START_MASK : masters[i].spi_cs = 0

\* When the program has left its polling loop, every module it started has
\* completed the transfer of this START, unless the reset that will restart
\* the program is on its way.
ResetComing == \/ reset_n = 0 \/ sync_out = 1
               \/ \E k \in DOMAIN int_chain : int_chain[k] = 1

PollMeansDone == pc \in {"read", "print"} /\ ~ResetComing =>
                    \A i \in START_MASK : i \in began /\ end_signal(masters[i])

\* The words it prints are those the slaves sent in that transfer.
FreshWords == pc = "print" /\ ~ResetComing =>
                    \A i \in START_MASK : spi_data[i] = Answer(i)

\* So what the program prints belongs to the START it wrote: complete, and of no
\* earlier transfer (hello_world.c:50-59).
WordsOfThisStart == PollMeansDone /\ FreshWords

\* The polling loop ends: END cannot be missed, because START is held.
Prints == <>[](reset_n = 1) => <>[](pc = "print")
=============================================================================
