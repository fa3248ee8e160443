------------------------------ MODULE SpiTopInv ------------------------------
(***************************************************************************)
(* The inductive invariants behind the properties of SpiTop.  TLC checks   *)
(* them on the instance of SpiTop_hello; SpiTopProofs proves them.         *)
(***************************************************************************)
EXTENDS SpiTop, SpiMasterFrame

\* START holds the mask or nothing, so its modules see the same start bit and
\* the others never see one: they stay idle.
MaskInv ==
    /\ start_spi \in {{}, START_MASK}
    /\ Lockstep
    /\ \A i \in Modules \ START_MASK : masters[i].state = "idle" /\ masters[i].spi_cs = 0

\* The frames of every master are whole, through resets and changes of DELAY.
FramesInv == \A i \in Modules : Frame(masters[i])

\* Where the program has written START and not been reset since.
Started == {"poll", "read", "print"}

\* What the program's place says of the output registers and of the masters:
\* it starts a transfer only when every master has been idle for long enough
\* to have its counters at rest under the DELAY that it has written.
PlaceInv ==
    /\ start_spi = IF pc \in Started THEN START_MASK ELSE {}
    /\ pc \in Started \cup {"tx", "start"} => delay_spi = DELAY_VALUE % 256
    /\ pc \in {"delay", "tx", "start"} =>
         \A i \in Modules : masters[i].state = "idle" /\ masters[i].delay_counter = 0
    /\ pc = "start" => \A i \in Modules : Timing(masters[i], delay_spi)

\* The transfer of one master since the program wrote START: it began after
\* that, and the bits taken so far are those of the slave's word.
Round(i) ==
    /\ Timing(masters[i], delay_spi)
    /\ masters[i].state # "idle" => i \in began
    /\ Received(masters[i].rx_buffer, Answer(i), BitsIn(masters[i].bits_counter))
    /\ masters[i].state = "end_state" => masters[i].rx_data = Answer(i)

\* What the program sees through the registered inputs is one cycle old: END
\* read as 1 and the words beside it are of masters that wait in end_state.
Shown == \A i \in START_MASK : /\ masters[i].state = "end_state"
                               /\ rx_rd[i] = Answer(i)

RoundInv ==
    pc \in Started /\ ~ResetComing =>
        /\ \A i \in START_MASK : Round(i)
        /\ end_rd = 1 \/ pc # "poll" => Shown
        /\ pc = "print" => \A i \in START_MASK : spi_data[i] = Answer(i)

\* While the button is down the masters are held in reset, and the synchronizer
\* holds the reset until the delay line has carried it to the processor.
ResetInv == reset_n = 0 => /\ sync_out = 1
                           /\ \A i \in Modules : masters[i] = ResetReg

-----------------------------------------------------------------------------
(* The reset controller: what is behind its ResetSequence.                 *)

\* The generics of nios.vhd: the wait for reset_req is of one cycle, and reset_req ends
\* early.  A longer wait would be cut short at power-up, which fills int_chain; without
\* an early end reset_req would still be high when reset_out falls.
NiosGenerics == RESET_REQ_WAIT_TIME = 1 /\ RESET_REQ_EARLY_DSRT_TIME >= 1

\* The stretcher empties from its far end: left ones remain.
Ones(left) == [i \in 0..(RC!ASSERTION_CHAIN_LENGTH - 1) |-> IF i < left THEN 1 ELSE 0]

\* The synchronizer stays set as long as the button is pressed, and drains towards its
\* output.
Drains == /\ reset_n = 0 => sync_out = 1 /\ sync_chain = RC!SyncOnes
          /\ sync_chain[0] = 1 => sync_out = 1
          /\ \A i \in 0..(SYNC_DEPTH - 2) : sync_chain[i + 1] = 1 => sync_chain[i] = 1

\* A pulse is at least three cycles wide wherever its front is.
Front(ahead, first, second, third) == ahead = 0 /\ first = 1 => second = 1 /\ third = 1
PulseWide == /\ Front(int_chain[0], sync_out, sync_chain[0], sync_chain[1])
             /\ Front(int_chain[1], int_chain[0], sync_out, sync_chain[0])
             /\ Front(int_chain[2], int_chain[1], int_chain[0], sync_out)
             /\ Front(int_chain[3], int_chain[2], int_chain[1], int_chain[0])
             /\ Front(int_chain[4], int_chain[3], int_chain[2], int_chain[1])
             /\ Front(reset_out, int_chain[4], int_chain[3], int_chain[2])

\* What has left the synchronizer has filled the stretcher.
StretcherFilled(left) ==
    /\ int_chain[3] = 1 => left = RC!ASSERTION_CHAIN_LENGTH
    /\ int_chain[4] = 1 => left >= RC!ASSERTION_CHAIN_LENGTH - 1

\* Before the reset, a request has been made; during it, what has emptied of the
\* stretcher has been counted.
CyclesCounted(left) ==
    /\ reset_out = 0 => held = 0
    /\ reset_out = 0 /\ int_chain[4] = 1 => reset_req = 1 /\ early >= 1
    /\ reset_out = 1 => held > MIN_RST_ASSERTION_TIME
                          \/ held + left >= RC!ASSERTION_CHAIN_LENGTH + 1
    /\ reset_out = 1 /\ left < RC!RESET_REQ_DRST_TAP
          => reset_req = 0 /\ early >= RC!RESET_REQ_DRST_TAP - left

SequenceInv ==
    /\ RC!TypeOK /\ held \in Nat /\ early \in Nat
    /\ Drains /\ PulseWide
    /\ \E left \in 0..RC!ASSERTION_CHAIN_LENGTH :
          rst_chain = Ones(left) /\ StretcherFilled(left) /\ CyclesCounted(left)
=============================================================================
