---------------------------- MODULE SpiMasterInv ----------------------------
(***************************************************************************)
(* The inductive invariants behind the properties of SpiMaster.  TLC       *)
(* checks them on the instances of MCSpiMaster; SpiMasterProofs proves     *)
(* them.                                                                   *)
(***************************************************************************)
EXTENDS SpiMaster, SpiMasterFrame

InFrame == MidFrame(m)
Odd     == edges % 2 = 1

\* The slave and the master count the same edges.
FrameInv == m.bits_counter = edges /\ Frame(m)

\* The delays for which the second divider is at rest when a transfer starts.
DelaysWide == \A D \in Delays : Wide(D)

TimingInv == Timing(m, DELAY_CONSTANT)

\* How long ago the last edge was, as the dividers tell it.
GapInv == m.spi_cs = 1 /\ m.state = "communication_state" =>
            gap = IF edges = 0 THEN m.delay_counter - 1
                  ELSE IF m.div_counter = 0 THEN CLK_DIV - 1
                  ELSE m.div_counter - 1

\* Bits the master has shifted in and the slave has shifted out, and the bit
\* on MISO.
Shifted == BitsIn(edges)
Sent    == IF SLAVE_SAMPLE = "leading" THEN (edges + 1) \div 2 ELSE edges \div 2

\* The pairs of phases that fit: the slave is not to show a bit on the very
\* edge on which the master takes it.
PhasesFit == cpha = 0 \/ SLAVE_SAMPLE = "leading"

DataInv ==
    /\ SLAVE_SAMPLE = "leading" /\ edges = 0 => miso = spidat[1]
    /\ edges > 0 =>
         /\ Received(m.rx_buffer, answer, Shifted)
         /\ Remaining(spidat, answer, Sent)
         /\ edges < 2 * WORD /\ (SLAVE_SAMPLE = "leading" \/ Odd) =>
                miso = answer[edges \div 2 + 1]
    /\ m.state = "end_state" => m.rx_data = answer

\* The word on its way out, when the master shifts on trailing edges and the
\* slave samples on leading ones: bits the slave has not yet seen, and bits it
\* has.  The word is latched, so a later write to TX does not appear here.
DeliverInv ==
    /\ InFrame => Remaining(m.tx_buffer, sent, edges \div 2)
    /\ edges > 0 => Received(spidat, sent, (edges + 1) \div 2)
=============================================================================
