------------------------------ MODULE DspNodeInv ------------------------------
(***************************************************************************)
(* The inductive invariants behind the properties of DspNode.  TLC finds   *)
(* no violation of them on the instance of DspNode.cfg; DspNodeProofs      *)
(* proves them.                                                            *)
(***************************************************************************)
EXTENDS DspNode

\* Where the program is tells what is enabled, and a raised flag of the ADC is
\* either latched in the PIE or about to be cleared by the routine.
IrqInv ==
    /\ pc # "halted"
    /\ pc \notin {"DINT", "InitPieCtrl", "InitPieVectTable", "vector"}
            => vector = "adca1_isr"
    /\ pc \in {"DINT", "InitPieCtrl"} => ~adc.int1e /\ ADCINT1 = 0
    /\ pc \in Boot => PIEACK = 0
    /\ pc \in {"ENPIE", "PIEIER", "INPUT5", "EINT", "loop"} \cup Isr => IER = 1
    /\ pc \in {"PIEIER", "INPUT5", "EINT", "loop"} \cup Isr => ENPIE = 1
    /\ pc \in {"INPUT5", "EINT", "loop"} \cup Isr => PIEIER = 1
    /\ pc = "loop" => INTM = 0 /\ PIEACK = 0
    /\ ADCINT1 = 1 => PIEIFR = 1 \/ pc \in {"isr_read", "isr_store", "isr_clear"}

\* The peripherals are set up in the order of main(): once the program is in
\* its loop the slave drives MISO and a rise of CS starts a conversion.
SetupInv ==
    /\ pc \in {"adc_config", "adc_soc", "IER", "ENPIE", "PIEIER", "INPUT5", "EINT", "loop"}
            \cup Isr => talk
    /\ pc \in {"adc_soc", "IER", "ENPIE", "PIEIER", "INPUT5", "EINT", "loop"} \cup Isr
            => adc.on /\ adc.int1e /\ adc.late
    /\ pc \in {"IER", "ENPIE", "PIEIER", "INPUT5", "EINT", "loop"} \cup Isr => adc.trigger
    /\ pc \in {"EINT", "loop"} \cup Isr => INPUT5 = "CS"

-----------------------------------------------------------------------------
(* From the rise of CS to the store, when the DSP was idle at the rise.    *)

\* Ticks since the rise, as long as no edge of SCLK has come.
Age == delay - 1 - wait

\* The ADC has nothing more to do in this frame.
Converted == conv = 0 /\ ~soc /\ ext = 1

Risen      == /\ pc = "loop" /\ PIEIFR = 0
              /\ conv = 0 /\ ~soc /\ ext = 0 /\ Age = 0
Triggering == /\ pc = "loop" /\ PIEIFR = 0
              /\ conv = 0 /\ soc /\ ext = 1 /\ Age = 1
Converting == /\ pc = "loop" /\ PIEIFR = 0
              /\ conv > 0 /\ ~soc /\ ext = 1 /\ sampled = rise
              /\ Age = 2 + CONV - conv
Flagged    == /\ pc = "loop" /\ PIEIFR = 1
              /\ Converted /\ ADCRESULT0 = rise
              /\ Age - lag <= CONV + 1
Taken      == /\ pc = "isr_read" /\ PIEIFR = 0
              /\ Converted /\ ADCRESULT0 = rise
              /\ Age - lag <= CONV + 1 + SLOW
Fetched    == /\ pc = "isr_store" /\ PIEIFR = 0
              /\ Converted /\ Vbus = rise
              /\ Age - lag <= CONV + 1 + 2 * SLOW

Loading == /\ edges = 0 /\ received = <<>>
           /\ Risen \/ Triggering \/ Converting \/ Flagged \/ Taken \/ Fetched

-----------------------------------------------------------------------------
(* From the store to the last edge.                                        *)

\* The first p bits of sample n are with the master, the others still in the
\* shift register.
Sending(n, p) == /\ \A i \in 1..(WORD - p) : SPIDAT[i] = <<n, i + p>>
                 /\ Len(received) = p
                 /\ \A i \in 1..p : received[i] = <<n, i>>

Stored == /\ pc \in {"isr_clear", "isr_ack", "loop"} /\ PIEIFR = 0
          /\ Converted
          /\ Sending(rise, edges \div 2)
          /\ edges % 2 = 1 => miso = <<rise, edges \div 2 + 1>>

\* A frame that found the DSP idle and whose delay is long enough is either
\* before its store, in time for the first edge, or after it.
FreshInv == cs = 1 /\ Timely => Loading \/ Stored
==============================================================================
