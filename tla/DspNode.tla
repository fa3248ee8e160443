------------------------------ MODULE DspNode ------------------------------
(***************************************************************************)
(* The DSP: the boot sequence and the interrupt routine of Main.c, with    *)
(* the peripherals they set up.  The rise of SPI-CS starts a conversion of *)
(* the ADC, its end raises an interrupt, and the interrupt routine stores  *)
(* the sample into the shift register of the SPI slave, which is to happen *)
(* before the FPGA makes its first edge of SCLK.                           *)
(*                                                                         *)
(* Time passes in ticks, long enough for the shortest statement; the CPU   *)
(* executes at most one statement per tick.  The FPGA is the master that   *)
(* SpiMaster models: CS frames whole words, the first edge comes a chosen  *)
(* time after the rise of CS, and a reset may take CS away at any time.    *)
(*                                                                         *)
(* A sample is named by the rise of CS it follows, modulo three; a bit, by *)
(* its word and its place in it.                                           *)
(***************************************************************************)
EXTENDS Integers, Sequences

CONSTANTS WORD,      \* bits of a frame; 16 in the code
          CONV,      \* ticks from the start of a conversion to its end
          SLOW,      \* bound: ticks a statement of the interrupt routine takes
          Delays,    \* ticks from the rise of CS to the first edge of SCLK
          HALF,      \* ticks between two edges of SCLK
          GAP        \* ticks CS stays low after a reset of the FPGA, at least

ASSUME DspAssumption == /\ {WORD, CONV, SLOW, HALF} \subseteq Nat \ {0}
                        /\ Delays \subseteq Nat \ {0}
                        /\ GAP \in Nat

\* A conversion with its interrupt routine (about 0.3 + 0.3 us) is shorter than
\* the edges of a frame (1.9 us), and than the restart of the Nios II, which
\* separates a frame cut short by a reset from the next.
Service == CONV + 2 + 4 * SLOW
FrameTicks == (2 * WORD - 1) * HALF     \* from the first edge to the last
ASSUME ServiceAssumption == Service <= FrameTicks /\ Service <= GAP

VARIABLES pc,         \* the statement the CPU executes next
          lag,        \* ticks since the last one
          vector,     \* what PieVectTable.ADCA1_INT points to
          IER, ENPIE, PIEIER, PIEIFR, PIEACK, INTM,  \* bits for ADCA1_INT
          adc,        \* [on, trigger, int1e, late]: set-up of the ADC
          INPUT5,     \* the pin INPUT5SELECT routes to ADCEXTSOC
          ext,        \* the last level of ADCEXTSOC
          soc,        \* a start of conversion is pending
          conv,       \* ticks left of the conversion in progress
          sampled,    \* the sample being converted
          ADCRESULT0,
          ADCINT1,    \* the flag of the ADC's interrupt
          Vbus,
          talk,       \* the SPI slave is out of reset and drives MISO
          SPIDAT, miso,
          cs, wait, edges, gap,
          rise,       \* the latest rise of CS
          delay,      \* history: the delay chosen for it
          ready,      \* history: the DSP was idle when CS rose
          received    \* history: the bits the master took since

cpu    == <<pc, vector, Vbus>>
pie    == <<IER, ENPIE, PIEIER, PIEIFR, PIEACK, INTM>>
setup  == <<adc, INPUT5, talk>>
adcRun == <<ext, soc, conv, sampled, ADCRESULT0>>
master == <<cs, wait, edges, gap, rise, delay, ready, received>>
vars   == <<cpu, lag, pie, setup, adcRun, ADCINT1, SPIDAT, miso, master>>

Isr  == {"isr_read", "isr_store", "isr_clear", "isr_ack"}
Boot == {"DINT", "InitPieCtrl", "InitPieVectTable", "vector", "spi_init",
         "adc_config", "adc_soc", "IER", "ENPIE", "PIEIER", "INPUT5", "EINT"}

Samples == 0..2
Mosi    == 3                            \* the word the master sends
BitOf   == (Samples \cup {Mosi}) \X (1..WORD)
WordOf(n) == [i \in 1..WORD |-> <<n, i>>]
ShiftIn(w, b) == [i \in 1..WORD |-> IF i < WORD THEN w[i + 1] ELSE b]

TypeOK == /\ pc \in Boot \cup Isr \cup {"loop", "halted"}
          /\ lag \in 0..SLOW
          /\ vector \in {"none", "default", "adca1_isr"}
          /\ {IER, ENPIE, PIEIER, PIEIFR, PIEACK, INTM, ADCINT1} \subseteq {0, 1}
          /\ adc \in [on : BOOLEAN, trigger : BOOLEAN, int1e : BOOLEAN,
                     late : BOOLEAN]
          /\ INPUT5 \in {"GPIO0", "CS"}
          /\ {ext, cs} \subseteq {0, 1}
          /\ {soc, talk, ready} \subseteq BOOLEAN
          /\ conv \in 0..CONV
          /\ {sampled, ADCRESULT0, Vbus, rise} \subseteq Samples
          /\ SPIDAT \in [1..WORD -> BitOf]
          /\ miso \in BitOf
          /\ edges \in 0..(2 * WORD)
          /\ {wait, gap} \subseteq Nat
          /\ delay \in Delays \cup {0}
          /\ received \in Seq(BitOf)

\* After a device reset; what the boot ROM leaves in the PIE is cleared by
\* InitPieCtrl.
Init == /\ pc = "DINT" /\ lag = 0 /\ vector = "none" /\ Vbus = 0
        /\ IER \in {0, 1} /\ PIEIFR \in {0, 1}
        /\ ENPIE = 0 /\ PIEIER = 0 /\ PIEACK = 0 /\ INTM = 1
        /\ adc = [on |-> FALSE, trigger |-> FALSE, int1e |-> FALSE, late |-> FALSE]
        /\ INPUT5 = "GPIO0" /\ talk = FALSE
        /\ ext = 0 /\ soc = FALSE /\ conv = 0 /\ sampled = 0
        /\ ADCRESULT0 = 0 /\ ADCINT1 = 0
        /\ SPIDAT = [i \in 1..WORD |-> <<Mosi, i>>] /\ miso = <<Mosi, 1>>
        /\ cs = 0 /\ wait = 0 /\ edges = 0 /\ gap = 0
        /\ rise = 0 /\ delay = 0 /\ ready = FALSE /\ received = <<>>

-----------------------------------------------------------------------------
(* The boot sequence, main() up to its loop.                               *)

Goto(here, there) == pc = here /\ pc' = there

DisableInterrupts == /\ Goto("DINT", "InitPieCtrl")
                     /\ INTM' = 1 /\ IER' = 0
                     /\ UNCHANGED <<vector, Vbus, ENPIE, PIEIER, PIEIFR, PIEACK,
                                    setup, SPIDAT, ADCINT1>>

InitPieCtrl == /\ Goto("InitPieCtrl", "InitPieVectTable")
               /\ ENPIE' = 0 /\ PIEIER' = 0 /\ PIEIFR' = 0
               /\ UNCHANGED <<vector, Vbus, IER, PIEACK, INTM, setup, SPIDAT, ADCINT1>>

InitPieVectTable == /\ Goto("InitPieVectTable", "vector")
                    /\ vector' = "default" /\ ENPIE' = 1
                    /\ UNCHANGED <<Vbus, IER, PIEIER, PIEIFR, PIEACK, INTM, setup,
                                   SPIDAT, ADCINT1>>

SetVector_not == /\ Goto("vector", "spi_init")                    \* mutant
                 /\ UNCHANGED <<vector, Vbus, pie, setup, SPIDAT, ADCINT1>>

SetVector == /\ Goto("vector", "spi_init")
             /\ vector' = "adca1_isr"
             /\ UNCHANGED <<Vbus, pie, setup, SPIDAT, ADCINT1>>

spi_init == /\ Goto("spi_init", "adc_config")
            /\ talk' = TRUE
            /\ UNCHANGED <<vector, Vbus, pie, adc, INPUT5, SPIDAT, ADCINT1>>

adc_config_early == /\ Goto("adc_config", "adc_soc")              \* mutant
                    /\ adc' = [adc EXCEPT !.int1e = TRUE, !.on = TRUE]
                    /\ ADCINT1' = 0
                    /\ UNCHANGED <<vector, Vbus, pie, INPUT5, talk, SPIDAT>>

adc_config == /\ Goto("adc_config", "adc_soc")
              /\ adc' = [adc EXCEPT !.late = TRUE, !.int1e = TRUE, !.on = TRUE]
              /\ ADCINT1' = 0
              /\ UNCHANGED <<vector, Vbus, pie, INPUT5, talk, SPIDAT>>

SetupADCSoftwareSync == /\ Goto("adc_soc", "IER")
                        /\ adc' = [adc EXCEPT !.trigger = TRUE]
                        /\ UNCHANGED <<vector, Vbus, pie, INPUT5, talk, SPIDAT, ADCINT1>>

EnableGroup == /\ Goto("IER", "ENPIE")
               /\ IER' = 1
               /\ UNCHANGED <<vector, Vbus, ENPIE, PIEIER, PIEIFR, PIEACK, INTM, setup,
                              SPIDAT, ADCINT1>>

EnablePie == /\ Goto("ENPIE", "PIEIER")
             /\ ENPIE' = 1
             /\ UNCHANGED <<vector, Vbus, IER, PIEIER, PIEIFR, PIEACK, INTM, setup,
                            SPIDAT, ADCINT1>>

EnableAdcInt == /\ Goto("PIEIER", "INPUT5")
                /\ PIEIER' = 1
                /\ UNCHANGED <<vector, Vbus, IER, ENPIE, PIEIFR, PIEACK, INTM, setup,
                               SPIDAT, ADCINT1>>

RouteCs == /\ Goto("INPUT5", "EINT")
           /\ INPUT5' = "CS"
           /\ UNCHANGED <<vector, Vbus, pie, adc, talk, SPIDAT, ADCINT1>>

EnableInterrupts == /\ Goto("EINT", "loop")
                    /\ INTM' = 0
                    /\ UNCHANGED <<vector, Vbus, IER, ENPIE, PIEIER, PIEIFR, PIEACK, setup,
                                   SPIDAT, ADCINT1>>

BootStep == \/ DisableInterrupts \/ InitPieCtrl \/ InitPieVectTable \/ SetVector
            \/ spi_init \/ adc_config \/ SetupADCSoftwareSync \/ EnableGroup
            \/ EnablePie \/ EnableAdcInt \/ RouteCs \/ EnableInterrupts

-----------------------------------------------------------------------------
(* adca1_isr.                                                              *)

Pending == IER = 1 /\ ENPIE = 1 /\ PIEIER = 1 /\ PIEIFR = 1 /\ PIEACK = 0 /\ INTM = 0

\* The CPU takes the interrupt: the default routine stops the processor.
TakeInterrupt == /\ pc = "loop" /\ Pending
                 /\ pc' = IF vector = "adca1_isr" THEN "isr_read" ELSE "halted"
                 /\ INTM' = 1 /\ PIEACK' = 1 /\ PIEIFR' = 0
                 /\ UNCHANGED <<vector, Vbus, IER, ENPIE, PIEIER, setup, SPIDAT, ADCINT1>>

IsrRead == /\ Goto("isr_read", "isr_store")
           /\ Vbus' = ADCRESULT0
           /\ UNCHANGED <<vector, pie, setup, SPIDAT, ADCINT1>>

IsrStore == /\ Goto("isr_store", "isr_clear")
            /\ SPIDAT' = WordOf(Vbus)
            /\ UNCHANGED <<vector, Vbus, pie, setup, ADCINT1>>

IsrClear_not == /\ Goto("isr_clear", "isr_ack")                   \* mutant
                /\ UNCHANGED <<vector, Vbus, pie, setup, SPIDAT, ADCINT1>>

IsrClear == /\ Goto("isr_clear", "isr_ack")
            /\ ADCINT1' = 0
            /\ UNCHANGED <<vector, Vbus, pie, setup, SPIDAT>>

IsrAck_not == /\ Goto("isr_ack", "loop")                          \* mutant
              /\ INTM' = 0
              /\ UNCHANGED <<vector, Vbus, IER, ENPIE, PIEIER, PIEIFR, PIEACK, setup,
                             SPIDAT, ADCINT1>>

IsrAck == /\ Goto("isr_ack", "loop")
          /\ PIEACK' = 0
          /\ INTM' = 0
          /\ UNCHANGED <<vector, Vbus, IER, ENPIE, PIEIER, PIEIFR, setup, SPIDAT, ADCINT1>>

\* while(1) { }
Loop == /\ pc = "loop" /\ ~Pending
        /\ UNCHANGED <<cpu, pie, setup, SPIDAT, ADCINT1>>

Cpu == /\ lag > 0 /\ lag' = 0
       /\ BootStep \/ TakeInterrupt \/ IsrRead \/ IsrStore \/ IsrClear \/ IsrAck \/ Loop
       /\ UNCHANGED <<adcRun, miso, master>>

-----------------------------------------------------------------------------
(* A tick of the ADC.                                                      *)

Level     == IF INPUT5 = "CS" THEN cs ELSE 0
Triggered == adc.on /\ adc.trigger /\ ext = 0 /\ Level = 1

\* The flag goes up; the PIE sees its rise only.
RaiseFlag == /\ ADCINT1' = IF adc.int1e THEN 1 ELSE ADCINT1
             /\ PIEIFR' = IF adc.int1e /\ ADCINT1 = 0 THEN 1 ELSE PIEIFR

Starts == conv = 0 /\ soc
Ends   == conv = 1

\* INTPULSEPOS = 1 (late) has the interrupt at the end of the conversion.
AdcTick == /\ ext' = Level
           /\ soc' = (Triggered \/ (soc /\ ~Starts))
           /\ IF Starts THEN conv' = CONV /\ sampled' = rise
              ELSE conv' = (IF conv > 0 THEN conv - 1 ELSE 0) /\ UNCHANGED sampled
           /\ ADCRESULT0' = IF Ends THEN sampled ELSE ADCRESULT0
           /\ IF (adc.late /\ Ends) \/ (~adc.late /\ Starts)
              THEN RaiseFlag ELSE UNCHANGED <<ADCINT1, PIEIFR>>

\* The DSP has booted, and is done with every earlier rise of CS.
Idle == pc = "loop" /\ PIEIFR = 0 /\ conv = 0 /\ ~soc

-----------------------------------------------------------------------------
(* A tick of the FPGA's master, and of the slave on its edges.             *)

Deselected == /\ cs = 0
              /\ gap' = IF gap < GAP THEN gap + 1 ELSE GAP
              /\ UNCHANGED <<cs, wait, edges, rise, delay, ready, received, SPIDAT, miso>>

Select == /\ cs = 0 /\ gap = GAP
          /\ cs' = 1
          /\ delay' \in Delays
          /\ wait' = delay' - 1
          /\ edges' = 0
          /\ rise' = (rise + 1) % 3
          /\ ready' = Idle
          /\ received' = <<>>
          /\ UNCHANGED <<gap, SPIDAT, miso>>

Wait == /\ cs = 1 /\ wait > 0
        /\ wait' = wait - 1
        /\ UNCHANGED <<cs, edges, gap, rise, delay, ready, received, SPIDAT, miso>>

\* The slave shows its next bit on the leading edge of a bit.
LeadingEdge == /\ cs = 1 /\ wait = 0 /\ edges < 2 * WORD /\ edges % 2 = 0
               /\ miso' = IF talk THEN SPIDAT[1] ELSE miso
               /\ edges' = edges + 1 /\ wait' = HALF - 1
               /\ UNCHANGED <<cs, gap, rise, delay, ready, received, SPIDAT>>

\* Both take the other's bit on the trailing edge.
TrailingEdge == /\ cs = 1 /\ wait = 0 /\ edges % 2 = 1
                /\ received' = Append(received, miso)
                /\ SPIDAT' = IF talk THEN ShiftIn(SPIDAT, <<Mosi, (edges + 1) \div 2>>)
                                     ELSE SPIDAT
                /\ edges' = edges + 1 /\ wait' = HALF - 1
                /\ UNCHANGED <<cs, gap, rise, delay, ready, miso>>

\* At the end of the word, or because the FPGA is reset.
Deselect == /\ cs = 1
            /\ gap' = IF edges = 2 * WORD THEN GAP - 1 ELSE 0
            /\ cs' = 0 /\ wait' = 0 /\ edges' = 0
            /\ UNCHANGED <<rise, delay, ready, received, SPIDAT, miso>>

MasterTick == \/ Deselected \/ Select \/ Wait \/ LeadingEdge \/ TrailingEdge \/ Deselect

\* The boot may take any time, the statements of the interrupt routine at
\* most SLOW ticks.
Tick == /\ \/ lag < SLOW /\ lag' = lag + 1
           \/ lag = SLOW /\ pc \in Boot /\ UNCHANGED lag
        /\ AdcTick
        /\ MasterTick
        /\ UNCHANGED <<cpu, IER, ENPIE, PIEIER, PIEACK, INTM, setup>>

Next == Cpu \/ Tick

Spec == Init /\ [][Next]_vars
FairSpec == Spec /\ WF_vars(Cpu) /\ WF_vars(Tick)

-----------------------------------------------------------------------------
(* Properties.                                                             *)

\* "The master SPI has to be programmed such to wait the time needed": the
\* ticks from the rise of CS to the store into SPIDAT, at the latest.
Needed == CONV + 2 + 3 * SLOW

Timely == ready /\ delay >= Needed

\* A frame whose delay is long enough carries the whole sample of its own
\* rise of CS: not an older sample, not the master's previous word left in
\* the shift register, not a mixture.
FreshWord == cs = 1 /\ edges = 2 * WORD /\ Timely => received = WordOf(rise)

\* Once a rise of CS has found the DSP idle, every later one does, resets of
\* the FPGA and frames with too short a delay notwithstanding.
StaysReady == [][cs = 0 /\ cs' = 1 /\ ready => ready']_vars

\* The interrupt routine writes SPIDAT before the first edge, which is what
\* SpiMaster assumes of its slave's processor.
LoadsBeforeFrame == [][pc = "isr_store" /\ pc' = "isr_clear" /\ cs = 1 /\ Timely
                         => edges = 0]_vars

\* However the boot and the rises of CS interleave, the processor never ends
\* in a default interrupt routine.
NeverHalts == pc # "halted"

\* The interrupt path does not jam: in the loop a raised flag, which masks
\* every later end of conversion, is always about to be served.
NoJam == pc = "loop" /\ ADCINT1 = 1 => Pending

\* From every state the DSP comes back to its loop, ready for the next end of
\* conversion.
Rearmed == []<>(pc = "loop" /\ ADCINT1 = 0 /\ PIEACK = 0)
=============================================================================
