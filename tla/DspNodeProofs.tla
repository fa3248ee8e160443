--------------------------- MODULE DspNodeProofs ---------------------------
(***************************************************************************)
(* Theorems about DspNode, for any length of word, any times and any       *)
(* delays.                                                                 *)
(***************************************************************************)
EXTENDS DspNodeInv, TLAPS

-----------------------------------------------------------------------------
(* Types.                                                                  *)

LEMMA Parameters ==
    /\ WORD \in Nat /\ WORD > 0 /\ CONV \in Nat /\ CONV > 0
    /\ SLOW \in Nat /\ SLOW > 0 /\ HALF \in Nat /\ HALF > 0
    /\ GAP \in Nat /\ GAP > 0
    /\ \A d \in Delays : d \in Nat /\ d > 0
<1>1. /\ WORD \in Nat /\ WORD > 0 /\ CONV \in Nat /\ CONV > 0
      /\ SLOW \in Nat /\ SLOW > 0 /\ HALF \in Nat /\ HALF > 0
      /\ GAP \in Nat
  BY DspAssumption
<1>2. Service \in Nat /\ Service > 0
  BY <1>1 DEF Service
<1>3. GAP > 0
  BY <1>1, <1>2, ServiceAssumption
<1>4. QED
  BY <1>1, <1>3, DspAssumption

LEMMA WordOfType == ASSUME NEW n \in Samples \cup {Mosi}
                    PROVE  WordOf(n) \in [1..WORD -> BitOf]
BY DEF WordOf, BitOf

LEMMA ShiftInType ==
    ASSUME NEW w \in [1..WORD -> BitOf], NEW b \in BitOf
    PROVE  ShiftIn(w, b) \in [1..WORD -> BitOf]
BY Parameters DEF ShiftIn

LEMMA InitType == Init => TypeOK
<1> SUFFICES ASSUME Init PROVE TypeOK
  OBVIOUS
<1> USE Parameters DEF Init
<1>1. SPIDAT \in [1..WORD -> BitOf] /\ miso \in BitOf
  BY WordOfType DEF BitOf
<1>2. adc \in [on : BOOLEAN, trigger : BOOLEAN, int1e : BOOLEAN, late : BOOLEAN]
  OBVIOUS
<1>3. received \in Seq(BitOf)
  OBVIOUS
<1>4. pc \in Boot /\ lag \in 0..SLOW /\ conv \in 0..CONV /\ edges \in 0..(2 * WORD)
  BY DEF Boot
<1>5. /\ {IER, ENPIE, PIEIER, PIEIFR, PIEACK, INTM, ADCINT1} \subseteq {0, 1}
      /\ {ext, cs} \subseteq {0, 1}
      /\ {soc, talk, ready} \subseteq BOOLEAN
  OBVIOUS
<1>6. /\ {sampled, ADCRESULT0, Vbus, rise} \subseteq Samples
      /\ {wait, gap} \subseteq Nat
      /\ delay \in Delays \cup {0}
  BY DEF Samples
<1>7. vector = "none" /\ INPUT5 = "GPIO0"
  OBVIOUS
<1>8. QED
  BY <1>1, <1>2, <1>3, <1>4, <1>5, <1>6, <1>7 DEF TypeOK

LEMMA CpuType == TypeOK /\ Cpu => TypeOK'
<1> SUFFICES ASSUME TypeOK, Cpu PROVE TypeOK'
  OBVIOUS
<1> USE DEF TypeOK, Cpu, Goto, Boot, Isr, setup, adcRun, master, pie, cpu
<1>1. CASE BootStep
  <2>1. CASE DisableInterrupts
    BY <2>1, Parameters DEF DisableInterrupts
  <2>2. CASE InitPieCtrl
    BY <2>2, Parameters DEF InitPieCtrl
  <2>3. CASE InitPieVectTable
    BY <2>3, Parameters DEF InitPieVectTable
  <2>4. CASE SetVector
    BY <2>4, Parameters DEF SetVector
  <2>5. CASE spi_init
    BY <2>5, Parameters DEF spi_init
  <2>6. CASE adc_config
    <3>1. adc' \in [on : BOOLEAN, trigger : BOOLEAN, int1e : BOOLEAN, late : BOOLEAN]
      BY <2>6 DEF adc_config
    <3>2. QED
      BY <2>6, <3>1, Parameters DEF adc_config
  <2>7. CASE SetupADCSoftwareSync
    <3>1. adc' \in [on : BOOLEAN, trigger : BOOLEAN, int1e : BOOLEAN, late : BOOLEAN]
      BY <2>7 DEF SetupADCSoftwareSync
    <3>2. QED
      BY <2>7, <3>1, Parameters DEF SetupADCSoftwareSync
  <2>8. CASE EnableGroup
    BY <2>8, Parameters DEF EnableGroup
  <2>9. CASE EnablePie
    BY <2>9, Parameters DEF EnablePie
  <2>10. CASE EnableAdcInt
    BY <2>10, Parameters DEF EnableAdcInt
  <2>11. CASE RouteCs
    BY <2>11, Parameters DEF RouteCs
  <2>12. CASE EnableInterrupts
    BY <2>12, Parameters DEF EnableInterrupts
  <2>13. QED
    BY <1>1, <2>1, <2>2, <2>3, <2>4, <2>5, <2>6, <2>7, <2>8, <2>9, <2>10, <2>11, <2>12
       DEF BootStep
<1>2. CASE TakeInterrupt
  BY <1>2, Parameters DEF TakeInterrupt
<1>3. CASE IsrRead
  BY <1>3, Parameters DEF IsrRead
<1>4. CASE IsrStore
  BY <1>4, Parameters, WordOfType DEF IsrStore
<1>5. CASE IsrClear \/ IsrAck
  BY <1>5, Parameters DEF IsrClear, IsrAck
<1>6. CASE Loop
  BY <1>6, Parameters DEF Loop
<1>7. QED
  BY <1>1, <1>2, <1>3, <1>4, <1>5, <1>6

LEMMA AdcTickType ==
    ASSUME TypeOK, AdcTick
    PROVE  /\ ext' \in {0, 1} /\ soc' \in BOOLEAN /\ conv' \in 0..CONV
           /\ sampled' \in Samples /\ ADCRESULT0' \in Samples
           /\ ADCINT1' \in {0, 1} /\ PIEIFR' \in {0, 1}
<1> USE Parameters DEF TypeOK, AdcTick, Starts, Ends
<1>1. ext' \in {0, 1} /\ soc' \in BOOLEAN
  BY DEF Level, Triggered
<1>2. conv' \in 0..CONV /\ sampled' \in Samples
  OBVIOUS
<1>3. ADCRESULT0' \in Samples /\ ADCINT1' \in {0, 1} /\ PIEIFR' \in {0, 1}
  BY DEF RaiseFlag
<1>4. QED
  BY <1>1, <1>2, <1>3

\* The place of the bit that an odd number of edges ends.
LEMMA OddEdge ==
    ASSUME NEW w \in Nat, NEW e \in Nat, e <= 2 * w, e % 2 = 1
    PROVE  (e + 1) \div 2 \in 1..w /\ e + 1 \in 0..(2 * w)
<1>1. e = 2 * (e \div 2) + 1
  OBVIOUS
<1>2. (e + 1) \div 2 = e \div 2 + 1
  BY <1>1
<1>3. e \div 2 + 1 <= w
  BY <1>1
<1>4. QED
  BY <1>1, <1>2, <1>3

LEMMA MasterTickType ==
    ASSUME TypeOK, MasterTick
    PROVE  /\ cs' \in {0, 1} /\ wait' \in Nat /\ gap' \in Nat
           /\ edges' \in 0..(2 * WORD) /\ rise' \in Samples
           /\ delay' \in Delays \cup {0} /\ ready' \in BOOLEAN
           /\ received' \in Seq(BitOf)
           /\ SPIDAT' \in [1..WORD -> BitOf] /\ miso' \in BitOf
<1> USE Parameters DEF TypeOK
<1>1. CASE Deselected
  BY <1>1 DEF Deselected
<1>2. CASE Select
  BY <1>2 DEF Select, Idle, Samples
<1>3. CASE Wait
  BY <1>3 DEF Wait
<1>4. CASE LeadingEdge
  BY <1>4 DEF LeadingEdge
<1>5. CASE TrailingEdge
  <2>1. (edges + 1) \div 2 \in 1..WORD /\ edges + 1 \in 0..(2 * WORD)
    <3>1. edges % 2 = 1
      BY <1>5 DEF TrailingEdge
    <3>2. edges \in Nat /\ WORD \in Nat /\ edges <= 2 * WORD
      OBVIOUS
    <3>3. QED
      BY <3>1, <3>2, OddEdge
  <2>2. <<Mosi, (edges + 1) \div 2>> \in BitOf
    BY <2>1 DEF BitOf
  <2>3. SPIDAT' \in [1..WORD -> BitOf]
    BY <1>5, <2>2, ShiftInType DEF TrailingEdge
  <2>4. received' \in Seq(BitOf)
    BY <1>5 DEF TrailingEdge
  <2>5. edges' \in 0..(2 * WORD) /\ wait' \in Nat
    <3>1. edges' = edges + 1 /\ wait' = HALF - 1
      BY <1>5 DEF TrailingEdge
    <3>2. HALF - 1 \in Nat
      BY Parameters
    <3>3. QED
      BY <2>1, <3>1, <3>2
  <2>6. QED
    BY <1>5, <2>3, <2>4, <2>5 DEF TrailingEdge
<1>6. CASE Deselect
  BY <1>6 DEF Deselect, Service
<1>7. QED
  BY <1>1, <1>2, <1>3, <1>4, <1>5, <1>6 DEF MasterTick

LEMMA TickType == TypeOK /\ Tick => TypeOK'
<1> SUFFICES ASSUME TypeOK, Tick PROVE TypeOK'
  OBVIOUS
<1>1. AdcTick /\ MasterTick
  BY DEF Tick
<1>2. lag' \in 0..SLOW
  BY Parameters DEF Tick, TypeOK
<1>3. /\ pc' = pc /\ vector' = vector /\ Vbus' = Vbus
      /\ IER' = IER /\ ENPIE' = ENPIE /\ PIEIER' = PIEIER /\ PIEACK' = PIEACK
      /\ INTM' = INTM /\ adc' = adc /\ INPUT5' = INPUT5 /\ talk' = talk
  BY DEF Tick, cpu, setup
<1>4. QED
  BY <1>1, <1>2, <1>3, AdcTickType, MasterTickType DEF TypeOK

LEMMA NextType == TypeOK /\ [Next]_vars => TypeOK'
<1> SUFFICES ASSUME TypeOK, [Next]_vars PROVE TypeOK'
  OBVIOUS
<1>1. CASE UNCHANGED vars
  BY <1>1 DEF vars, cpu, pie, setup, adcRun, master, TypeOK
<1>2. QED
  BY <1>1, CpuType, TickType DEF Next

\* The registers of the DSP stay in their ranges, and the master never makes
\* more than 2 * WORD edges in a frame.
THEOREM TypeCorrect == Spec => []TypeOK
BY InitType, NextType, PTL DEF Spec

-----------------------------------------------------------------------------
(* The interrupt path.                                                     *)

LEMMA IrqInit == Init => IrqInv
BY DEF Init, IrqInv, Isr, Boot

LEMMA IrqCpu == TypeOK /\ IrqInv /\ Cpu => IrqInv'
<1> SUFFICES ASSUME TypeOK, IrqInv, Cpu PROVE IrqInv'
  OBVIOUS
<1> USE DEF TypeOK, IrqInv, Cpu, Goto, Boot, Isr, setup, adcRun, master, pie, cpu
<1>1. CASE DisableInterrupts \/ InitPieCtrl \/ InitPieVectTable \/ SetVector
  BY <1>1 DEF DisableInterrupts, InitPieCtrl, InitPieVectTable, SetVector
<1>2. CASE spi_init \/ adc_config \/ SetupADCSoftwareSync
  BY <1>2 DEF spi_init, adc_config, SetupADCSoftwareSync
<1>3. CASE EnableGroup \/ EnablePie \/ EnableAdcInt \/ RouteCs \/ EnableInterrupts
  BY <1>3 DEF EnableGroup, EnablePie, EnableAdcInt, RouteCs, EnableInterrupts
<1>4. CASE TakeInterrupt
  BY <1>4 DEF TakeInterrupt
<1>5. CASE IsrRead \/ IsrStore
  BY <1>5 DEF IsrRead, IsrStore
<1>6. CASE IsrClear \/ IsrAck
  BY <1>6 DEF IsrClear, IsrAck
<1>7. CASE Loop
  BY <1>7 DEF Loop
<1>8. QED
  BY <1>1, <1>2, <1>3, <1>4, <1>5, <1>6, <1>7 DEF BootStep

LEMMA IrqTick == TypeOK /\ IrqInv /\ Tick => IrqInv'
<1> SUFFICES ASSUME TypeOK, IrqInv, Tick PROVE IrqInv'
  OBVIOUS
<1>1. /\ pc' = pc /\ vector' = vector /\ adc' = adc
      /\ IER' = IER /\ ENPIE' = ENPIE /\ PIEIER' = PIEIER /\ PIEACK' = PIEACK
      /\ INTM' = INTM
  BY DEF Tick, cpu, setup
<1>2. \/ UNCHANGED <<ADCINT1, PIEIFR>>
      \/ RaiseFlag
  BY DEF Tick, AdcTick
<1>3. ADCINT1' = 1 => PIEIFR' = 1 \/ pc \in {"isr_read", "isr_store", "isr_clear"}
  BY <1>2 DEF IrqInv, RaiseFlag, TypeOK
<1>4. ~adc.int1e /\ ADCINT1 = 0 => ADCINT1' = 0
  BY <1>2 DEF RaiseFlag
<1>5. QED
  BY <1>1, <1>3, <1>4 DEF IrqInv

LEMMA IrqNext == TypeOK /\ IrqInv /\ [Next]_vars => IrqInv'
<1> SUFFICES ASSUME TypeOK, IrqInv, [Next]_vars PROVE IrqInv'
  OBVIOUS
<1>1. CASE UNCHANGED vars
  BY <1>1 DEF vars, cpu, pie, setup, IrqInv
<1>2. QED
  BY <1>1, IrqCpu, IrqTick DEF Next

THEOREM IrqInvariant == Spec => []IrqInv
<1>1. Init => TypeOK /\ IrqInv
  BY InitType, IrqInit
<1>2. TypeOK /\ IrqInv /\ [Next]_vars => (TypeOK /\ IrqInv)'
  BY NextType, IrqNext
<1>3. QED
  BY <1>1, <1>2, PTL DEF Spec

\* No order of boot statements, conversions and rises of CS sends the
\* processor into a default interrupt routine.
THEOREM NeverHaltsAlways == Spec => []NeverHalts
<1>1. IrqInv => NeverHalts
  BY DEF IrqInv, NeverHalts
<1>2. QED
  BY <1>1, IrqInvariant, PTL

\* A flag that is up while the program is in its loop is always served, even
\* when conversions end in the middle of the interrupt routine.
THEOREM NoJamAlways == Spec => []NoJam
<1>1. IrqInv => NoJam
  BY DEF IrqInv, NoJam, Pending
<1>2. QED
  BY <1>1, IrqInvariant, PTL

-----------------------------------------------------------------------------
(* The word of a frame.                                                    *)

LEMMA SetupInit == Init => SetupInv
BY DEF Init, SetupInv, Isr

LEMMA SetupCpu == TypeOK /\ SetupInv /\ Cpu => SetupInv'
<1> SUFFICES ASSUME TypeOK, SetupInv, Cpu PROVE SetupInv'
  OBVIOUS
<1> USE DEF TypeOK, SetupInv, Cpu, Goto, Isr, setup
<1>1. CASE DisableInterrupts \/ InitPieCtrl \/ InitPieVectTable \/ SetVector \/ spi_init
  BY <1>1 DEF DisableInterrupts, InitPieCtrl, InitPieVectTable, SetVector, spi_init
<1>2. CASE adc_config \/ SetupADCSoftwareSync
  BY <1>2 DEF adc_config, SetupADCSoftwareSync
<1>3. CASE EnableGroup \/ EnablePie \/ EnableAdcInt \/ RouteCs \/ EnableInterrupts
  BY <1>3 DEF EnableGroup, EnablePie, EnableAdcInt, RouteCs, EnableInterrupts
<1>4. CASE TakeInterrupt \/ Loop
  BY <1>4 DEF TakeInterrupt, Loop, cpu
<1>5. CASE IsrRead \/ IsrStore \/ IsrClear \/ IsrAck
  BY <1>5 DEF IsrRead, IsrStore, IsrClear, IsrAck
<1>6. QED
  BY <1>1, <1>2, <1>3, <1>4, <1>5 DEF BootStep

LEMMA SetupNext == TypeOK /\ SetupInv /\ [Next]_vars => SetupInv'
<1> SUFFICES ASSUME TypeOK, SetupInv, [Next]_vars PROVE SetupInv'
  OBVIOUS
<1>1. CASE Tick \/ UNCHANGED vars
  <2>1. pc' = pc /\ adc' = adc /\ INPUT5' = INPUT5 /\ talk' = talk
    BY <1>1 DEF Tick, vars, cpu, setup
  <2>2. QED
    BY <2>1 DEF SetupInv
<1>2. QED
  BY <1>1, SetupCpu DEF Next

\* In the loop a flag in the PIE is an interrupt that the CPU takes at once.
LEMMA LoopPending ==
    ASSUME TypeOK, IrqInv, pc = "loop"
    PROVE  Pending <=> PIEIFR = 1
BY DEF TypeOK, IrqInv, Isr, Pending

\* A statement of the program, in a frame that found the DSP idle.
LEMMA FreshCpu ==
    ASSUME TypeOK, IrqInv, FreshInv, Cpu
    PROVE  FreshInv'
<1> SUFFICES ASSUME cs' = 1, Timely' PROVE Loading' \/ Stored'
  BY DEF FreshInv
<1>1. /\ cs' = cs /\ ready' = ready /\ delay' = delay /\ wait' = wait
      /\ edges' = edges /\ received' = received /\ rise' = rise /\ miso' = miso
      /\ conv' = conv /\ soc' = soc /\ ext' = ext /\ sampled' = sampled
      /\ ADCRESULT0' = ADCRESULT0 /\ lag' = 0
  BY DEF Cpu, master, adcRun
<1>2. Loading \/ Stored
  BY <1>1 DEF FreshInv, Timely
<1>3. pc \notin Boot => TakeInterrupt \/ IsrRead \/ IsrStore \/ IsrClear \/ IsrAck \/ Loop
  BY DEF Cpu, BootStep, Goto, Boot, DisableInterrupts, InitPieCtrl, InitPieVectTable,
         SetVector, spi_init, adc_config, SetupADCSoftwareSync, EnableGroup,
         EnablePie, EnableAdcInt, RouteCs, EnableInterrupts
<1>4. Age' = Age /\ (Converted' <=> Converted)
  BY <1>1 DEF Age, Converted
<1>5. lag \in 0..SLOW /\ SLOW \in Nat /\ CONV \in Nat /\ Age \in Int
  BY Parameters DEF TypeOK, Age
<1>6. CASE Loading /\ (Risen \/ Triggering \/ Converting)
  <2>1. pc = "loop" /\ PIEIFR = 0
    BY <1>6 DEF Risen, Triggering, Converting
  <2>2. Loop
    BY <1>3, <2>1, LoopPending
       DEF Boot, TakeInterrupt, IsrRead, IsrStore, IsrClear, IsrAck, Goto
  <2>3. pc' = pc /\ PIEIFR' = PIEIFR
    BY <2>2 DEF Loop, cpu, pie
  <2>4. QED
    BY <1>1, <1>4, <1>6, <2>3 DEF Loading, Risen, Triggering, Converting
<1>7. CASE Loading /\ Flagged
  <2>1. pc = "loop" /\ Pending
    BY <1>7, LoopPending DEF Flagged
  <2>2. TakeInterrupt
    BY <1>3, <2>1 DEF Boot, Loop, IsrRead, IsrStore, IsrClear, IsrAck, Goto
  <2>3. pc' = "isr_read" /\ PIEIFR' = 0
    BY <2>1, <2>2 DEF TakeInterrupt, IrqInv
  <2>4. Age' - lag' <= CONV + 1 + SLOW
    BY <1>1, <1>4, <1>5, <1>7 DEF Flagged
  <2>5. QED
    BY <1>1, <1>4, <1>7, <2>3, <2>4 DEF Loading, Flagged, Taken
<1>8. CASE Loading /\ Taken
  <2>1. IsrRead
    BY <1>3, <1>8 DEF Taken, Boot, TakeInterrupt, Loop, IsrStore, IsrClear, IsrAck, Goto
  <2>2. pc' = "isr_store" /\ PIEIFR' = PIEIFR /\ Vbus' = ADCRESULT0
    BY <2>1 DEF IsrRead, Goto, pie
  <2>3. Age' - lag' <= CONV + 1 + 2 * SLOW
    BY <1>1, <1>4, <1>5, <1>8 DEF Taken
  <2>4. QED
    BY <1>1, <1>4, <1>8, <2>2, <2>3 DEF Loading, Taken, Fetched
<1>9. CASE Loading /\ Fetched
  <2>1. IsrStore
    BY <1>3, <1>9 DEF Fetched, Boot, TakeInterrupt, Loop, IsrRead, IsrClear, IsrAck, Goto
  <2>2. pc' = "isr_clear" /\ PIEIFR' = PIEIFR /\ SPIDAT' = WordOf(Vbus)
    BY <2>1 DEF IsrStore, Goto, pie
  <2>3. edges' = 0 /\ received' = <<>> /\ Vbus = rise
    BY <1>1, <1>9 DEF Loading, Fetched
  <2>4. Sending(rise, 0)'
    BY <1>1, <2>2, <2>3, Parameters DEF Sending, WordOf
  <2>5. edges' \div 2 = 0 /\ edges' % 2 = 0
    BY <2>3
  <2>6. QED
    BY <1>1, <1>4, <1>9, <2>2, <2>4, <2>5 DEF Fetched, Stored
<1>10. CASE Stored
  <2>1. pc \in {"isr_clear", "isr_ack", "loop"} /\ PIEIFR = 0
    BY <1>10 DEF Stored
  <2>2. IsrClear \/ IsrAck \/ Loop
    BY <1>3, <2>1, LoopPending DEF Boot, TakeInterrupt, IsrRead, IsrStore, Goto
  <2>3. /\ pc' \in {"isr_clear", "isr_ack", "loop"} /\ PIEIFR' = PIEIFR
        /\ SPIDAT' = SPIDAT
    BY <2>1, <2>2 DEF IsrClear, IsrAck, Loop, Goto, cpu, pie
  <2>4. Sending(rise, edges \div 2)' <=> Sending(rise, edges \div 2)
    BY <1>1, <2>3 DEF Sending
  <2>5. QED
    BY <1>1, <1>4, <1>10, <2>3, <2>4 DEF Stored
<1>11. QED
  BY <1>2, <1>6, <1>7, <1>8, <1>9, <1>10 DEF Loading

\* What a tick of the ADC does, field by field.
LEMMA AdcFields ==
    ASSUME AdcTick
    PROVE  /\ ext' = Level
           /\ soc' <=> (Triggered \/ (soc /\ ~Starts))
           /\ Starts => conv' = CONV /\ sampled' = rise
           /\ ~Starts => conv' = (IF conv > 0 THEN conv - 1 ELSE 0) /\ sampled' = sampled
           /\ ADCRESULT0' = IF Ends THEN sampled ELSE ADCRESULT0
           /\ adc.late /\ Ends => RaiseFlag
           /\ adc.late /\ ~Ends => PIEIFR' = PIEIFR
<1>1. soc' <=> (Triggered \/ (soc /\ ~Starts))
  BY Zenon DEF AdcTick
<1>2. QED
  BY <1>1 DEF AdcTick

\* A tick of the ADC once the conversion of this frame is done.
LEMMA AdcDone ==
    ASSUME TypeOK, SetupInv, AdcTick, Converted, cs = 1, pc \in {"loop"} \cup Isr
    PROVE  Converted' /\ PIEIFR' = PIEIFR /\ ADCRESULT0' = ADCRESULT0
<1>1. INPUT5 = "CS" /\ adc.late
  BY DEF SetupInv
<1>2. Level = 1 /\ ~Triggered /\ ~Starts /\ ~Ends
  BY <1>1 DEF Converted, Level, Triggered, Starts, Ends
<1>3. QED
  BY <1>1, <1>2, AdcFields DEF Converted

\* The bits on the wire, one edge of SCLK further.
LEMMA SendLeading ==
    ASSUME TypeOK, Sending(rise, edges \div 2), talk, LeadingEdge
    PROVE  /\ Sending(rise, edges \div 2)'
           /\ edges' % 2 = 1 => miso' = <<rise', edges' \div 2 + 1>>
<1>1. edges \in Nat /\ edges % 2 = 0 /\ edges < 2 * WORD /\ WORD \in Nat
  BY Parameters DEF TypeOK, LeadingEdge
<1>2. PICK p \in Nat : edges = 2 * p
  <2>1. edges = 2 * (edges \div 2) /\ edges \div 2 \in Nat
    BY <1>1
  <2>2. QED
    BY <2>1
<1>3. edges' = 2 * p + 1
  BY <1>2 DEF LeadingEdge
<1>4. edges \div 2 = p /\ edges' \div 2 = p /\ p < WORD
  BY <1>1, <1>2, <1>3
<1>5. /\ SPIDAT' = SPIDAT /\ received' = received /\ rise' = rise
      /\ miso' = SPIDAT[1]
  BY DEF LeadingEdge
<1>6. 1 \in 1..(WORD - p) /\ 1 + p = p + 1
  BY <1>1, <1>4
<1>7. SPIDAT[1] = <<rise, p + 1>>
  BY <1>4, <1>6 DEF Sending
<1>8. QED
  BY <1>4, <1>5, <1>7 DEF Sending

LEMMA SendTrailing ==
    ASSUME TypeOK, Sending(rise, edges \div 2), talk, TrailingEdge,
           miso = <<rise, edges \div 2 + 1>>
    PROVE  Sending(rise, edges \div 2)' /\ edges' % 2 = 0
<1>1. edges \in Nat /\ edges % 2 = 1 /\ edges <= 2 * WORD /\ WORD \in Nat
  BY Parameters DEF TypeOK, TrailingEdge
<1>2. PICK p \in Nat : edges = 2 * p + 1
  <2>1. edges = 2 * (edges \div 2) + 1 /\ edges \div 2 \in Nat
    BY <1>1
  <2>2. QED
    BY <2>1
<1>3. edges' = 2 * (p + 1)
  BY <1>2 DEF TrailingEdge
<1>4. edges \div 2 = p /\ edges' \div 2 = p + 1 /\ edges' % 2 = 0
  BY <1>2, <1>3
<1>5. PICK b : SPIDAT' = ShiftIn(SPIDAT, b)
  BY DEF TrailingEdge
<1>6. received' = Append(received, miso) /\ rise' = rise
  BY DEF TrailingEdge
<1>7. ASSUME NEW i \in 1..(WORD - (p + 1)) PROVE SPIDAT'[i] = <<rise, i + (p + 1)>>
  <2>1. i \in 1..WORD /\ i < WORD /\ i + 1 \in 1..(WORD - p)
    BY <1>1
  <2>2. SPIDAT'[i] = SPIDAT[i + 1]
    BY <1>5, <2>1 DEF ShiftIn
  <2>3. i + 1 + p = i + (p + 1)
    BY <2>1
  <2>4. QED
    BY <1>4, <2>1, <2>2, <2>3 DEF Sending
<1>8. received \in Seq(BitOf) /\ Len(received) = p
  BY <1>4 DEF TypeOK, Sending
<1>9. Len(received') = p + 1
  BY <1>6, <1>8
<1>10. ASSUME NEW i \in 1..(p + 1) PROVE received'[i] = <<rise, i>>
  <2>1. CASE i = p + 1
    BY <1>4, <1>6, <1>8, <2>1
  <2>2. CASE i # p + 1
    <3>1. i \in 1..p
      BY <2>2
    <3>2. received'[i] = received[i]
      BY <1>6, <1>8, <3>1
    <3>3. QED
      BY <1>4, <3>1, <3>2 DEF Sending
  <2>3. QED
    BY <2>1, <2>2
<1>11. QED
  BY <1>4, <1>6, <1>7, <1>9, <1>10 DEF Sending

\* A tick in a frame before the store: it cannot be the tick of the first edge.
LEMMA LoadingTick ==
    ASSUME TypeOK, IrqInv, SetupInv, Tick, cs = 1, cs' = 1, Timely, Loading
    PROVE  Loading'
<1>1. /\ CONV \in Nat /\ CONV > 0 /\ SLOW \in Nat /\ SLOW > 0 /\ lag \in 0..SLOW
      /\ wait \in Nat /\ delay \in Nat /\ Age \in Int /\ conv \in 0..CONV
      /\ lag \in Int /\ edges \in Nat
  BY Parameters DEF TypeOK, Age
<1>2. pc \in {"loop", "isr_read", "isr_store"} /\ edges = 0 /\ received = <<>>
  BY DEF Loading, Risen, Triggering, Converting, Flagged, Taken, Fetched
<1>3. lag < SLOW /\ lag' = lag + 1
  BY <1>2 DEF Tick, Boot
<1>4. AdcTick /\ MasterTick /\ pc' = pc /\ Vbus' = Vbus
  BY DEF Tick, cpu
<1>5. Age < CONV + 1 + 3 * SLOW
  <2>1. CASE Risen \/ Triggering
    BY <1>1, <2>1 DEF Risen, Triggering
  <2>2. CASE Converting
    BY <1>1, <2>2 DEF Converting
  <2>3. CASE Flagged \/ Taken \/ Fetched
    BY <1>1, <1>3, <2>3 DEF Flagged, Taken, Fetched
  <2>4. QED
    BY <2>1, <2>2, <2>3 DEF Loading
<1>6. delay >= CONV + 2 + 3 * SLOW
  BY DEF Timely, Needed
<1>7. wait > 0
  BY <1>1, <1>5, <1>6 DEF Age
<1>8. Wait
  BY <1>2, <1>4, <1>7 DEF MasterTick, Deselected, Select, LeadingEdge, TrailingEdge, Deselect
<1>9. /\ wait' = wait - 1 /\ edges' = 0 /\ received' = <<>>
      /\ rise' = rise /\ delay' = delay
  BY <1>2, <1>8 DEF Wait
<1>10. Age' = Age + 1
  BY <1>1, <1>9 DEF Age
<1>11. /\ INPUT5 = "CS" /\ adc.on /\ adc.trigger /\ adc.int1e /\ adc.late
       /\ Level = 1
  BY <1>2 DEF SetupInv, Isr, Level
<1>12. CASE Risen
  <2>1. Triggered /\ ~Starts /\ ~Ends
    BY <1>11, <1>12 DEF Risen, Triggered, Starts, Ends
  <2>2. ext' = 1 /\ soc' /\ conv' = 0 /\ PIEIFR' = PIEIFR
    BY <1>4, <1>11, <1>12, <2>1, AdcFields DEF Risen
  <2>3. Triggering'
    BY <1>1, <1>4, <1>10, <1>12, <2>2 DEF Risen, Triggering
  <2>4. QED
    BY <1>9, <2>3 DEF Loading
<1>13. CASE Triggering
  <2>1. ~Triggered /\ Starts /\ ~Ends
    BY <1>13 DEF Triggering, Triggered, Starts, Ends
  <2>2. ext' = 1 /\ ~soc' /\ conv' = CONV /\ sampled' = rise /\ PIEIFR' = PIEIFR
    BY <1>4, <1>11, <2>1 DEF AdcTick
  <2>3. Converting'
    BY <1>1, <1>4, <1>9, <1>10, <1>13, <2>2 DEF Triggering, Converting
  <2>4. QED
    BY <1>9, <2>3 DEF Loading
<1>14. CASE Converting /\ conv > 1
  <2>1. ~Triggered /\ ~Starts /\ ~Ends
    BY <1>14 DEF Converting, Triggered, Starts, Ends
  <2>2. ext' = 1 /\ ~soc' /\ conv' = conv - 1 /\ sampled' = sampled /\ PIEIFR' = PIEIFR
    BY <1>1, <1>4, <1>11, <1>14, <2>1 DEF AdcTick, Converting
  <2>3. Converting'
    BY <1>1, <1>4, <1>9, <1>10, <1>14, <2>2 DEF Converting
  <2>4. QED
    BY <1>9, <2>3 DEF Loading
<1>15. CASE Converting /\ conv = 1
  <2>1. ~Triggered /\ ~Starts /\ Ends
    BY <1>15 DEF Converting, Triggered, Starts, Ends
  <2>2. ADCINT1 = 0
    BY <1>15 DEF Converting, IrqInv, TypeOK
  <2>3. /\ ext' = 1 /\ ~soc' /\ conv' = 0 /\ ADCRESULT0' = sampled
        /\ PIEIFR' = 1
    BY <1>4, <1>11, <1>15, <2>1, <2>2, AdcFields DEF RaiseFlag, Converting
  <2>4. Age' - lag' <= CONV + 1
    BY <1>1, <1>3, <1>10, <1>15 DEF Converting
  <2>5. Flagged'
    BY <1>4, <1>9, <1>15, <2>3, <2>4 DEF Converting, Flagged, Converted
  <2>6. QED
    BY <1>9, <2>5 DEF Loading
<1>16. CASE Flagged \/ Taken \/ Fetched
  <2>1. Converted /\ pc \in {"loop"} \cup Isr
    BY <1>16 DEF Flagged, Taken, Fetched, Isr
  <2>2. Converted' /\ PIEIFR' = PIEIFR /\ ADCRESULT0' = ADCRESULT0
    BY <1>4, <2>1, AdcDone
  <2>3. Age' - lag' = Age - lag
    BY <1>1, <1>3, <1>10
  <2>4. Flagged' \/ Taken' \/ Fetched'
    BY <1>4, <1>9, <1>16, <2>2, <2>3 DEF Flagged, Taken, Fetched
  <2>5. QED
    BY <1>9, <2>4 DEF Loading
<1>17. QED
  BY <1>1, <1>12, <1>13, <1>14, <1>15, <1>16 DEF Loading, Converting

LEMMA StoredTick ==
    ASSUME TypeOK, SetupInv, Tick, cs = 1, cs' = 1, Stored
    PROVE  Stored'
<1>1. pc \in {"isr_clear", "isr_ack", "loop"} /\ pc' = pc /\ AdcTick /\ MasterTick
  BY DEF Stored, Tick, cpu
<1>2. Converted' /\ PIEIFR' = 0 /\ talk
  BY <1>1, AdcDone DEF Stored, SetupInv, Isr
<1>3. /\ Sending(rise, edges \div 2)
      /\ edges % 2 = 1 => miso = <<rise, edges \div 2 + 1>>
  BY DEF Stored
<1>4. /\ Sending(rise, edges \div 2)'
      /\ edges' % 2 = 1 => miso' = <<rise', edges' \div 2 + 1>>
  <2>1. CASE Wait
    BY <1>3, <2>1 DEF Wait, Sending
  <2>2. CASE LeadingEdge
    BY <1>2, <1>3, <2>2, SendLeading
  <2>3. CASE TrailingEdge
    <3>1. miso = <<rise, edges \div 2 + 1>>
      BY <1>3, <2>3 DEF TrailingEdge
    <3>2. QED
      BY <1>2, <1>3, <2>3, <3>1, SendTrailing
  <2>4. QED
    BY <1>1, <2>1, <2>2, <2>3 DEF MasterTick, Deselected, Select, Deselect
<1>5. QED
  BY <1>1, <1>2, <1>4 DEF Stored

\* The rise of CS itself, on an idle DSP.
LEMMA RiseTick ==
    ASSUME TypeOK, SetupInv, Tick, Select, ready'
    PROVE  Loading'
<1>1. /\ pc = "loop" /\ pc' = "loop" /\ PIEIFR = 0 /\ conv = 0 /\ ~soc
      /\ cs = 0 /\ AdcTick
      /\ edges' = 0 /\ received' = <<>> /\ wait' = delay' - 1 /\ delay' \in Nat
  BY Parameters DEF Select, Idle, Tick, cpu
<1>2. Level = 0 /\ ~Triggered /\ ~Starts /\ ~Ends /\ adc.late
  BY <1>1 DEF Level, Triggered, Starts, Ends, SetupInv
<1>3. ext' = 0 /\ ~soc' /\ conv' = 0 /\ PIEIFR' = 0
  BY <1>1, <1>2, AdcFields
<1>4. Age' = 0
  <2>1. PICK d \in Nat : delay' = d /\ wait' = d - 1
    BY <1>1
  <2>2. d - 1 - (d - 1) = 0
    OBVIOUS
  <2>3. QED
    BY <2>1, <2>2 DEF Age
<1>5. QED
  BY <1>1, <1>3, <1>4 DEF Loading, Risen

LEMMA FreshTick ==
    ASSUME TypeOK, IrqInv, SetupInv, FreshInv, Tick
    PROVE  FreshInv'
<1> SUFFICES ASSUME cs' = 1, Timely' PROVE Loading' \/ Stored'
  BY DEF FreshInv
<1>1. CASE Select
  BY <1>1, RiseTick DEF Timely
<1>2. CASE ~Select
  <2>1. Wait \/ LeadingEdge \/ TrailingEdge
    BY <1>2 DEF Tick, MasterTick, Deselected, Deselect
  <2>2. cs = 1 /\ ready' = ready /\ delay' = delay
    BY <2>1 DEF Wait, LeadingEdge, TrailingEdge
  <2>3. Timely /\ (Loading \/ Stored)
    BY <2>2 DEF Timely, FreshInv
  <2>4. QED
    BY <2>2, <2>3, LoadingTick, StoredTick
<1>3. QED
  BY <1>1, <1>2

LEMMA FreshNext ==
    ASSUME TypeOK, IrqInv, SetupInv, FreshInv, [Next]_vars
    PROVE  FreshInv'
<1>1. CASE UNCHANGED vars
  BY <1>1 DEF vars, cpu, pie, setup, adcRun, master, FreshInv, Timely, Loading, Stored,
              Risen, Triggering, Converting, Flagged, Taken, Fetched, Converted, Age,
              Sending
<1>2. QED
  BY <1>1, FreshCpu, FreshTick DEF Next

\* A frame that found the DSP idle, with a delay of at least Needed, carries
\* the whole sample of its own rise of CS, for every length of word, every
\* conversion time and speed of the interrupt routine, through frames cut short
\* by resets and frames with too short a delay.
THEOREM FreshWordAlways == Spec => []FreshWord
<1>1. Init => SetupInv /\ FreshInv
  BY SetupInit DEF Init, FreshInv
<1>2. TypeOK /\ IrqInv /\ SetupInv /\ FreshInv /\ [Next]_vars => (SetupInv /\ FreshInv)'
  BY SetupNext, FreshNext
<1>3. TypeOK /\ FreshInv => FreshWord
  <2> SUFFICES ASSUME TypeOK, FreshInv, cs = 1, edges = 2 * WORD, Timely
               PROVE  received = WordOf(rise)
    BY DEF FreshWord
  <2>1. WORD \in Nat /\ WORD > 0 /\ edges \div 2 = WORD /\ edges # 0
    BY Parameters
  <2>2. Sending(rise, WORD)
    BY <2>1 DEF FreshInv, Loading, Stored
  <2>3. /\ received \in Seq(BitOf) /\ Len(received) = WORD
        /\ \A i \in 1..WORD : received[i] = <<rise, i>>
    BY <2>2 DEF TypeOK, Sending
  <2>4. received = [i \in 1..WORD |-> received[i]]
    BY <2>1, <2>3
  <2>5. QED
    BY <2>3, <2>4 DEF WordOf
<1>4. QED
  BY <1>1, <1>2, <1>3, TypeCorrect, IrqInvariant, PTL DEF Spec
=============================================================================
