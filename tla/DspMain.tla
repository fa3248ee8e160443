------------------------------- MODULE DspMain -------------------------------
(***************************************************************************)
(* Main.c and the functions of F2837xS_EPwm.c, F2837xS_Spi.c,              *)
(* F2837xS_Adc.c and F2837xS_PieCtrl.c, as the lists of statements that    *)
(* DspDevice describes.                                                    *)
(***************************************************************************)
EXTENDS DspDevice

(* F2837xS_EPwm.c: two output pins for each of the twelve modules *)

PwmPins(a, b) == Protected(<<Pin({a, b}, "pud", 1), Pin({a, b}, "mux", 1)>>)
InitEPwm1Gpio  == PwmPins(0, 1)
InitEPwm2Gpio  == PwmPins(2, 3)
InitEPwm3Gpio  == PwmPins(4, 5)
InitEPwm4Gpio  == PwmPins(6, 7)
InitEPwm5Gpio  == PwmPins(8, 9)
InitEPwm6Gpio  == PwmPins(10, 11)
InitEPwm7Gpio  == PwmPins(12, 13)
InitEPwm8Gpio  == PwmPins(14, 15)
InitEPwm9Gpio  == PwmPins(161, 162)
InitEPwm10Gpio == PwmPins(163, 164)
InitEPwm11Gpio == PwmPins(165, 166)
InitEPwm12Gpio == PwmPins(167, 168)
InitEPwmGpio == InitEPwm1Gpio \o InitEPwm2Gpio \o InitEPwm3Gpio \o InitEPwm4Gpio
  \o InitEPwm5Gpio \o InitEPwm6Gpio \o InitEPwm7Gpio \o InitEPwm8Gpio
  \o InitEPwm9Gpio \o InitEPwm10Gpio \o InitEPwm11Gpio \o InitEPwm12Gpio
------------------------------------------------------------------------------
(* F2837xS_Spi.c, and spi_init() of Main.c *)

SPIA == {<<"SPI", "A">>}
SPIB == {<<"SPI", "B">>}
InitSpi == <<Of(SPIA, {"SPIA_SPISWRESET", "SPIA_CLKPOLARITY"}, 0), Of(SPIA, {"SPIA_SPICHAR"}, 15),
             Of(SPIA, {"SPIA_SPILBK", "SPIA_MASTER_SLAVE", "SPIA_TALK"}, 1),
             Of(SPIA, {"SPIA_CLK_PHASE", "SPIA_SPIINTENA"}, 0),
             Of(SPIA, {"SPIA_SPI_BIT_RATE"}, 99), Of(SPIA, {"SPIA_FREE"}, 1),
             Of(SPIA, {"SPIA_SPISWRESET"}, 1)>>
InitSpiaGpio == Protected(<<Pin(16..19, "pud", 0), Pin(16..19, "qsel", 3), Pin(16..19, "mux", 1)>>)
InitSpiGpio  == InitSpiaGpio

SpibPin(pin, pullup, output) ==
  <<Pin({pin}, "pud", pullup), Pin({pin}, "qsel", 3), Pin({pin}, "gmux", 1),
    Pin({pin}, "mux", 2), Pin({pin}, "dir", output)>>
spi_init ==
  Protected(SpibPin(22, 1, 0) \o SpibPin(23, 0, 0) \o SpibPin(24, 1, 0) \o SpibPin(25, 0, 1)
    \o <<Of(SPIB, {"SPIB_SPISWRESET", "SPIB_CLKPOLARITY", "SPIB_HS_MODE", "SPIB_SPILBK"}, 0),
         Of(SPIB, {"SPIB_SPICHAR"}, 15),
         Of(SPIB, {"SPIB_OVERRUNINTENA", "SPIB_CLK_PHASE", "SPIB_MASTER_SLAVE"}, 0),
         Of(SPIB, {"SPIB_TALK"}, 1), Of(SPIB, {"SPIB_SPIINTENA"}, 0),
         Of(SPIB, {"SPIB_SPI_BIT_RATE"}, 39),
         Of(SPIB, {"SPIB_FREE", "SPIB_STEINV", "SPIB_SPISWRESET"}, 1)>>)
------------------------------------------------------------------------------
(* F2837xS_Adc.c, and the ADC set-up of Main.c *)

\* An ADC as the functions see it: its number, its clock and its registers.  The four are
\* alike; main() sets up ADC A.
AdcaRegs ==
  [adc |-> 0, unit |-> {<<"ADC", "A">>},
   PRESCALE |-> "ADCA_PRESCALE", RESOLUTION |-> "ADCA_RESOLUTION", SIGNALMODE |-> "ADCA_SIGNALMODE",
   OFFTRIM |-> "ADCA_OFFTRIM", INLTRIM_HIGH |-> "ADCA_INLTRIM_HIGH", INLTRIM_LOW |-> "ADCA_INLTRIM_LOW",
   INTPULSEPOS |-> "ADCA_INTPULSEPOS", INT1SEL |-> "ADCA_INT1SEL", INT1E |-> "ADCA_INT1E",
   INTFLGCLR |-> "ADCAINTFLGCLR", ADCPWDNZ |-> "ADCA_ADCPWDNZ", CHSEL |-> "ADCA_CHSEL",
   ACQPS |-> "ADCA_ACQPS", TRIGSEL |-> "ADCA_TRIGSEL"]

\* The OTP memory, when it is programmed (otp), holds a linearity trim for each ADC and an
\* offset trim for each ADC and mode.
INLTRIM == 1
GetAdcOffsetTrimOTP(index) == 1 + index
OffsetTrim(x, resolution, signalmode, otp) ==
  IF otp THEN GetAdcOffsetTrimOTP(4 * x.adc + 2 * resolution + signalmode) ELSE 0
InAdc(x, field, v) == Of(x.unit, {field}, v)
CalAdcINL(x, otp) ==
  If(otp, <<InAdc(x, x.INLTRIM_HIGH, INLTRIM), InAdc(x, x.INLTRIM_LOW, INLTRIM)>>)

\* At 12 bits (0) the low halves of the linearity trims are cleared again.
SetMode(x, resolution, signalmode, otp) ==
  <<InAdc(x, x.RESOLUTION, resolution), InAdc(x, x.SIGNALMODE, signalmode),
    InAdc(x, x.OFFTRIM, OffsetTrim(x, resolution, signalmode, otp))>>
    \o If(resolution = 0, <<InAdc(x, x.INLTRIM_LOW, 0)>>)
AdcSetMode_stale(x, resolution, signalmode, otp) ==                     \* mutant
  SetMode(x, resolution, signalmode, otp)
AdcSetMode(x, resolution, signalmode, otp) ==
  CalAdcINL(x, otp) \o SetMode(x, resolution, signalmode, otp)

\* The mode is set between EALLOW and EDIS: AdcSetMode() relies on its caller for them.
adc_config(otp) ==
  LET x == AdcaRegs IN
  Protected(<<InAdc(x, x.PRESCALE, 6)>> \o AdcSetMode(x, 0, 0, otp)
    \o <<InAdc(x, x.INTPULSEPOS, 1), InAdc(x, x.INT1SEL, 0), InAdc(x, x.INT1E, 1),
         InAdc(x, x.INTFLGCLR, 1), InAdc(x, x.ADCPWDNZ, 1)>>)
SetupADCSoftwareSync(r) ==
  LET x == AdcaRegs IN
  Protected(<<InAdc(x, x.CHSEL, 2),
              InAdc(x, x.ACQPS, IF r[x.RESOLUTION] = 0 THEN 14 ELSE 63), InAdc(x, x.TRIGSEL, 4)>>)
------------------------------------------------------------------------------
(* F2837xS_PieCtrl.c and main() *)

InitPieCtrl == <<Set({"INTM"}, 1), Set({"ENPIE"}, 0),
                 [kind |-> "pie", enabled |-> {}], [kind |-> "flags"]>>
EnableInterrupts == <<Set({"ENPIE"}, 1), [kind |-> "ack", groups |-> 1..12], Set({"INTM"}, 0)>>
InitPieVectTable == <<EALLOW, [kind |-> "vectors"], EDIS, Set({"ENPIE"}, 1)>>
ADCA1 == <<1, 1>>          \* the channel of the ADC's interrupt
ADCA1_ISR == <<1, 0>>      \* the routine of Main.c for it, adca1_isr()

main(d) ==
  InitSysCtrl(d) \o InitSpiaGpio
    \o <<Set({"INTM"}, 1), Set({"IER"}, {}), Set({"IFR"}, 0)>>
    \o InitPieCtrl \o InitPieVectTable
    \o Protected(<<[kind |-> "vector", chan |-> ADCA1, routine |-> ADCA1_ISR]>>)
    \o spi_init \o adc_config(d.otp) \o <<Call("SetupADCSoftwareSync")>>
    \o <<Set({"IER"}, {1}), Set({"ENPIE"}, 1), [kind |-> "pie", enabled |-> {ADCA1}],
         Set({"XBARFLG2"}, 1)>>
    \o Protected(<<Set({"INPUT5SELECT"}, 23)>>)
    \o <<Set({"INTM"}, 0), Set({"DBGM"}, 0)>>
==============================================================================
