------------------------------ MODULE DspDevice ------------------------------
(***************************************************************************)
(* The device support of the DSP, F2837xS_*.c, and the set-up functions of *)
(* Main.c as what they are: straight-line lists of register writes, with a *)
(* few calls, waits and branches.  A function is a list of statements,     *)
(* which DspSystem executes one at a time; a branch is taken when the list *)
(* is made, from the registers r, or the pins, as they are at the call.    *)
(*                                                                         *)
(* Registers go by the name of the bit field that the code writes.  The    *)
(* sixteen-bit field SYSPLLMULT stands for IMULT and FMULT together.       *)
(***************************************************************************)
EXTENDS Integers, Sequences

CONSTANTS Pins                    \* the GPIO pins that are looked at

EALLOW == [kind |-> "protect", on |-> FALSE]
EDIS   == [kind |-> "protect", on |-> TRUE]
Of(unit, fields, v) == [kind |-> "reg", keys |-> fields, val |-> v, unit |-> unit]
Set(fields, v)     == Of({}, fields, v)     \* {}: registers that need no clock
Gate(modules, on)  == [kind |-> "gate", keys |-> modules, on |-> on]    \* PCLKCRn bits
Pin(pins, f, v)    == [kind |-> "pin", keys |-> pins \cap Pins, field |-> f, val |-> v]
Call(name)         == [kind |-> "call", name |-> name]
Await(what)        == [kind |-> "await", what |-> what]
Sleep(mode)        == [kind |-> "sleep", mode |-> mode]
Protected(list)    == <<EALLOW>> \o list \o <<EDIS>>
If(condition, list) == IF condition THEN list ELSE <<>>
Times(n, list) == [i \in 1..n * Len(list) |-> list[((i - 1) % Len(list)) + 1]]
------------------------------------------------------------------------------
(* F2837xS_SysCtrl.c: clocks *)

Units(name, S) == {<<name, s>> : s \in S}
Converters == Units("ADC", {"A", "B", "C", "D"})
Peripherals ==
  Units("CPU", {"CLA1", "DMA", "TIMER0", "TIMER1", "TIMER2", "HRPWM", "TBCLKSYNC"})
    \cup Units("EMIF", {"1", "2"})
    \cup Units("EPWM", {"1", "2", "3", "4", "5", "6", "7", "8", "9", "10", "11", "12"})
    \cup Units("ECAP", {"1", "2", "3", "4", "5", "6"}) \cup Units("EQEP", {"1", "2", "3"})
    \cup Units("SD", {"1", "2"}) \cup Units("SCI", {"A", "B", "C", "D"})
    \cup Units("SPI", {"A", "B", "C"}) \cup Units("I2C", {"A", "B"})
    \cup Units("CAN", {"A", "B"}) \cup Units("McBSP", {"A", "B"})
    \cup Units("USB", {"A"}) \cup Units("uPP", {"A"}) \cup Converters
    \cup Units("CMPSS", {"1", "2", "3", "4", "5", "6", "7", "8"})
    \cup Units("DAC", {"A", "B", "C"})

InitPeripheralClocks    == Protected(<<Gate(Peripherals, TRUE)>>)
DisablePeripheralClocks == Protected(<<Gate(Peripherals, FALSE)>>)

\* The sources INT_OSC2, XTAL_OSC and INT_OSC1 have the numbers of OSCCLKSRCSEL.
SysIntOsc2Sel == Protected(<<Set({"INTOSC2OFF"}, 0), Set({"OSCCLKSRCSEL"}, 0)>>)
SysXtalOscSel == Protected(<<Set({"XTALOFF"}, 0), Set({"OSCCLKSRCSEL"}, 1)>>)
SysIntOsc1Sel == Protected(<<Set({"OSCCLKSRCSEL"}, 2)>>)
AuxIntOsc2Sel == Protected(<<Set({"INTOSC2OFF"}, 0), Set({"AUXOSCCLKSRCSEL"}, 0)>>)
AuxXtalOscSel == Protected(<<Set({"XTALOFF"}, 0), Set({"AUXOSCCLKSRCSEL"}, 1)>>)
AuxAuxClkSel  == Protected(<<Set({"AUXOSCCLKSRCSEL"}, 2)>>)

\* The PLL is bypassed and locked five times; writing the multiplier turns it on.
Relock_fed(mult) ==                                                     \* mutant
  <<Set({"PLLSYSCLKDIV"}, 0)>>
    \o Times(5, <<Set({"PLLEN"}, 0), Set({"SYSPLLMULT"}, mult), Await("LOCKS")>>)
Relock(mult) ==
  <<Set({"PLLCLKEN"}, 0), Set({"PLLSYSCLKDIV"}, 0)>>
    \o Times(5, <<Set({"PLLEN"}, 0), Set({"SYSPLLMULT"}, mult), Await("LOCKS")>>)

\* A divider of n divides by 2n; 63 (PLLCLK_BY_126) is the largest.
Slower(div) == IF div # 63 THEN div + 1 ELSE div

ServiceDog == Protected(<<Set({"WDKEY"}, 0)>>)
DisableDog == Protected(<<Set({"WDDIS"}, 1)>>)

\* The watchdog, at its fastest and set to reset the device, watches the change to the PLL,
\* which a bit of SYSDBGCTL marks.
Watch_off ==                                                            \* mutant
  <<EALLOW, Set({"WDWCR"}, 0), Set({"WDKEY"}, 0), Set({"INTM", "DBGM"}, 1)>>
Watch == <<EALLOW, Set({"WDWCR"}, 0), Set({"WDKEY"}, 0), Set({"INTM", "DBGM"}, 1),
           Set({"WDENINT"}, 0), Set({"WDDIS", "WDPS"}, 0)>>
TakeOver_late == <<Set({"PLLCLKEN"}, 1), Set({"SYSDBGCTL"}, 1), Set({"SYSDBGCTL"}, 0)>>  \* mutant
TakeOver == <<Set({"SYSDBGCTL"}, 1), Set({"PLLCLKEN"}, 1), Set({"SYSDBGCTL"}, 0)>>

\* Then it gets the program's settings back, and so do INTM and DBGM.
Restore_unmask(r) ==                                                    \* mutant
  <<Set({"WDKEY"}, 0), Set({"WDDIS"}, r["WDDIS"]), Set({"WDPS"}, r["WDPS"]),
    Set({"WDWCR"}, r["WDWCR"]), Set({"WDENINT"}, r["WDENINT"]), Set({"INTM", "DBGM"}, 0)>>
Restore(r) ==
  <<Set({"WDKEY"}, 0), Set({"WDDIS"}, r["WDDIS"]), Set({"WDPS"}, r["WDPS"]),
    Set({"WDWCR"}, r["WDWCR"]), Set({"WDENINT"}, r["WDENINT"])>>
    \o If(r["INTM"] = 0, <<Set({"INTM"}, 0)>>)
    \o If(r["DBGM"] = 0, <<Set({"DBGM"}, 0)>>)

Select(source, current) ==
  If(source # current, CASE source = 0 -> SysIntOsc2Sel
                         [] source = 1 -> SysXtalOscSel
                         [] source = 2 -> SysIntOsc1Sel
                         [] OTHER -> <<>>)
InitSysPll_order(r, source, mult, div) ==                               \* mutant
  If(<<source, mult, div>> # <<r["OSCCLKSRCSEL"], r["SYSPLLMULT"], r["PLLSYSCLKDIV"]>>,
     <<EALLOW>> \o Select(source, r["OSCCLKSRCSEL"])
       \o If(mult # r["SYSPLLMULT"], Relock(mult))
       \o <<Set({"PLLSYSCLKDIV"}, Slower(div))>> \o Watch \o TakeOver \o Restore(r)
       \o <<Set({"PLLSYSCLKDIV"}, div), EDIS>>)
InitSysPll(r, source, mult, div) ==
  If(<<source, mult, div>> # <<r["OSCCLKSRCSEL"], r["SYSPLLMULT"], r["PLLSYSCLKDIV"]>>,
     Select(source, r["OSCCLKSRCSEL"]) \o <<EALLOW>>
       \o If(mult # r["SYSPLLMULT"], Relock(mult))
       \o <<Set({"PLLSYSCLKDIV"}, Slower(div))>> \o Watch \o TakeOver \o Restore(r)
       \o <<Set({"PLLSYSCLKDIV"}, div), EDIS>>)

\* One of at most five attempts to start the auxiliary PLL, which timer 2 checks.
AuxAttempt ==
  <<EALLOW, Set({"AUXPLLEN"}, 0), Set({"AUXPLLMULT"}, 8), Set({"AUXPLLEN"}, 1), EDIS,
    Await("AUXLOCKS"), EALLOW, Set({"AUXPLLCLKEN"}, 1), Set({"TSS"}, 0), Set({"TSS"}, 1), EDIS>>

\* TPR stands for TPR and TPRH together.
TimerFields == {"TMR2CLKSRCSEL", "TMR2CLKPRESCALE", "TSS", "TIE", "PRD", "TPR"}

RestoreTimer(r) ==
  <<Set({"TMR2CLKSRCSEL"}, r["TMR2CLKSRCSEL"]), Set({"TMR2CLKPRESCALE"}, r["TMR2CLKPRESCALE"]),
    Set({"TSS"}, r["TSS"]), Set({"TIE"}, r["TIE"]), Set({"PRD"}, r["PRD"]), Set({"TPR"}, r["TPR"])>>

\* The auxiliary PLL starts at some attempt, or at none of the five (attempts = 6).
InitAuxPll(r, source, mult, div, attempts) ==
  If(<<source, mult, div>> # <<r["AUXOSCCLKSRCSEL"], r["AUXPLLMULT"], r["AUXPLLDIV"]>>,
     (CASE source = 0 -> AuxIntOsc2Sel
        [] source = 1 -> AuxXtalOscSel
        [] source = 2 -> AuxAuxClkSel
        [] OTHER -> <<>>)
       \o Protected(<<Set({"TMR2CLKSRCSEL"}, 6), Set({"TMR2CLKPRESCALE"}, 0), Set({"TSS"}, 1),
                      Set({"PRD"}, 10), Set({"TPR"}, 0), Set({"TIE"}, 0), Set({"AUXPLLDIV"}, 3)>>)
       \o Times(IF attempts <= 5 THEN attempts ELSE 5, AuxAttempt)
       \o If(attempts > 5, Protected(<<Set({"AUXPLLMULT"}, 0)>>) \o <<Sleep("ESTOP0")>>)
       \o Protected(<<Set({"AUXPLLDIV"}, div)>> \o RestoreTimer(r)))

PllOff == <<Set({"PLLCLKEN"}, 0), Set({"PLLEN"}, 0)>>
IDLE    == Protected(<<Set({"LPM"}, 0)>>) \o <<Sleep("IDLE")>>
STANDBY == Protected(<<Set({"LPM"}, 1)>>) \o <<Sleep("STANDBY")>>
HALT    == Protected(<<Set({"LPM"}, 2)>> \o PllOff) \o <<Sleep("HALT")>>
HIB     == Protected(<<Set({"LPM"}, 3)>>) \o DisablePeripheralClocks \o Protected(PllOff)
             \o <<Sleep("HIB")>>
------------------------------------------------------------------------------
(* F2837xS_SysCtrl.c: flash, code security, system control *)

\* The registers of a bank; its functions take the bank they are for.
Flash0CtrlRegs ==
  [VREADST |-> {"VREADST0"}, PMPPWR |-> {"PMPPWR0"}, BNKPWR |-> {"BNKPWR0"}, RWAIT |-> {"RWAIT0"},
   FRD_INTF_CTRL |-> {"DATA_CACHE_EN0", "PREFETCH_EN0"}, ECC_ENABLE |-> {"ECC_ENABLE0"}]
Flash1CtrlRegs ==
  [VREADST |-> {"VREADST1"}, PMPPWR |-> {"PMPPWR1"}, BNKPWR |-> {"BNKPWR1"}, RWAIT |-> {"RWAIT1"},
   FRD_INTF_CTRL |-> {"DATA_CACHE_EN1", "PREFETCH_EN1"}, ECC_ENABLE |-> {"ECC_ENABLE1"}]

InitFlash(b) ==
  Protected(<<Set(b.VREADST, 20), Set(b.PMPPWR, 1), Set(b.BNKPWR, 3), Set(b.FRD_INTF_CTRL, 0),
              Set(b.RWAIT, 3), Set(b.FRD_INTF_CTRL, 1), Set(b.ECC_ENABLE, 10)>>)
InitFlash_Bank0 == InitFlash(Flash0CtrlRegs)
InitFlash_Bank1 == InitFlash(Flash1CtrlRegs)

FlashOff(b) == Protected(<<Set(b.VREADST, 20), Set(b.BNKPWR, 0), Set(b.PMPPWR, 0)>>)
FlashOff_Bank0 == FlashOff(Flash0CtrlRegs)
FlashOff_Bank1 == FlashOff(Flash1CtrlRegs)

\* The owner of the pump is 0 (nobody), 2 (bank 0) or 1 (bank 1).
SeizeFlashPump_Bank0 == Protected(<<[kind |-> "seize", owner |-> 2]>>)
SeizeFlashPump_Bank1 == Protected(<<[kind |-> "seize", owner |-> 1]>>)
ReleaseFlashPump     == Protected(<<Set({"PUMP_OWNERSHIP"}, 0)>>)

\* Each word of the password is -1, 0xFFFFFFFF.
CsmUnlock == Protected(<<Set({"Z1_CSMKEY0", "Z1_CSMKEY1", "Z1_CSMKEY2", "Z1_CSMKEY3"}, -1),
                         Set({"Z2_CSMKEY0", "Z2_CSMKEY1", "Z2_CSMKEY2", "Z2_CSMKEY3"}, -1)>>)

References == {"ANAREFTRIMA", "ANAREFTRIMB", "ANAREFTRIMC", "ANAREFTRIMD"}
STATIC == 31709

\* d describes the device and the build: [package, trimmed, otp, flash].
InitSysCtrl(d) ==
  DisableDog
    \o If(d.flash, <<Set({"ramfuncs"}, 1)>> \o InitFlash_Bank0)
    \o <<EALLOW, Call("GPIO_EnableUnbondedIOPullups"), Gate(Converters, TRUE)>>
    \o If(~d.trimmed, <<Set(References, STATIC)>>)
    \o <<Gate(Converters, FALSE), EDIS, Call("InitSysPll"), Call("InitPeripheralClocks")>>
------------------------------------------------------------------------------
(* F2837xS_Gpio.c: in a pin p: [dir, pud, inv, odr, qsel, mux, gmux, csel, lock] *)

\* The registers of a port from its base on, in steps of 32 bits; PUD is the one at 0x0C / 2.
PortFields == <<"ctrl", "qsel", "qsel", "mux", "mux", "dir", "pud", "", "inv", "odr", "amsel", "",
                "", "", "", "", "gmux", "gmux", "", "", "csel", "csel", "csel", "csel",
                "", "", "", "", "", "", "lock", "cr">>
PinFields == {"dir", "pud", "inv", "odr", "qsel", "mux", "gmux", "csel", "lock"}
Zeroed(i) == IF (i - 1) % 32 # 12 \div 2 /\ PortFields[i] \in PinFields THEN Pins ELSE {}
InitGpio == Protected(<<Pin(Pins, "lock", 0)>>
                        \o [i \in 1..32 |-> Pin(Zeroed(i), PortFields[i], 0)]
                        \o <<[kind |-> "data", keys |-> Pins, val |-> 0]>>)

\* The peripheral multiplexer goes to 0, the GPIO, while the group changes.
GPIO_SetupPinMux_direct(pin, core, peripheral) ==                       \* mutant
  If(core <= 3 /\ peripheral <= 15,
     Protected(<<Pin({pin}, "gmux", peripheral \div 4), Pin({pin}, "mux", peripheral % 4),
                 Pin({pin}, "csel", 0), Pin({pin}, "csel", core)>>))
GPIO_SetupPinMux(pin, core, peripheral) ==
  If(core <= 3 /\ peripheral <= 15,
     Protected(<<Pin({pin}, "mux", 0), Pin({pin}, "gmux", 0),
                 Pin({pin}, "gmux", peripheral \div 4), Pin({pin}, "mux", peripheral % 4),
                 Pin({pin}, "csel", 0), Pin({pin}, "csel", core)>>))

Flag(condition) == IF condition THEN 1 ELSE 0
Qualification(flags) == CASE "ASYNC" \in flags -> 3
                          [] "QUAL6" \in flags -> 2
                          [] "QUAL3" \in flags -> 1
                          [] OTHER -> 0
GPIO_SetupPinOptions(pin, output, flags) ==
  Protected(<<Pin({pin}, "dir", 0)>>
    \o (IF output
        THEN <<Pin({pin}, "dir", 1), Pin({pin}, "odr", Flag("OPENDRAIN" \in flags)),
               Pin({pin}, "pud", Flag(flags \cap {"OPENDRAIN", "PULLUP"} = {}))>>
        ELSE <<Pin({pin}, "dir", 0), Pin({pin}, "pud", Flag("PULLUP" \notin flags)),
               Pin({pin}, "inv", Flag("INVERT" \in flags))>>)
    \o <<Pin({pin}, "qsel", 0), Pin({pin}, "qsel", Qualification(flags))>>)
GPIO_SetupLock(pin, lock) == Protected(<<Pin({pin}, "lock", Flag(lock))>>)

Xint(input, pin) == Protected(<<Set({input}, pin)>>)
GPIO_SetupXINT1Gpio(pin) == Xint("INPUT4SELECT", pin)
GPIO_SetupXINT2Gpio(pin) == Xint("INPUT5SELECT", pin)
GPIO_SetupXINT3Gpio(pin) == Xint("INPUT6SELECT", pin)
GPIO_SetupXINT4Gpio(pin) == Xint("INPUT13SELECT", pin)
GPIO_SetupXINT5Gpio(pin) == Xint("INPUT14SELECT", pin)

\* A write of a whole port's PUD: pull-ups on the unbonded pins, none on the others.
Pullups(port, unbonded) == <<Pin(unbonded, "pud", 0), Pin(port \ unbonded, "pud", 1)>>
GPIO_EnableUnbondedIOPullupsFor176Pin ==
  Protected(Pullups(64..95, {95}) \o Pullups(96..127, (96..127) \ {99})
              \o Pullups(128..159, (128..159) \ {133}) \o Pullups(160..168, 160..168))
GPIO_EnableUnbondedIOPullupsFor100Pin ==
  Protected(Pullups(0..31, {0, 1} \cup 5..9 \cup 22..31)
              \o Pullups(32..63, 32..40 \cup 44..57)
              \o Pullups(64..95, {67, 68} \cup 74..77 \cup 79..83 \cup {88} \cup 93..95)
              \o Pullups(96..127, (96..127) \ {99})
              \o Pullups(128..159, 128..159) \o Pullups(160..168, 160..168))
GPIO_EnableUnbondedIOPullups(d) ==
  CASE d.package = 5 -> GPIO_EnableUnbondedIOPullupsFor100Pin
    [] d.package = 6 -> GPIO_EnableUnbondedIOPullupsFor176Pin
    [] OTHER -> <<>>

\* The data registers are not protected.
GPIO_WritePin(pin, v) == <<[kind |-> "data", keys |-> {pin}, val |-> v]>>
==============================================================================
