------------------------------ MODULE DspSystem ------------------------------
(***************************************************************************)
(* The DSP's CPU executing the statements that DspDevice and DspMain list: *)
(* main() after every reset, and then, in place of the empty loop, a       *)
(* program that calls the device support in any order, one topic at a run. *)
(* Around it the hardware that the code relies on: the EALLOW protection,  *)
(* the clock gates, the PLLs, the watchdog and the interrupts of the PIE.  *)
(***************************************************************************)
EXTENDS DspMain, DspVectors, FiniteSets

CONSTANTS Devices,      \* the parts and builds: [package, trimmed, otp, flash]
          Explored,     \* bound: those of them on which more is called than main()
          Topics,       \* bound: what the program calls after main()'s set-up
          Sources, Mults, Dividers,     \* bound: the arguments of InitSysPll and InitAuxPll
          Raised        \* bound: the interrupt channels that peripherals raise, for each topic

ASSUME DevicesAssumption ==
  Devices \subseteq [package : Nat, trimmed : BOOLEAN, otp : BOOLEAN, flash : BOOLEAN]
ASSUME RaisedAssumption == \A t \in Topics \cup {"boot"} : Raised[t] \subseteq Channels

VARIABLES device, topic,
          todo,         \* the statements the CPU still has to execute
          call,         \* history: the call under way: [name, div, before]
          booted,       \* main() has reached its loop
          eallow, reg, clocked, pin,
          gated,        \* history: the program has gated the peripherals' clocks
          lost,         \* history: writes without effect, see WriteReg
          locks,        \* the PLLs that have locked
          dead,         \* the system PLL does not deliver a clock
          halted,       \* history: HALT() turned the PLL off since it was last set up
          failed,       \* history: the last reset was the watchdog's, for a dead PLL
          copied, adca1,            \* PieVectTable: written, and its remapped entry
          en, flag, blocked, run    \* PIEIER, PIEIFR, PIEACK, and the routine running

cpu   == <<device, topic, todo, call, booted>>
write == <<eallow, reg, clocked, pin, gated, lost>>
pll   == <<locks, dead, halted, failed>>
pie   == <<copied, adca1, en, flag, blocked, run>>
vars  == <<cpu, write, pll, pie>>

\* The fields that something below reads; writes to the others change nothing here.
Fields ==
  {"INTM", "DBGM", "IER", "ENPIE", "OSCCLKSRCSEL", "SYSPLLMULT", "PLLSYSCLKDIV", "PLLCLKEN", "PLLEN",
   "SYSDBGCTL", "WDDIS", "WDPS", "WDWCR", "WDENINT", "AUXOSCCLKSRCSEL", "AUXPLLMULT", "AUXPLLDIV",
   "AUXPLLEN", "AUXPLLCLKEN", "PUMP_OWNERSHIP", "ADCA_RESOLUTION", "ADCA_SIGNALMODE",
   "ADCA_OFFTRIM", "ADCA_INLTRIM_LOW"} \cup TimerFields \cup References
Unprotected == {"INTM", "DBGM", "IER", "IFR", "ENPIE", "TSS", "TIE", "PRD", "TPR", "XBARFLG2",
                "ADCAINTFLGCLR", "Vbus", "ramfuncs", "SPIB_SPIDAT",
                "SPIA_SPISWRESET", "SPIA_CLKPOLARITY", "SPIA_SPICHAR", "SPIA_SPILBK",
                "SPIA_MASTER_SLAVE", "SPIA_TALK", "SPIA_CLK_PHASE", "SPIA_SPIINTENA",
                "SPIA_SPI_BIT_RATE", "SPIA_FREE"}
AfterReset == [f \in Fields |-> CASE f \in {"INTM", "DBGM"} -> 1
                                  [] f = "PLLSYSCLKDIV" -> 2
                                  [] f = "IER" -> {}
                                  [] OTHER -> 0]
PinAfterReset == [f \in PinFields |-> IF f = "pud" THEN 1 ELSE 0]
\* What InitSysPll and InitAuxPll change only while they run.
Borrowed == {"INTM", "DBGM", "WDDIS", "WDPS", "WDWCR", "WDENINT"} \cup TimerFields
NoCall == [name |-> "", div |-> 0, before |-> [f \in Borrowed |-> AfterReset[f]]]

Main == [d \in Devices |-> main(d)]

(* A reset.  SYSDBGCTL survives it, except for a power-on reset. *)
Restart(sysdbgctl, forPll) ==
  /\ todo' = Main[device] /\ call' = NoCall /\ booted' = FALSE
  /\ eallow' = FALSE /\ reg' = [AfterReset EXCEPT !["SYSDBGCTL"] = sysdbgctl]
  /\ clocked' = {} /\ pin' = [p \in Pins |-> PinAfterReset] /\ gated' = FALSE /\ lost' = {}
  /\ locks' = {} /\ dead' = FALSE /\ halted' = FALSE /\ failed' = forPll
  /\ copied' = FALSE /\ adca1' = NONE /\ en' = {} /\ flag' = {} /\ blocked' = {} /\ run' = <<>>
  /\ UNCHANGED <<device, topic>>

Init == /\ device \in Devices
        /\ topic \in IF device \in Explored THEN Topics ELSE {"boot"}
        /\ todo = Main[device] /\ call = NoCall /\ booted = FALSE
        /\ eallow = FALSE /\ reg = AfterReset /\ clocked = {}
        /\ pin = [p \in Pins |-> PinAfterReset] /\ gated = FALSE /\ lost = {}
        /\ locks = {} /\ dead = FALSE /\ halted = FALSE /\ failed = FALSE
        /\ copied = FALSE /\ adca1 = NONE /\ en = {} /\ flag \in {{}, Raised[topic]}
        /\ blocked = {} /\ run = <<>>
------------------------------------------------------------------------------
(* Statements *)

Statement(kind) == ~dead /\ todo # <<>> /\ Head(todo).kind = kind
Done == todo' = Tail(todo) /\ UNCHANGED <<device, topic, call, booted>>

Protect == /\ Statement("protect") /\ Done
           /\ eallow' = ~Head(todo).on
           /\ UNCHANGED <<reg, clocked, pin, gated, lost, pll, pie>>

\* A write has an effect when EALLOW allows it and the module's clock is on; one without is
\* lost, unless the program itself has gated the clock.  Writing the multiplier turns the PLL
\* on; a PLL that is touched unlocks.  The PLL may turn out to be dead when the CPU is
\* switched to it.
Permitted(s) == s.keys \subseteq Unprotected \/ eallow
Effective(s) == Permitted(s) /\ s.unit \subseteq clocked
WriteReg ==
  /\ Statement("reg") /\ Done
  /\ LET s == Head(todo)
         written == IF Effective(s) THEN s.keys ELSE {}
         on  == IF "SYSPLLMULT" \in written THEN {"PLLEN"} ELSE {}
     IN  /\ lost' = IF Permitted(s) /\ gated THEN lost ELSE lost \cup (s.keys \ written)
         /\ reg' = [f \in Fields |-> IF f \in written THEN s.val ELSE IF f \in on THEN 1 ELSE reg[f]]
         /\ locks' = locks \ ((IF written \cap {"PLLEN", "SYSPLLMULT"} # {} THEN {"SYS"} ELSE {})
                        \cup (IF written \cap {"AUXPLLEN", "AUXPLLMULT"} # {} THEN {"AUX"} ELSE {}))
         /\ halted' = (halted /\ "SYSPLLMULT" \notin written)
         /\ failed' = (failed /\ "SYSDBGCTL" \notin written)
         /\ IF "PLLCLKEN" \in written /\ s.val = 1 /\ reg["PLLCLKEN"] = 0
            THEN dead' \in BOOLEAN ELSE UNCHANGED dead
  /\ UNCHANGED <<eallow, clocked, pin, gated, pie>>

GateClocks ==
  /\ Statement("gate") /\ Done
  /\ LET s == Head(todo) IN
       IF ~eallow THEN lost' = lost \cup {"PCLKCR"} /\ UNCHANGED <<clocked, gated>>
                  ELSE /\ clocked' = (IF s.on THEN clocked \cup s.keys ELSE clocked \ s.keys)
                       /\ gated' = IF s.keys = Peripherals THEN ~s.on ELSE gated
                       /\ UNCHANGED lost
  /\ UNCHANGED <<eallow, reg, pin, pll, pie>>

\* A pin that is locked keeps its configuration; the data registers are not modelled.
WritePin ==
  /\ Statement("pin") /\ Done
  /\ LET s == Head(todo)
         open == {p \in s.keys : eallow /\ (s.field = "lock" \/ pin[p]["lock"] = 0)}
     IN  /\ pin' = [p \in Pins |-> IF p \in open THEN [pin[p] EXCEPT ![s.field] = s.val] ELSE pin[p]]
         /\ lost' = IF eallow \/ s.keys = {} THEN lost ELSE lost \cup {s.field}
  /\ UNCHANGED <<eallow, reg, clocked, gated, pll, pie>>
WriteData == Statement("data") /\ Done /\ UNCHANGED <<write, pll, pie>>

\* A call in main() whose branches depend on the registers.
Body(name) == CASE name = "InitSysPll" -> InitSysPll(reg, 0, 20, 1)
                [] name = "InitPeripheralClocks" -> InitPeripheralClocks
                [] name = "SetupADCSoftwareSync" -> SetupADCSoftwareSync(reg)
                [] name = "GPIO_EnableUnbondedIOPullups" -> GPIO_EnableUnbondedIOPullups(device)
Enter == /\ Statement("call")
         /\ todo' = Body(Head(todo).name) \o Tail(todo)
         /\ UNCHANGED <<device, topic, call, booted, write, pll, pie>>

WaitLock ==
  /\ Statement("await")
  /\ \/ Head(todo).what = "LOCKS" /\ "SYS" \in locks
     \/ Head(todo).what = "AUXLOCKS" /\ "AUX" \in locks
  /\ Done /\ UNCHANGED <<write, pll, pie>>

\* The pump's semaphore takes a request when the pump is free or the requester's.
SeizePump ==
  /\ Statement("seize") /\ reg["PUMP_OWNERSHIP"] \in {0, Head(todo).owner} /\ Done
  /\ reg' = [reg EXCEPT !["PUMP_OWNERSHIP"] = Head(todo).owner]
  /\ UNCHANGED <<eallow, clocked, pin, gated, lost, pll, pie>>

WritePie ==
  /\ \/ /\ Statement("pie")                             \* {} clears all of them
        /\ en' = (IF Head(todo).enabled = {} THEN {} ELSE en \cup Head(todo).enabled)
        /\ UNCHANGED <<flag, blocked>>
     \/ Statement("flags") /\ flag' = {} /\ UNCHANGED <<en, blocked>>
     \/ Statement("ack") /\ blocked' = blocked \ Head(todo).groups /\ UNCHANGED <<en, flag>>
  /\ Done /\ UNCHANGED <<write, pll, copied, adca1, run>>

WriteVectors ==
  /\ \/ Statement("vectors")
          /\ IF eallow THEN copied' = TRUE /\ adca1' = NONE ELSE UNCHANGED <<copied, adca1>>
     \/ Statement("vector") /\ (IF eallow THEN adca1' = Head(todo).routine ELSE UNCHANGED adca1)
          /\ UNCHANGED copied
  /\ lost' = IF eallow THEN lost ELSE lost \cup {"PieVectTable"}
  /\ Done /\ UNCHANGED <<eallow, reg, clocked, pin, gated, pll, en, flag, blocked, run>>

\* A low-power mode or a breakpoint ends from outside; out of hibernation by a reset.
Sleeping(mode) == Statement("sleep") /\ Head(todo).mode = mode
Wake == /\ \E mode \in {"IDLE", "STANDBY", "HALT", "ESTOP0"} : Sleeping(mode)
        /\ halted' = (halted \/ Sleeping("HALT"))
        /\ Done /\ UNCHANGED <<write, locks, dead, failed, pie>>
WakeFromHib == Sleeping("HIB") /\ Restart(reg["SYSDBGCTL"], FALSE)

\* main() arrives at its loop, or a function returns to it.
Loop == /\ todo = <<>> /\ (~booted \/ call # NoCall) /\ run = <<>>
        /\ booted' = TRUE /\ call' = NoCall
        /\ UNCHANGED <<device, topic, todo, write, pll, pie>>

Step == \/ Protect \/ WriteReg \/ GateClocks \/ WritePin \/ WriteData \/ Enter \/ WaitLock
        \/ SeizePump \/ WritePie \/ WriteVectors \/ Loop
------------------------------------------------------------------------------
(* Hardware *)

Lock == /\ \/ reg["PLLEN"] = 1 /\ "SYS" \notin locks /\ locks' = locks \cup {"SYS"}
           \/ reg["AUXPLLEN"] = 1 /\ "AUX" \notin locks /\ locks' = locks \cup {"AUX"}
        /\ UNCHANGED <<cpu, write, dead, halted, failed, pie>>

\* The watchdog bites a CPU that waits or has no clock, unless it is off or raises an interrupt instead.
WatchdogReset == /\ (dead \/ Statement("await"))
                 /\ reg["WDDIS"] = 0 /\ reg["WDENINT"] = 0
                 /\ Restart(reg["SYSDBGCTL"], dead)
ExternalReset == \/ Restart(reg["SYSDBGCTL"], FALSE)
                 \/ Restart(0, FALSE)

Lowest(S) == CHOOSE c \in S : \A d \in S : 16 * c[1] + c[2] <= 16 * d[1] + d[2]
Pending == {c \in flag \cap en : c[1] \in reg["IER"] \ blocked}
Entry(c) == IF c = ADCA1 /\ adca1 # NONE THEN adca1 ELSE IF copied THEN Copied[PlaceOf(c)] ELSE NONE
adca1_isr == <<Set({"Vbus"}, 1), Of(SPIB, {"SPIB_SPIDAT"}, 1), InAdc(AdcaRegs, AdcaRegs.INTFLGCLR, 1),
               [kind |-> "ack", groups |-> {1}], [kind |-> "iret"]>>

Raise == /\ \E c \in Raised[topic] : flag' = flag \cup {c}
         /\ flag' # flag
         /\ UNCHANGED <<cpu, write, pll, copied, adca1, en, blocked, run>>
\* The CPU enters a routine with INTM set and EALLOW clear, between any two statements; out of
\* a low-power mode it comes by Wake.
Take == /\ reg["INTM"] = 0 /\ reg["ENPIE"] = 1 /\ Pending # {} /\ run = <<>> /\ ~dead
        /\ todo # <<>> => Head(todo).kind # "sleep"
        /\ LET c == Lowest(Pending) IN
             /\ run' = <<c, Entry(c), eallow, todo>>
             /\ todo' = IF Entry(c) = ADCA1_ISR THEN adca1_isr ELSE <<Sleep("for(;;)")>>
             /\ flag' = flag \ {c} /\ blocked' = blocked \cup {c[1]}
        /\ eallow' = FALSE /\ reg' = [reg EXCEPT !["INTM"] = 1]
        /\ UNCHANGED <<device, topic, call, booted, clocked, pin, gated, lost, pll, copied, adca1, en>>
Return == /\ Statement("iret")
          /\ todo' = run[4] /\ eallow' = run[3] /\ run' = <<>>
          /\ reg' = [reg EXCEPT !["INTM"] = 0]
          /\ UNCHANGED <<device, topic, call, booted, clocked, pin, gated, lost, pll, copied,
                         adca1, en, flag, blocked>>
------------------------------------------------------------------------------
(* A program that uses the device support, in place of the empty loop of main() *)

Function(name, div, list) == [name |-> name, div |-> div, list |-> list]
PllCalls ==
  {Function("InitSysPll", d, InitSysPll(reg, s, m, d)) : s \in Sources, m \in Mults, d \in Dividers}
    \cup {Function("", 0, list) : list \in {IDLE, STANDBY, HALT, ServiceDog, DisableDog,
                                           SysIntOsc1Sel, SysIntOsc2Sel, SysXtalOscSel}}
AuxCalls ==
  {Function("InitAuxPll", d, InitAuxPll(reg, s, m, d, n)) :
     s \in Sources, m \in Mults, d \in Dividers, n \in {2, 6}}
    \cup {Function("", 0, list) : list \in {AuxIntOsc2Sel, AuxXtalOscSel, AuxAuxClkSel}}
ClockCalls == {Function("", 0, list) : list \in {InitPeripheralClocks, DisablePeripheralClocks}}
PowerCalls ==
  {Function("", 0, list) : list \in {InitFlash_Bank0, InitFlash_Bank1, FlashOff_Bank0, FlashOff_Bank1,
     SeizeFlashPump_Bank0, SeizeFlashPump_Bank1, ReleaseFlashPump, CsmUnlock, HIB, InitSpi,
     InitSpiGpio}}
    \cup ClockCalls
AdcCalls ==
  {Function("AdcSetMode", 0, Protected(AdcSetMode(AdcaRegs, r, s, device.otp))) :
     r \in {0, 1}, s \in {0, 1}}
    \cup ClockCalls
APin == CHOOSE p \in Pins : p \in 20..30
PinCalls ==
  {Function("", 0, list) : list \in
     {InitGpio, InitEPwmGpio, InitEPwm9Gpio, GPIO_WritePin(APin, 1)}
     \cup {GPIO_SetupPinMux(APin, core, n) : core \in {0, 4}, n \in {0, 6, 15}}
     \cup {GPIO_SetupPinOptions(APin, FALSE, {"PULLUP", "QUAL3"}),
           GPIO_SetupPinOptions(APin, TRUE, {"OPENDRAIN", "INVERT", "ASYNC"})}
     \cup {GPIO_SetupLock(APin, lock) : lock \in BOOLEAN}}
InterruptCalls ==
  {Function("InitSysPll", d, InitSysPll(reg, 0, 20, d)) : d \in Dividers}
    \cup {Function("", 0, list) : list \in
            {InitPieCtrl, EnableInterrupts, GPIO_SetupXINT1Gpio(APin), GPIO_SetupXINT2Gpio(APin),
             GPIO_SetupXINT3Gpio(APin), GPIO_SetupXINT4Gpio(APin), GPIO_SetupXINT5Gpio(APin)}}
    \cup {Function("", 0, <<[kind |-> "pie", enabled |-> {c}], Set({"IER"}, {1, c[1]})>>) :
            c \in Raised[topic]}
Calls == CASE topic = "pll" -> PllCalls      [] topic = "aux" -> AuxCalls
           [] topic = "power" -> PowerCalls  [] topic = "adc" -> AdcCalls
           [] topic = "pins" -> PinCalls     [] topic = "interrupts" -> InterruptCalls
           [] OTHER -> {}
Idle == booted /\ todo = <<>> /\ call = NoCall /\ run = <<>>
UserCall == /\ Idle /\ \E c \in Calls :
                 /\ c.list # <<>>
                 /\ todo' = c.list
                 /\ call' = [name |-> c.name, div |-> c.div, before |-> [f \in Borrowed |-> reg[f]]]
            /\ UNCHANGED <<device, topic, booted, write, pll, pie>>

\* What a program may have set itself: its watchdog, its masks, its timer 2.
Settings == CASE topic = "pll" -> {[WDDIS |-> 0, WDPS |-> 7, WDWCR |-> 3, WDENINT |-> 1, INTM |-> 0, DBGM |-> 0],
                                   [WDDIS |-> 0, WDPS |-> 7, WDWCR |-> 0, WDENINT |-> 0, INTM |-> 1, DBGM |-> 0]}
              [] topic = "aux" -> {[TMR2CLKSRCSEL |-> 1, TMR2CLKPRESCALE |-> 2, TSS |-> 0, TIE |-> 1, PRD |-> 100, TPR |-> 9]}
              [] OTHER -> {}
UserSetting == /\ Idle /\ \E s \in Settings :
                    reg' = [f \in Fields |-> IF f \in DOMAIN s THEN s[f] ELSE reg[f]]
               /\ reg' # reg /\ UNCHANGED <<cpu, eallow, clocked, pin, gated, lost, pll, pie>>

Next == Step \/ Wake \/ WakeFromHib \/ Lock \/ WatchdogReset \/ ExternalReset
          \/ Raise \/ Take \/ Return \/ UserCall \/ UserSetting
PllStarts == WriteReg /\ reg["PLLCLKEN"] = 0 /\ reg'["PLLCLKEN"] = 1 /\ ~dead'
\* The CPU runs, a PLL locks, the watchdog bites; a PLL that is started again and again
\* delivers a clock in the end.
\* The ADC interrupts once a frame, which leaves the program time between two routines.
Fairness == /\ WF_vars(Step) /\ WF_vars(Return) /\ WF_vars(Lock) /\ WF_vars(WatchdogReset)
            /\ SF_vars(PllStarts) /\ SF_vars(run = <<>> /\ Step)
Spec == Init /\ [][Next]_vars /\ Fairness
------------------------------------------------------------------------------
(* Properties *)

\* Every write to a protected register takes effect, because EALLOW is set, and every write to
\* a peripheral too, because its clock is on, through all calls of a topic, in any order, and
\* with the interrupt of the ADC between any two statements.  Two exceptions: a program that calls
\* DisablePeripheralClocks() itself (SysCtrl.c:243-264; HIB() does too) loses what it writes to
\* peripherals until InitPeripheralClocks(); and InitSysCtrl on a part with unbonded pins
\* (SysCtrl.c:98-123), where GPIO_EnableUnbondedIOPullups has executed EDIS.
WritesLand == lost \subseteq IF device.package = 7 THEN {} ELSE {"PCLKCR"} \cup References

\* The CPU runs from the PLL only when the PLL is on and has locked (SysCtrl.c:654-748), except
\* after HALT(), which turns it off behind InitSysPll's back; and it is switched over at a
\* divider that is slower than the one asked for.
PllFeeds ==
  [][/\ reg'["PLLCLKEN"] = 1 /\ ~halted' => "SYS" \in locks'
     /\ reg["PLLCLKEN"] = 0 /\ reg'["PLLCLKEN"] = 1 =>
          reg["PLLSYSCLKDIV"] = Slower(IF booted THEN call.div ELSE 1)]_vars

\* InitSysPll returns the watchdog's settings, INTM and DBGM, and InitAuxPll timer 2, as they
\* were when it was called, whatever interrupts came (SysCtrl.c:718-784, 845-850, 972-988).
BorrowedReturned == todo = <<>> /\ run = <<>> /\ call.name \in {"InitSysPll", "InitAuxPll"} =>
                      \A f \in Borrowed : reg[f] = call.before[f]

\* After a watchdog reset because of a PLL that gave no clock, the program can tell: the bit of
\* SYSDBGCTL that only a power-on reset clears is set until the PLL is set up (SysCtrl.c:642-656).
PllFailureKnown == failed => reg["SYSDBGCTL"] = 1

\* An interrupt runs the routine of its own channel, and none runs while the PLL takes over
\* (PieVect.c:24-284, Main.c:64-67, SysCtrl.c:737).  So none comes before the table is written.
RightRoutine == run # <<>> =>
  /\ run[2] = (IF run[1] = ADCA1 THEN ADCA1_ISR ELSE OwnRoutine(run[1]))
  /\ reg["SYSDBGCTL"] = 0

\* A pin never selects a peripheral of one group in the slot of another: its group changes
\* only while it is a GPIO (Gpio.c:118-131, 44-62).
NoGlitch == [][\A p \in Pins : pin'[p]["gmux"] # pin[p]["gmux"] =>
                  pin[p]["mux"] = 0 \/ todo' = Main[device]]_vars   \* after a reset

\* When AdcSetMode is done the ADC has the offset trim of its mode and, at 16 bits, the half of
\* the linearity trim that a 12-bit mode clears, whatever mode it had before (Adc.c:24-122).  A
\* call while the ADC's clock is gated changes neither mode nor trims.
TrimsMatchMode == booted /\ todo = <<>> =>
  /\ reg["ADCA_OFFTRIM"] = OffsetTrim(AdcaRegs, reg["ADCA_RESOLUTION"], reg["ADCA_SIGNALMODE"], device.otp)
  /\ device.otp /\ reg["ADCA_RESOLUTION"] = 1 => reg["ADCA_INLTRIM_LOW"] = INLTRIM

\* main() reaches its loop after every reset, through every PLL that fails to start, unless
\* resets from outside never cease (Main.c:46-98).
BootEnds == []<>booted \/ []<><<ExternalReset>>_vars

\* A device without trims gets static ones (SysCtrl.c:110-117).
Calibrated == booted /\ ~device.trimmed => \A f \in References : reg[f] = STATIC
==============================================================================
