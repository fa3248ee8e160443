----------------------------- MODULE DspSystemInv -----------------------------
(***************************************************************************)
(* The inductive invariant behind the properties of DspSystem: a proof     *)
(* outline of the lists of statements.  A set of facts is known before     *)
(* each statement of a list; a statement may need some of them, spoils     *)
(* some and gives others.  The invariant says that what is left to execute *)
(* has such an outline, from what holds now to what the list promises.     *)
(***************************************************************************)
EXTENDS DspSystem

\* "open": EALLOW is set; "powered": the clocks of the peripherals are on, unless the program
\* has gated them; "ungated": it has not; "masked": INTM is set; "copied", "routed": of
\* PieVectTable; "marked", "clear": of SYSDBGCTL; "fresh", "off", "ready", "slow": of the PLL;
\* "matched" and what is needed for it: of the trims; and a field that is borrowed: it is as it
\* was at the call.
TrimFacts == {"res0", "res1", "sig0", "sig1", "linear", "matched"}
Facts == {"open", "powered", "ungated", "masked", "copied", "routed", "marked", "clear",
          "fresh", "off", "ready", "slow"} \cup TrimFacts \cup Borrowed

Matched(r, otp) ==
  /\ r["ADCA_OFFTRIM"] = OffsetTrim(AdcaRegs, r["ADCA_RESOLUTION"], r["ADCA_SIGNALMODE"], otp)
  /\ otp /\ r["ADCA_RESOLUTION"] = 1 => r["ADCA_INLTRIM_LOW"] = INLTRIM

\* What the facts say of the registers r; x tells what does not change during a call.  The
\* trims cannot be written while the program has gated the clocks: then they fit as they are,
\* and the facts about them only say what a call would have done.
WrittenTrims(a, r, x) ==
  /\ "res0" \in a => r["ADCA_RESOLUTION"] = 0
  /\ "res1" \in a => r["ADCA_RESOLUTION"] = 1
  /\ "sig0" \in a => r["ADCA_SIGNALMODE"] = 0
  /\ "sig1" \in a => r["ADCA_SIGNALMODE"] = 1
  /\ "linear" \in a => r["ADCA_INLTRIM_LOW"] = INLTRIM
  /\ "matched" \in a => Matched(r, x.device.otp)
KnownTrims(a, r, x) == IF gated THEN Matched(r, x.device.otp) ELSE WrittenTrims(a, r, x)
KnownPll(a, r, x) ==
  /\ "marked" \in a => r["SYSDBGCTL"] = 1
  /\ "clear" \in a => r["SYSDBGCTL"] = 0
  /\ "fresh" \in a => r["SYSPLLMULT"] = 0
  /\ "off" \in a => r["PLLCLKEN"] = 0
  /\ "slow" \in a => r["PLLSYSCLKDIV"] = Slower(x.div)
KnownBorrowed(a, r, x) ==
  /\ "masked" \in a => r["INTM"] = 1
  /\ \A f \in Borrowed : f \in a => r[f] = x.before[f]
Known(a, r, x) == KnownTrims(a, r, x) /\ KnownPll(a, r, x) /\ KnownBorrowed(a, r, x)

Context == [div |-> IF booted THEN call.div ELSE 1, before |-> call.before, device |-> device]

\* The facts a hold; e and r stand for EALLOW and the registers.
Around(a, e) ==
  /\ "open" \in a => e = TRUE
  /\ "powered" \in a => Peripherals \subseteq clocked \/ gated
  /\ "ungated" \in a => ~gated
  /\ "copied" \in a => copied = TRUE
  /\ "routed" \in a => adca1 = ADCA1_ISR
  /\ "ready" \in a => halted \/ "SYS" \in locks
Fits(a, e, r) == Around(a, e) /\ Known(a, r, Context)

\* A routine finds what it needs, or cannot be entered.
ForRoutine == {"clear", "powered", "copied", "routed"}
Safe == {a \in SUBSET Facts : "masked" \in a \/ ForRoutine \subseteq a}
------------------------------------------------------------------------------
(* What a statement needs, spoils and gives *)

\* What a peripheral keeps, and only that, needs its clock.
Clocked == {"ADCA_RESOLUTION", "ADCA_SIGNALMODE", "ADCA_OFFTRIM", "ADCA_INLTRIM_LOW"}
AdmitsWrite(K, v, unit, a, x) ==
  /\ \/ K \subseteq Unprotected
     \/ "open" \in a
     \/ K \subseteq References /\ x.device.package # 7
  /\ IF unit = {} THEN K \cap Clocked = {}
     ELSE unit \subseteq Peripherals /\ "powered" \in a /\ K \cap Fields \subseteq Clocked
  /\ K \cap {"INTM", "DBGM"} # {} => v \in {0, 1}
  /\ "PLLCLKEN" \in K => K = {"PLLCLKEN"} /\ (v = 0 \/ (v = 1 /\ {"marked", "ready", "slow"} \subseteq a))
  /\ K \cap {"PLLEN", "SYSPLLMULT"} # {} => "off" \in a
AdmitsCall(name, a, x) ==
  \/ name = "GPIO_EnableUnbondedIOPullups" /\ "open" \in a
  \/ name = "InitPeripheralClocks"
  \/ name = "InitSysPll" /\ {"masked", "fresh", "off"} \subseteq a /\ x.div = 1
  \/ name = "SetupADCSoftwareSync" /\ "powered" \in a
AdmitsGate(keys, on, a, x) ==
  /\ "open" \in a \/ x.device.package # 7
  /\ IF keys = Peripherals THEN "open" \in a /\ (on \/ "matched" \in a) ELSE "ungated" \in a
Admits(s, a, x) ==
  /\ s.kind = "reg" => AdmitsWrite(s.keys, s.val, s.unit, a, x)
  /\ s.kind = "gate" => AdmitsGate(s.keys, s.on, a, x)
  /\ s.kind = "pin" => "open" \in a
  /\ s.kind = "vectors" => "open" \in a
  /\ s.kind = "vector" => "open" \in a /\ s.routine = ADCA1_ISR
  /\ s.kind = "call" => AdmitsCall(s.name, a, x)
  /\ s.kind # "iret"

Touched(K, fields, facts) == IF K \cap fields # {} THEN facts ELSE {}
Spoiled(K) ==
  (K \cap Borrowed)
    \cup Touched(K, {"INTM"}, {"masked"})
    \cup Touched(K, {"SYSDBGCTL"}, {"marked", "clear"})
    \cup Touched(K, {"SYSPLLMULT"}, {"fresh"})
    \cup Touched(K, {"SYSPLLMULT", "PLLEN"}, {"ready"})
    \cup Touched(K, {"PLLCLKEN"}, {"off"})
    \cup Touched(K, {"PLLSYSCLKDIV"}, {"slow"})
    \cup Touched(K, {"ADCA_RESOLUTION"}, {"res0", "res1", "matched"})
    \cup Touched(K, {"ADCA_SIGNALMODE"}, {"sig0", "sig1", "matched"})
    \cup Touched(K, {"ADCA_INLTRIM_LOW"}, {"linear", "matched"})
    \cup Touched(K, {"ADCA_OFFTRIM"}, {"matched"})

When(condition, facts) == IF condition THEN facts ELSE {}
TrimsFit(v, a, x) ==
  \E r \in {0, 1}, s \in {0, 1} :
    /\ (IF r = 0 THEN "res0" ELSE "res1") \in a /\ (IF s = 0 THEN "sig0" ELSE "sig1") \in a
    /\ v = OffsetTrim(AdcaRegs, r, s, x.device.otp)
    /\ r = 0 \/ x.device.otp = FALSE \/ "linear" \in a
GivenTrims(K, v, a, x) ==
  When("ADCA_RESOLUTION" \in K /\ v = 0, {"res0"})
    \cup When("ADCA_RESOLUTION" \in K /\ v = 1, {"res1"})
    \cup When("ADCA_SIGNALMODE" \in K /\ v = 0, {"sig0"})
    \cup When("ADCA_SIGNALMODE" \in K /\ v = 1, {"sig1"})
    \cup When("ADCA_INLTRIM_LOW" \in K /\ v = INLTRIM, {"linear"})
    \cup When(K = {"ADCA_INLTRIM_LOW"} /\ {"matched", "res0"} \subseteq a, {"matched"})
    \cup When(K = {"ADCA_OFFTRIM"} /\ TrimsFit(v, a, x), {"matched"})
GivenPll(K, v, x) ==
  When("SYSDBGCTL" \in K /\ v = 1, {"marked"})
    \cup When("SYSDBGCTL" \in K /\ v = 0, {"clear"})
    \cup When("PLLCLKEN" \in K /\ v = 0, {"off"})
    \cup When("PLLSYSCLKDIV" \in K /\ v = Slower(x.div), {"slow"})
GivenBorrowed(K, v, x) ==
  When("INTM" \in K /\ v = 1, {"masked"}) \cup {f \in K \cap Borrowed : v = x.before[f]}
Given(K, v, a, x) == GivenTrims(K, v, a, x) \cup GivenPll(K, v, x) \cup GivenBorrowed(K, v, x)

\* The clocks are on: of what is said about the trims only that they fit is sure.
Powered(a) == (a \ (TrimFacts \ {"matched"})) \cup {"powered"}
AfterCall(name, a, x) ==
  CASE name = "GPIO_EnableUnbondedIOPullups" -> IF x.device.package \in {5, 6} THEN a \ {"open"} ELSE a
    [] name = "InitPeripheralClocks" -> Powered(a \ {"open"})
    [] name = "InitSysPll" ->
         {"masked", "clear", "ready"} \cup (a \cap {"powered", "copied", "routed"})
    [] OTHER -> a \ {"open"}
AfterGate(keys, on, a) ==
  IF keys = Peripherals THEN IF on THEN Powered(a) ELSE a \ {"ungated"}
                        ELSE IF on THEN a ELSE a \ {"powered"}
AfterSleep(mode, a) == CASE mode = "HALT" -> a \cup {"ready"}
                         [] mode = "HIB" -> Facts             \* left only by a reset
                         [] OTHER -> a
After(s, a, x) ==
  CASE s.kind = "protect" -> IF s.on THEN a \ {"open"} ELSE a \cup {"open"}
    [] s.kind = "reg"     -> (a \ Spoiled(s.keys)) \cup Given(s.keys, s.val, a, x)
    [] s.kind = "gate"    -> AfterGate(s.keys, s.on, a)
    [] s.kind = "await"   -> a \cup When(s.what = "LOCKS", {"ready"})
    [] s.kind = "sleep"   -> AfterSleep(s.mode, a)
    [] s.kind = "vectors" -> (a \ {"routed"}) \cup {"copied"}
    [] s.kind = "vector"  -> a \cup {"routed"}
    [] s.kind = "call"    -> AfterCall(s.name, a, x)
    [] OTHER -> a

Legal(s, a, b, x) == Admits(s, a, x) /\ b \subseteq After(s, a, x)
------------------------------------------------------------------------------
(* Lists *)

IsList(l) == l \in Seq({l[i] : i \in DOMAIN l})

\* The list l takes what is known from a to at least c; k is its outline.
Outline(k, l, a, c, x) == /\ k[1] \subseteq a /\ c \subseteq k[Len(l) + 1]
                          /\ \A i \in 1..Len(l) : Legal(l[i], k[i], k[i + 1], x)
Runs(l, a, c, x) == IsList(l) /\ \E k \in [1..(Len(l) + 1) -> Safe] : Outline(k, l, a, c, x)

\* What is known after a reset, and when main() or a function of the name is done.
Afresh == {"masked", "fresh", "off", "ungated"}
Always == ForRoutine \cup {"ready", "matched"}
Promised(name) == Always \cup When(name \in {"InitSysPll", "InitAuxPll"}, Borrowed)
------------------------------------------------------------------------------
(* The invariant *)

RegsInv == /\ reg = [f \in Fields |-> reg[f]]
           /\ {reg["INTM"], reg["DBGM"]} \subseteq {0, 1}
PllInv == /\ dead \/ failed => reg["SYSDBGCTL"] = 1
          /\ reg["PLLCLKEN"] = 1 => halted \/ "SYS" \in locks
GatedInv == gated => clocked \cap Peripherals = {}
LossInv == lost \subseteq IF device.package = 7 THEN {} ELSE {"PCLKCR"} \cup References

ListInv ==
  run = <<>> => \E a \in Safe : /\ Fits(a, eallow, reg)
                                /\ Runs(todo, a, Promised(call.name), Context)

\* In a routine: what is left of it, which disturbs nothing; what it returns to.
Ends == {[kind |-> "iret"], Sleep("for(;;)")}
RoutineStatements == {adca1_isr[i] : i \in 1..Len(adca1_isr)} \cup Ends
InRoutine(l) == /\ l \in Seq(RoutineStatements) /\ Len(l) > 0
                \* iret, or the loop of a default routine, comes last and only there
                /\ \A i \in 1..Len(l) : i = Len(l) <=> l[i] \in Ends
RoutineInv ==
  run # <<>> =>
    /\ run[2] = IF run[1] = ADCA1 THEN ADCA1_ISR ELSE OwnRoutine(run[1])
    /\ InRoutine(todo)
    /\ \E a \in Safe : /\ ForRoutine \subseteq a
                       /\ Fits(a, run[3], [reg EXCEPT !["INTM"] = 0])
                       /\ Runs(run[4], a, Promised(call.name), Context)

SystemInv == /\ device \in Devices /\ topic \in Topics \cup {"boot"} /\ flag \subseteq Channels
             /\ RegsInv /\ PllInv /\ GatedInv /\ LossInv /\ ListInv /\ RoutineInv
------------------------------------------------------------------------------
(* The pins *)

Writes(s, fields, p) == s.kind = "pin" /\ s.field \in fields /\ p \in s.keys

\* A pin rests when it is a GPIO, or is locked as it is.  A statement brings it to rest whether
\* it is locked or not, or may end its rest.
Rests(p) == pin[p]["lock"] # 0 \/ pin[p]["mux"] = 0
Zeroes(s, p) == Writes(s, {"mux"}, p) /\ s.val = 0
Disturbs(s, p) == Writes(s, {"mux", "lock"}, p) /\ ~Zeroes(s, p)

\* When the list l gets to statement i the pin p rests: it was among those that rested at the
\* beginning, or was brought to rest, and has not been disturbed since.
Sheltered(l, i, p, resting) ==
  \/ p \in resting /\ \A k \in 1..(i - 1) : ~Disturbs(l[k], p)
  \/ \E j \in 1..(i - 1) : Zeroes(l[j], p) /\ \A k \in (j + 1)..(i - 1) : ~Disturbs(l[k], p)
GroupsSheltered(l, resting) ==
  \A i \in 1..Len(l), p \in Pins : Writes(l[i], {"gmux"}, p) => Sheltered(l, i, p, resting)

PinInv == /\ pin = [p \in Pins |-> pin[p]]
          /\ \A p \in Pins : pin[p] = [f \in PinFields |-> pin[p][f]]
          /\ GroupsSheltered(IF run = <<>> THEN todo ELSE run[4], {p \in Pins : Rests(p)})
==============================================================================
