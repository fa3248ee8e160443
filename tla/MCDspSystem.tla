----------------------------- MODULE MCDspSystem -----------------------------
(* Values of the constants of DspSystem for model checking *)
EXTENDS DspSystem

\* The parts with 100, 176 and 337 pins; the library is called on one of them.
MCDevices == [package : {5, 6, 7}, trimmed : BOOLEAN, otp : BOOLEAN, flash : BOOLEAN]
MCExplored == {[package |-> 7, trimmed |-> TRUE, otp |-> TRUE, flash |-> TRUE]}
\* The ADC interrupts at any time; another channel, with a default routine, in a topic of its own.
MCTopics == {"pll", "aux", "power", "adc", "pins", "interrupts"}
MCRaised == [t \in MCTopics \cup {"boot"} |->
               IF t = "interrupts" THEN {<<1, 1>>, <<12, 16>>} ELSE {<<1, 1>>}]
==============================================================================
