----------------------------- MODULE SpiTransfer -----------------------------
(***************************************************************************)
(* What an SPI transfer promises to the software of both ends: the master  *)
(* takes the word in its TX register, the slave is selected and may still  *)
(* change its mind about its own word, then the two words change places.   *)
(* SpiMaster, clock cycle by clock cycle, is shown to implement this.      *)
(***************************************************************************)
CONSTANTS Words,      \* the words that travel
          Cleared,    \* the word in a register after a reset
          DELIVERS    \* FALSE when nothing is promised about the word the
                      \* slave receives

VARIABLES phase,      \* of the master
          start,      \* the START bit
          tx,         \* the TX register
          out,        \* the word on its way to the slave
          slave,      \* the word in the slave
          result      \* the RX register

vars == <<phase, start, tx, out, slave, result>>

Phases == {"idle", "accepted", "selected", "exchanging", "done"}

TypeOK == /\ phase \in Phases
          /\ start \in {0, 1}
          /\ {tx, out, slave, result} \subseteq Words

Init == /\ phase = "idle"
        /\ start = 0
        /\ tx = Cleared
        /\ out = Cleared
        /\ slave \in Words
        /\ result = Cleared

\* START is a level: a transfer needs it set in idle, and taken back at the
\* end before the next one.
Accept == /\ phase = "idle" /\ start = 1
          /\ phase' = "accepted"
          /\ UNCHANGED <<out, slave, result>>

Load == /\ phase = "accepted"
        /\ phase' = "selected"
        /\ out' = tx
        /\ UNCHANGED <<slave, result>>

\* From here on the slave's word is the answer of this transfer.
Commit == /\ phase = "selected"
          /\ phase' = "exchanging"
          /\ UNCHANGED <<out, slave, result>>

Exchange == /\ phase = "exchanging"
            /\ phase' = "done"
            /\ result' = slave
            /\ IF DELIVERS THEN slave' = out ELSE slave' \in Words
            /\ UNCHANGED out

Release == /\ phase = "done" /\ start = 0
           /\ phase' = "idle"
           /\ UNCHANGED <<out, slave, result>>

Wait == UNCHANGED <<phase, out, slave, result>>

\* Software at the master's end writes its registers at any time.
Software == start' \in {0, 1} /\ tx' \in Words

\* Software at the slave's end, as long as its word is not committed.
SlaveLoad == /\ phase # "exchanging"
             /\ slave' \in Words
             /\ UNCHANGED <<phase, start, tx, out, result>>

\* A reset of the master: the slave keeps whatever was shifted so far.
Abort == /\ phase' = "idle"
         /\ result' = Cleared
         /\ IF phase = "exchanging" THEN slave' \in Words ELSE UNCHANGED slave
         /\ UNCHANGED <<start, tx, out>>

Next == \/ (Accept \/ Load \/ Commit \/ Exchange \/ Release \/ Wait) /\ Software
        \/ SlaveLoad
        \/ Abort

Spec == Init /\ [][Next]_vars
=============================================================================
