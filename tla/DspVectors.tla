----------------------------- MODULE DspVectors ------------------------------
(***************************************************************************)
(* The interrupt vectors of the DSP: the default routines of               *)
(* F2837xS_DefaultISR.c and the table of F2837xS_PieVect.c.                *)
(*                                                                         *)
(* A routine is named by what it serves: <<g, c>> for channel c of PIE     *)
(* group g, <<0, n>> for vector n of the CPU itself, RESERVED for          *)
(* PIE_RESERVED_ISR.  Every one of them stops the CPU (ESTOP0, then        *)
(* for(;;)) and acknowledges nothing, so it never returns; only EMPTY_ISR  *)
(* does, and no entry of the table points to it.                           *)
(***************************************************************************)
EXTENDS Integers, Sequences

RESERVED == <<0, 0>>
Routines(g, C) == {<<g, c>> : c \in C}

\* The routines that the file defines, in its order.
CpuRoutines  == Routines(0, 13..19)       \* TIMER1_ISR .. ILLEGAL_ISR
UserRoutines == Routines(0, 20..31)       \* USER1_ISR .. USER12_ISR
Group1  == Routines(1, 1..8)
Group2  == Routines(2, 1..8)
Group3  == Routines(3, 1..8)
Group4  == Routines(4, 1..6)
Group5  == Routines(5, 1..3)
Group6  == Routines(6, 1..8)
Group7  == Routines(7, 1..6)
Group8  == Routines(8, 1..8)
Group9  == Routines(9, 1..8)
Group10 == Routines(10, 1..8)
Group11 == Routines(11, 1..8)
Group12 == Routines(12, 1..3 \cup 6..8)
Upper1  == Routines(1, 13..16)            \* IPC0_ISR .. IPC3_ISR
Upper2  == Routines(2, 9..12)
Upper3  == Routines(3, 9..12)
Upper5  == Routines(5, 9..10)
Upper6  == Routines(6, 9..10)
Upper8  == Routines(8, 15..15)
Upper9  == Routines(9, 15..15)
Upper10 == Routines(10, 9..16)
Upper12 == Routines(12, 9..16)
LowerRoutines == Group1 \cup Group2 \cup Group3 \cup Group4 \cup Group5 \cup Group6
                   \cup Group7 \cup Group8 \cup Group9 \cup Group10 \cup Group11 \cup Group12
UpperRoutines == Upper1 \cup Upper2 \cup Upper3 \cup Upper5 \cup Upper6 \cup Upper8
                   \cup Upper9 \cup Upper10 \cup Upper12
Defined == CpuRoutines \cup UserRoutines \cup LowerRoutines \cup UpperRoutines

\* The table lists 32 vectors of the CPU, channels 1 to 8 of groups 1 to 12, then their
\* channels 9 to 16.  A place whose channel has no routine holds PIE_RESERVED_ISR.
Place(n) == IF n < 32 THEN <<0, n>>
            ELSE IF n < 128 THEN <<((n - 32) \div 8) + 1, ((n - 32) % 8) + 1>>
            ELSE <<((n - 128) \div 8) + 1, ((n - 128) % 8) + 9>>
PieVectTableInit == [n \in 0..223 |-> IF Place(n) \in Defined THEN Place(n) ELSE RESERVED]

\* The first three places belong to the boot ROM: the copy starts after them and moves
\* 221 words.  NONE is a place that was not written.
NONE == <<0, -1>>
Copied_short == [n \in 0..223 |-> IF n \in 3..(3 + 192 - 1) THEN PieVectTableInit[n] ELSE NONE]  \* mutant
Copied == [n \in 0..223 |-> IF n \in 3..(3 + 221 - 1) THEN PieVectTableInit[n] ELSE NONE]

\* Where the PIE fetches the vector of a channel.
PlaceOf(channel) == IF channel[2] <= 8 THEN 32 + 8 * (channel[1] - 1) + channel[2] - 1
                                       ELSE 128 + 8 * (channel[1] - 1) + channel[2] - 9
Channels == (1..12) \X (1..16)
\* The routine that a channel ought to run.
OwnRoutine(channel) == IF channel \in Defined THEN channel ELSE RESERVED
==============================================================================
