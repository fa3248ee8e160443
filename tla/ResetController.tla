--------------------------- MODULE ResetController ---------------------------
(***************************************************************************)
(* altera_reset_controller, the block of the nios system that turns the    *)
(* board's reset_n into the reset of the Nios II and of every PIO register *)
(* (reset_out) and into the early request that quiets the on-chip memory   *)
(* (reset_req).  It has one reset input, asserted asynchronously; its      *)
(* reset_req inputs are tied to '0' in nios.vhd.                           *)
(*                                                                         *)
(* The SPI masters do not use it: they are reset by reset_n itself.        *)
(***************************************************************************)
EXTENDS Integers

CONSTANTS SYNC_DEPTH,                 \* flip-flops of the input synchronizer
          RESET_REQ_WAIT_TIME,        \* cycles promised between the rise of
                                      \* reset_req and that of reset_out
          MIN_RST_ASSERTION_TIME,     \* cycles promised for reset_out
          RESET_REQ_EARLY_DSRT_TIME   \* cycles promised between the fall of
                                      \* reset_req and that of reset_out

Larger(a, b) == IF a > b THEN a ELSE b

MIN_METASTABLE == 3
RSTREQ_ASRT_SYNC_TAP == MIN_METASTABLE + RESET_REQ_WAIT_TIME
LARGER == Larger(RESET_REQ_WAIT_TIME, RESET_REQ_EARLY_DSRT_TIME)
ASSERTION_CHAIN_LENGTH ==
    IF MIN_METASTABLE > LARGER THEN MIN_RST_ASSERTION_TIME + 1
    ELSE IF MIN_RST_ASSERTION_TIME > LARGER
         THEN MIN_RST_ASSERTION_TIME + (LARGER - MIN_METASTABLE + 1) + 1
         ELSE MIN_RST_ASSERTION_TIME + RESET_REQ_EARLY_DSRT_TIME
                + RESET_REQ_WAIT_TIME - MIN_METASTABLE + 2
RESET_REQ_DRST_TAP == RESET_REQ_EARLY_DSRT_TIME + 1

\* The generics are such that every tap lies on its chain.
TapsFit == /\ SYNC_DEPTH \in Nat \ {0, 1}
           /\ RESET_REQ_WAIT_TIME \in Nat
           /\ MIN_RST_ASSERTION_TIME \in Nat
           /\ RESET_REQ_EARLY_DSRT_TIME \in Nat
           /\ RESET_REQ_DRST_TAP < ASSERTION_CHAIN_LENGTH

ASSUME ResetAssumption == TapsFit

VARIABLES reset_n,      \* the board's reset, active low
          sync_chain,   \* the input synchronizer, SYNC_DEPTH-1 is its input
          sync_out,     \* and its output register, reset_out_pre
          int_chain,    \* delay line of reset_out_pre, 0 is its input
          rst_chain,    \* stretches the reset, its last index is its input
          reset_out,    \* r_sync_rst
          reset_req,    \* r_early_rst
          held,         \* history: cycles reset_out has been asserted
          early,        \* history: cycles reset_req has been high with
                        \* reset_out low, or low with reset_out high
          due           \* history: reset_n fell and reset_out did not follow

chains  == <<sync_chain, sync_out, int_chain, rst_chain, reset_out, reset_req>>
history == <<held, early, due>>
vars    == <<reset_n, chains, history>>

SyncOnes == [i \in 0..(SYNC_DEPTH - 1) |-> 1]
RstOnes  == [i \in 0..(ASSERTION_CHAIN_LENGTH - 1) |-> 1]

TypeOK == /\ {reset_n, sync_out, reset_out, reset_req} \subseteq {0, 1}
          /\ sync_chain \in [0..(SYNC_DEPTH - 1) -> {0, 1}]
          /\ int_chain \in [0..RSTREQ_ASRT_SYNC_TAP -> {0, 1}]
          /\ rst_chain \in [0..(ASSERTION_CHAIN_LENGTH - 1) -> {0, 1}]

\* Power-up: the initial blocks fill the chains with ones, all but the last
\* flip-flop of int_chain; the registers without one come up at 0, the
\* default of the device.
Init == /\ reset_n = 1
        /\ sync_chain = [i \in 0..(SYNC_DEPTH - 1) |-> 0]
        /\ sync_out = 0
        /\ int_chain = [i \in 0..RSTREQ_ASRT_SYNC_TAP |->
                            IF i < RSTREQ_ASRT_SYNC_TAP THEN 1 ELSE 0]
        /\ rst_chain = RstOnes
        /\ reset_out = 0
        /\ reset_req = 0
        /\ held = 0
        /\ early = 0
        /\ due = FALSE

-----------------------------------------------------------------------------

RstNextStuck ==                                                   \* mutant
    IF int_chain[MIN_METASTABLE - 1] = 1 THEN RstOnes
    ELSE [i \in 0..(ASSERTION_CHAIN_LENGTH - 1) |->
            rst_chain[IF i = ASSERTION_CHAIN_LENGTH - 1 THEN i ELSE i + 1]]

RstNext == IF int_chain[MIN_METASTABLE - 1] = 1 THEN RstOnes
           ELSE [i \in 0..(ASSERTION_CHAIN_LENGTH - 1) |->
                    IF i = ASSERTION_CHAIN_LENGTH - 1 THEN 0 ELSE rst_chain[i + 1]]

ResetOutEarly ==                                                  \* mutant
    IF \/ int_chain[MIN_METASTABLE] = 1
       \/ rst_chain[1] = 1 /\ reset_out = 1
    THEN 1 ELSE 0

\* The case statement over {int_chain[TAP], rst_chain[1], r_sync_rst}: the
\* output sets late, and holds until the stretcher runs out.
ResetOutNext ==
    IF \/ int_chain[RSTREQ_ASRT_SYNC_TAP] = 1
       \/ rst_chain[1] = 1 /\ reset_out = 1
    THEN 1 ELSE 0

\* The case statement over {rst_chain[1], rst_chain[DRST_TAP]}.
ResetReqNext == rst_chain[RESET_REQ_DRST_TAP]

\* The input synchronizer: set while reset_n is low, emptied by clk after.
SyncNext == IF reset_n = 0 THEN SyncOnes
            ELSE [i \in 0..(SYNC_DEPTH - 1) |->
                    IF i = SYNC_DEPTH - 1 THEN 0 ELSE sync_chain[i + 1]]

\* The histories stop counting once they exceed every promise.
UpTo(n, bound) == IF n > bound THEN n ELSE n + 1

Record == /\ held' = IF reset_out' = 1 THEN UpTo(held, MIN_RST_ASSERTION_TIME) ELSE 0
          /\ early' = IF reset_out = reset_out' /\ reset_req' # reset_out'
                      THEN UpTo(early, LARGER) ELSE 0
          /\ due' = (due /\ reset_out' = 0)

\* A rising edge of clk.
Clock == /\ sync_chain' = SyncNext
         /\ sync_out' = IF reset_n = 0 THEN 1 ELSE sync_chain[0]
         /\ int_chain' = [i \in 0..RSTREQ_ASRT_SYNC_TAP |->
                            IF i = 0 THEN sync_out ELSE int_chain[i - 1]]
         /\ rst_chain' = RstNext
         /\ reset_out' = ResetOutNext
         /\ reset_req' = ResetReqNext
         /\ Record
         /\ UNCHANGED reset_n

ResetAssertClocked ==                                             \* mutant
    /\ reset_n = 1
    /\ reset_n' = 0
    /\ due' = (reset_out = 0)
    /\ UNCHANGED <<chains, held, early>>

\* The button is pressed between two edges of clk: the synchronizer is set at
\* once, so that a pulse shorter than a cycle counts too.
ResetAssert == /\ reset_n = 1
               /\ reset_n' = 0
               /\ sync_chain' = SyncOnes
               /\ sync_out' = 1
               /\ due' = (reset_out = 0)
               /\ UNCHANGED <<int_chain, rst_chain, reset_out, reset_req, held, early>>

ResetRelease == /\ reset_n = 0
                /\ reset_n' = 1
                /\ UNCHANGED <<chains, history>>

Next == Clock \/ ResetAssert \/ ResetRelease

Spec == Init /\ [][Next]_vars
FairSpec == Spec /\ WF_vars(Clock)

-----------------------------------------------------------------------------
(* Properties.                                                             *)

\* reset_out is never shorter than MIN_RST_ASSERTION_TIME, however the button
\* bounces (altera_reset_controller.v:273-300).
LongEnough == [][reset_out = 1 /\ reset_out' = 0
                    => held >= MIN_RST_ASSERTION_TIME]_vars

\* The memory is told to stop at least RESET_REQ_WAIT_TIME cycles before the
\* processor's reset begins (altera_reset_controller.v:302-308), ...
RequestedBefore == [][reset_out = 0 /\ reset_out' = 1
                        => reset_req = 1 /\ early >= RESET_REQ_WAIT_TIME]_vars

\* ... and is available again RESET_REQ_EARLY_DSRT_TIME cycles before it ends.
ReleasedBefore == [][reset_out = 1 /\ reset_out' = 0
                        => reset_req = 0 /\ early >= RESET_REQ_EARLY_DSRT_TIME]_vars

\* The whole sequence of a reset, through any bouncing of the button: a request
\* first, a reset that is long enough within it, the request gone before the end.
ResetSequence == RequestedBefore /\ LongEnough /\ ReleasedBefore

\* No pulse on reset_n is lost, however short.
EveryPulseResets == due ~> ~due

\* The system leaves reset when the button is released for good.
LeavesReset == <>[](reset_n = 1) => <>[](reset_out = 0)
=============================================================================
