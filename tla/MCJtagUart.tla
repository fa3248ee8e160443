----------------------------- MODULE MCJtagUart -----------------------------
(***************************************************************************)
(* Values for the constants of JtagUart.                                   *)
(***************************************************************************)
EXTENDS JtagUart

\* The program as it is built, which has no timer and writes: while the user types,
\* or while the host comes and goes; one that reads; and with a timer, one that
\* writes and one that reads.
MCSetups ==
    { [alarm |-> FALSE, typing |-> TRUE,  flips |-> 0, counts |-> {1}, calls |-> {"w_copy"}],
      [alarm |-> FALSE, typing |-> FALSE, flips |-> 2, counts |-> {3}, calls |-> {"w_copy", "c_wait"}],
      [alarm |-> FALSE, typing |-> TRUE,  flips |-> 2, counts |-> {0, 1, 3}, calls |-> {"r_copy"}],
      [alarm |-> TRUE,  typing |-> FALSE, flips |-> 2, counts |-> {2}, calls |-> {"w_copy", "c_wait"}],
      [alarm |-> TRUE,  typing |-> FALSE, flips |-> 2, counts |-> {1, 3}, calls |-> {"r_copy"}] }
=============================================================================
