---------------------------- MODULE MCSpiMaster ----------------------------
(* Values of the constants of SpiMaster for TLC: words of two or three     *)
(* bits, chosen so that a lost, doubled or swapped bit changes the word.   *)
EXTENDS SpiMasterInv

MCTxWord      == {<<1, 0>>}
MCSlaveWord   == {<<0, 1>>}
MCTxWords3    == {<<1, 0, 0>>, <<0, 1, 1>>}
MCSlaveWords3 == {<<1, 0, 1>>, <<0, 1, 1>>}
=============================================================================
