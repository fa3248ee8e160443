---------------------------- MODULE JtagUartInv ----------------------------
(***************************************************************************)
(* The inductive invariant behind WritesArrive and ReadsArrive of          *)
(* JtagUart.  TLC finds no violation of it on the instance of              *)
(* JtagUart.cfg; JtagUartProofs proves it, together with Placed.           *)
(***************************************************************************)
EXTENDS JtagUart

\* Where a copy is put, or taken from, it does not run over an end of the buffer nor over
\* what is to be taken.
Placed ==
    /\ pc \in {"w_fill", "w_publish"} =>
          /\ call.n <= call.count
          /\ tx_in + call.n <= BUF_LEN
          /\ ((tx_in - tx_out) % BUF_LEN) + call.n < BUF_LEN
    /\ pc \in {"r_take", "r_release"} =>
          /\ call.n <= call.count
          /\ rx_out + call.n <= BUF_LEN
          /\ call.n <= (rx_in - rx_out) % BUF_LEN

\* A copy copies something.
Moving == pc \in {"w_fill", "w_publish", "r_take", "r_release"} => call.n > 0

\* Beyond the published part of tx_buf are the characters of the write, numbered on.
Filled == pc = "w_publish" =>
    \A i \in tx_in..(tx_in + call.n - 1) : tx_buf[i] = (char_tx + i - tx_in) % K

\* What a read has taken is still what the buffer holds.
Copied == pc = "r_release" => call.copy = [i \in 1..call.n |-> rx_buf[rx_out + i - 1]]

\* The space that the interrupt routine goes by is there.
SpaceLeft == Len(tx_fifo) + isr.space <= FIFO

\* The newest character of each stream is the last one that was numbered.
TxNewest == Out!Newest = (char_tx + K - 1) % K
RxNewest == In!Newest = (char_rx + K - 1) % K

StreamInv == Moving /\ Filled /\ Copied /\ SpaceLeft /\ TxNewest /\ RxNewest
=============================================================================
