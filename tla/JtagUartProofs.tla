-------------------------- MODULE JtagUartProofs --------------------------
(***************************************************************************)
(* Theorems about JtagUart, for buffers and FIFOs of any length, any       *)
(* program of one thread and any host.                                     *)
(***************************************************************************)
EXTENDS JtagUartInv, SequenceTheorems, TLAPS

LEMMA Parameters ==
    /\ BUF_LEN \in Nat /\ BUF_LEN > 1 /\ FIFO \in Nat /\ FIFO > 0
    /\ INT_MAX \in Nat /\ INT_MAX > 1 /\ K \in Nat /\ K > 0
    /\ DEFAULT \in Nat /\ DEFAULT < INT_MAX - 1 /\ Timeouts \subseteq Nat
    /\ \A s \in Setups : s.flips \in Nat /\ s.counts \subseteq Nat
<1>1. {BUF_LEN, FIFO, INT_MAX, DEFAULT, K} \subseteq Nat \ {0}
  BY UartAssumption
<1>2. BUF_LEN > 1 /\ DEFAULT < INT_MAX - 1 /\ Timeouts \subseteq Nat
  BY UartAssumption
<1>3. \A s \in Setups : s.flips \in Nat /\ s.counts \subseteq Nat
  BY UartAssumption
<1>4. QED
  BY <1>1, <1>2, <1>3

-----------------------------------------------------------------------------
(* The circular buffers.                                                   *)

\* A step stays in the buffer.
LEMMA StepIndex == ASSUME NEW i \in Nat, NEW n \in Nat PROVE Step(i, n) \in Index
BY Parameters DEF Step, Index

\* A number of a character.
LEMMA CharMod == ASSUME NEW n \in Nat PROVE n % K \in Char
BY Parameters DEF Char

\* The place after the last one is the first one.
LEMMA StepOne == ASSUME NEW i \in Index
                 PROVE  Step(i, 1) = IF i = BUF_LEN - 1 THEN 0 ELSE i + 1
BY Parameters DEF Step, Index

\* A step that stays below the end, or reaches it.
LEMMA StepInside ==
    ASSUME NEW i \in Index, NEW n \in Nat, i + n <= BUF_LEN
    PROVE  Step(i, n) = IF i + n = BUF_LEN THEN 0 ELSE i + n
BY Parameters DEF Step, Index

\* What lies between two places.
LEMMA Used ==
    ASSUME NEW in \in Index, NEW out \in Index
    PROVE  (in - out) % BUF_LEN = IF in >= out THEN in - out ELSE in - out + BUF_LEN
BY Parameters DEF Index

\* What a write finds room for fits, before the end and before the characters to
\* be sent; and if it finds none, the buffer is full.
LEMMA RoomFits ==
    ASSUME NEW in \in Index, NEW out \in Index
    PROVE  /\ Room(in, out) \in Index
           /\ in + Room(in, out) <= BUF_LEN
           /\ ((in - out) % BUF_LEN) + Room(in, out) < BUF_LEN
           /\ Room(in, out) = 0 => Step(in, 1) = out
<1> USE Parameters DEF Index
<1>1. CASE in < out
  <2>1. Room(in, out) = out - 1 - in /\ (in - out) % BUF_LEN = in - out + BUF_LEN
    BY <1>1, Used DEF Room
  <2>2. Room(in, out) = 0 => Step(in, 1) = out
    BY <1>1, <2>1, StepOne
  <2>3. QED
    BY <1>1, <2>1, <2>2
<1>2. CASE in >= out /\ out > 0
  <2>1. Room(in, out) = BUF_LEN - in /\ (in - out) % BUF_LEN = in - out
    BY <1>2, Used DEF Room
  <2>2. QED
    BY <1>2, <2>1
<1>3. CASE out = 0
  <2>1. Room(in, out) = BUF_LEN - 1 - in /\ (in - out) % BUF_LEN = in - out
    BY <1>3, Used DEF Room
  <2>2. Room(in, out) = 0 => Step(in, 1) = out
    BY <1>3, <2>1, StepOne
  <2>3. QED
    BY <1>3, <2>1, <2>2
<1>4. QED
  BY <1>1, <1>2, <1>3

\* What a read finds is there, and before the end.
LEMMA AvailFits ==
    ASSUME NEW in \in Index, NEW out \in Index
    PROVE  /\ Avail(in, out) \in Index
           /\ out + Avail(in, out) <= BUF_LEN
           /\ Avail(in, out) <= (in - out) % BUF_LEN
BY Parameters, Used DEF Avail, Index

LEMMA RingLen ==
    ASSUME NEW in \in Index, NEW out \in Index, NEW buf
    PROVE  Len(Ring(buf, out, in)) = (in - out) % BUF_LEN
BY Parameters, Used DEF Ring, Index

-----------------------------------------------------------------------------
(* Types.  A copy needs to know where it goes: Placed, of JtagUartInv.      *)

LEMMA InitType == Init => TypeOK
<1> SUFFICES ASSUME Init PROVE TypeOK
  OBVIOUS
<1> USE Parameters DEF Init
<1>1. {tx_in, tx_out, rx_in, rx_out} \subseteq Index
      /\ tx_buf \in [Index -> Char] /\ rx_buf \in [Index -> Char]
  BY DEF Index, Char
<1>2. call \in Calls
  BY DEF NoCall, Calls, Index
<1>3. isr \in [at : {"idle", "top", "rx", "tx"}, wi : BOOLEAN, space : 0..FIFO,
              avail : BOOLEAN]
  BY DEF NoIsr
<1>4. timeout \in 0..INT_MAX /\ flips \in 0..setup.flips
  OBVIOUS
<1>5. irq_enable \in SUBSET Irq /\ ien \in SUBSET Irq
  BY DEF Irq
<1>6. /\ tx_fifo \in Seq(Char) /\ rx_fifo \in Seq(Char)
      /\ Len(tx_fifo) <= FIFO /\ Len(rx_fifo) <= FIFO
  OBVIOUS
<1>7. /\ host_inactive = 0 /\ pause_irq = FALSE /\ ac = FALSE
      /\ char_tx = 0 /\ char_rx = 0 /\ setup \in Setups /\ pc = "idle"
  OBVIOUS
<1> HIDE DEF Init
<1>8. /\ host_inactive \in 0..INT_MAX /\ pause_irq \in BOOLEAN /\ ac \in BOOLEAN
      /\ char_tx \in Char /\ char_rx \in Char
  <2>1. host_inactive \in 0..INT_MAX
    BY <1>7, Parameters
  <2>2. pause_irq \in BOOLEAN /\ ac \in BOOLEAN
    BY <1>7, Zenon
  <2>3. char_tx \in Char /\ char_rx \in Char
    BY <1>7, Parameters DEF Char
  <2>4. QED
    BY <2>1, <2>2, <2>3
<1>9. QED
  BY <1>1, <1>2, <1>3, <1>4, <1>5, <1>6, <1>7, <1>8 DEF TypeOK

LEMMA HostType ==
    TypeOK /\ (HostReads \/ HostTypes \/ HostPauses \/ HostFlips) => TypeOK'
<1> SUFFICES ASSUME TypeOK, HostReads \/ HostTypes \/ HostPauses \/ HostFlips PROVE TypeOK'
  OBVIOUS
<1> USE Parameters DEF TypeOK, tx, rx, timer, fifos, host, prog, InWrite, InRead
<1>1. CASE HostReads
  BY <1>1 DEF HostReads
<1>2. CASE HostTypes
  <2>1. char_rx' \in Char
    <3>1. char_rx + 1 \in Nat
      BY DEF Char
    <3>2. QED
      BY <1>2, <3>1, CharMod DEF HostTypes
  <2>2. rx_fifo' \in Seq(Char) /\ Len(rx_fifo') <= FIFO
    BY <1>2 DEF HostTypes
  <2>3. QED
    BY <1>2, <2>1, <2>2 DEF HostTypes
<1>3. CASE HostPauses
  BY <1>3 DEF HostPauses
<1>4. CASE HostFlips
  BY <1>4 DEF HostFlips
<1>5. QED
  BY <1>1, <1>2, <1>3, <1>4

LEMMA IsrType == TypeOK /\ (Interrupt \/ Isr \/ Timeout) => TypeOK'
<1> SUFFICES ASSUME TypeOK, Interrupt \/ Isr \/ Timeout PROVE TypeOK'
  OBVIOUS
<1> USE Parameters DEF TypeOK, tx, rx, timer, fifos, host, prog, InWrite, InRead
<1>1. CASE Interrupt
  BY <1>1 DEF Interrupt
<1>2. CASE IsrTop
  <2>1. Space \in 0..FIFO
    BY DEF Space
  <2>2. isr' \in [at : {"idle", "top", "rx", "tx"}, wi : BOOLEAN, space : 0..FIFO,
                  avail : BOOLEAN]
    BY <1>2, <2>1 DEF IsrTop, NoIsr, WI
  <2>3. QED
    BY <1>2, <2>2 DEF IsrTop
<1>3. CASE IsrRxFull
  BY <1>3 DEF IsrRxFull, DisableIrq, AfterRx
<1>4. CASE IsrRx
  <2>1. CASE rx_fifo = <<>>
    BY <1>4, <2>1 DEF IsrRx, AfterRx
  <2>2. CASE rx_fifo # <<>>
    <3>1. Step(rx_in, 1) \in Index
      <4>1. rx_in \in Nat
        BY DEF Index
      <4>2. QED
        BY <4>1, StepIndex
    <3>2. Head(rx_fifo) \in Char /\ Tail(rx_fifo) \in Seq(Char) /\ Len(Tail(rx_fifo)) <= FIFO
      BY <2>2
    <3>3. rx_buf' \in [Index -> Char]
      BY <1>4, <2>2, <3>2 DEF IsrRx
    <3>4. isr' \in [at : {"idle", "top", "rx", "tx"}, wi : BOOLEAN, space : 0..FIFO,
                    avail : BOOLEAN]
      BY <1>4, <2>2 DEF IsrRx
    <3>5. QED
      BY <1>4, <2>2, <3>1, <3>2, <3>3, <3>4 DEF IsrRx
  <2>3. QED
    BY <2>1, <2>2
<1>5. CASE IsrTx
  <2>1. Step(tx_out, 1) \in Index
    <3>1. tx_out \in Nat
      BY DEF Index
    <3>2. QED
      BY <3>1, StepIndex
  <2>2. tx_fifo' \in Seq(Char) /\ Len(tx_fifo') <= FIFO
    BY <1>5 DEF IsrTx
  <2>3. isr' \in [at : {"idle", "top", "rx", "tx"}, wi : BOOLEAN, space : 0..FIFO,
                  avail : BOOLEAN]
    <3>1. isr.space - 1 \in 0..FIFO
      BY <1>5 DEF IsrTx
    <3>2. isr' = [isr EXCEPT !.space = isr.space - 1]
      BY <1>5 DEF IsrTx
    <3>3. QED
      BY <3>1, <3>2
  <2>4. QED
    BY <1>5, <2>1, <2>2, <2>3 DEF IsrTx
<1>6. CASE IsrTxDone
  BY <1>6 DEF IsrTxDone, DisableIrq
<1>7. CASE Timeout
  <2>1. host_inactive' \in 0..INT_MAX /\ ien' \in SUBSET Irq /\ ac' \in BOOLEAN
    <3>1. CASE ac
      <4>1. ien' = irq_enable /\ ac' = FALSE /\ host_inactive' = 0
        BY <1>7, <3>1, Zenon DEF Timeout
      <4>2. 0 \in 0..INT_MAX
        BY Parameters
      <4>3. irq_enable \in SUBSET Irq
        BY Zenon DEF TypeOK
      <4>4. QED
        BY <4>1, <4>2, <4>3, Zenon
    <3>2. CASE ~ac
      BY <1>7, <3>2 DEF Timeout
    <3>3. QED
      BY <3>1, <3>2
  <2>2. QED
    BY <1>7, <2>1 DEF Timeout
<1>8. QED
  BY <1>1, <1>2, <1>3, <1>4, <1>5, <1>6, <1>7 DEF Isr

\* A step that changes the place and the locals of the thread.
LEMMA GotoType ==
    ASSUME TypeOK, NEW p, NEW c \in Calls, Goto(p, c),
           p \in {"idle", "c_wait", "w_copy", "w_fill", "w_publish", "w_kick", "w_spin",
                  "w_check", "r_copy", "r_take", "r_release", "r_spin", "r_check", "r_done"}
    PROVE  TypeOK'
BY DEF Goto, TypeOK, tx, rx, timer, fifos, host, InWrite, InRead

LEMMA ZeroIndex == 0 \in Index
BY Parameters DEF Index

LEMMA NoCallType == NoCall \in Calls
BY Parameters DEF NoCall, Calls, Index

\* A call ends.
LEMMA ReturnType == TypeOK /\ Return => TypeOK'
<1> SUFFICES ASSUME TypeOK, Return PROVE TypeOK'
  OBVIOUS
<1>1. Goto("idle", NoCall)
  BY DEF Return, Finish, Goto
<1>2. QED
  BY <1>1, NoCallType, GotoType

LEMMA CallType ==
    TypeOK =>
        /\ \A first \in {"w_copy", "r_copy"}, count \in setup.counts, nonblock \in BOOLEAN :
              Call(first, count, nonblock) => TypeOK'
        /\ \A nonblock \in BOOLEAN : Call("c_wait", 0, nonblock) => TypeOK'
        /\ \A arg \in Timeouts : TIOCSTIMEOUT(arg) => TypeOK'
<1> SUFFICES ASSUME TypeOK PROVE
        /\ \A first \in {"w_copy", "r_copy"}, count \in setup.counts, nonblock \in BOOLEAN :
              Call(first, count, nonblock) => TypeOK'
        /\ \A nonblock \in BOOLEAN : Call("c_wait", 0, nonblock) => TypeOK'
        /\ \A arg \in Timeouts : TIOCSTIMEOUT(arg) => TypeOK'
  OBVIOUS
<1>1. ASSUME NEW first \in {"w_copy", "r_copy", "c_wait"}, NEW count \in Nat,
             NEW nonblock \in BOOLEAN, Call(first, count, nonblock)
      PROVE  TypeOK'
  <2> DEFINE c == [NoCall EXCEPT !.count = count, !.nonblock = nonblock]
  <2>1. c \in Calls
    BY NoCallType DEF Calls
  <2>2. Goto(first, c)
    BY <1>1 DEF Call, Goto
  <2>3. QED
    BY <2>1, <2>2, GotoType
<1>2. setup.counts \subseteq Nat
  BY Parameters DEF TypeOK
<1>3. ASSUME NEW arg \in Timeouts, TIOCSTIMEOUT(arg) PROVE TypeOK'
  <2>1. timeout' \in 0..INT_MAX
    BY <1>3, Parameters DEF TIOCSTIMEOUT
  <2>2. QED
    BY <1>3, <2>1 DEF TIOCSTIMEOUT, TypeOK, tx, rx, fifos, host, prog, InWrite, InRead
<1>4. QED
  BY <1>1, <1>2, <1>3

LEMMA WriteType == TypeOK /\ Placed /\ Write => TypeOK'
<1> SUFFICES ASSUME TypeOK, Placed, Write PROVE TypeOK'
  OBVIOUS
<1>1. CASE WriteRoom
  <2> DEFINE n == Least(Room(tx_in, tx_out), call.count)
  <2>1. n \in Index /\ tx_out \in Index /\ call \in Calls
    <3>1. tx_in \in Index /\ tx_out \in Index /\ call \in Calls /\ call.count \in Nat
      BY DEF TypeOK, Calls
    <3>2. Room(tx_in, tx_out) \in Index
      BY <3>1, RoomFits
    <3>3. QED
      BY <3>1, <3>2, Parameters DEF Least, Index
  <2>2. [call EXCEPT !.snap = tx_out] \in Calls /\ [call EXCEPT !.n = n] \in Calls
    <3> HIDE DEF n
    <3> QED
      BY <2>1 DEF Calls
  <2>3. \/ Goto("w_kick", call) \/ Goto("w_kick", [call EXCEPT !.snap = tx_out])
        \/ Goto("w_fill", [call EXCEPT !.n = n])
    BY <1>1 DEF WriteRoom
  <2>4. QED
    BY <2>1, <2>2, <2>3, GotoType
<1>2. CASE WriteFill
  <2>1. tx_buf' \in [Index -> Char]
    <3>1. ASSUME NEW i \in Index, i \in tx_in..(tx_in + call.n - 1)
          PROVE  (char_tx + i - tx_in) % K \in Char
      <4>1. char_tx \in Nat /\ tx_in \in Nat /\ call.n \in Nat
        BY DEF TypeOK, Calls, Index, Char
      <4>2. char_tx + i - tx_in \in Nat
        BY <3>1, <4>1
      <4>3. QED
        BY <4>2, CharMod
    <3>2. tx_buf \in [Index -> Char]
      BY DEF TypeOK
    <3>3. QED
      BY <1>2, <3>1, <3>2 DEF WriteFill
  <2>2. QED
    BY <1>2, <2>1 DEF WriteFill, TypeOK, rx, timer, fifos, host, InWrite, InRead
<1>3. CASE WritePublish
  <2>1. tx_in \in Nat /\ call.n \in Nat /\ call.count \in Nat /\ char_tx \in Nat
    BY DEF TypeOK, Calls, Index, Char
  <2>2. tx_in' \in Index /\ char_tx' \in Char
    BY <1>3, <2>1, StepIndex, CharMod DEF WritePublish
  <2>3. call.count - call.n \in Nat
    BY <1>3, <2>1 DEF WritePublish, At, Placed
  <2>4. call' \in Calls
    <3>1. call' = [call EXCEPT !.count = call.count - call.n, !.moved = TRUE, !.n = 0]
      BY <1>3 DEF WritePublish
    <3>2. call \in Calls
      BY DEF TypeOK
    <3>3. QED
      BY <2>3, <3>1, <3>2, ZeroIndex DEF Calls
  <2>5. QED
    BY <1>3, <2>2, <2>4 DEF WritePublish, TypeOK, rx, timer, fifos, host, InWrite, InRead
<1>4. CASE WriteKick
  <2>1. irq_enable' \in SUBSET Irq /\ ien' \in SUBSET Irq
    BY <1>4 DEF WriteKick, EnableIrq, TypeOK, Irq
  <2>2. call' \in Calls /\ pc' \in {"idle", "w_spin"}
    BY <1>4, NoCallType DEF WriteKick, Finish, TypeOK
  <2>3. QED
    BY <1>4, <2>1, <2>2 DEF WriteKick, TypeOK, tx, rx, timer, fifos, host, InWrite, InRead
<1>5. CASE WriteSpin
  <2>1. call \in Calls
    BY DEF TypeOK
  <2>2. QED
    BY <1>5, <2>1, GotoType DEF WriteSpin
<1>6. CASE WriteCheck
  <2>1. [call EXCEPT !.snap = 0] \in Calls
    BY ZeroIndex DEF TypeOK, Calls
  <2>2. QED
    BY <1>6, <2>1, GotoType, ReturnType DEF WriteCheck
<1>7. QED
  BY <1>1, <1>2, <1>3, <1>4, <1>5, <1>6 DEF Write

LEMMA ReadType == TypeOK /\ Placed /\ (Read \/ Close) => TypeOK'
<1> SUFFICES ASSUME TypeOK, Placed, Read \/ Close PROVE TypeOK'
  OBVIOUS
<1>1. CASE ReadAvail
  <2> DEFINE n == Least(Avail(rx_in, rx_out), call.count)
             c == [call EXCEPT !.snap = IF n = 0 THEN rx_in ELSE @, !.n = n]
             p == CASE n > 0 -> "r_take"
                    [] n = 0 /\ (call.moved \/ call.nonblock \/ call.count = 0) -> "r_done"
                    [] OTHER -> "r_spin"
  <2>1. n \in Index /\ rx_in \in Index /\ call \in Calls
    <3>1. rx_in \in Index /\ rx_out \in Index /\ call \in Calls /\ call.count \in Nat
      BY DEF TypeOK, Calls
    <3>2. Avail(rx_in, rx_out) \in Index
      BY <3>1, AvailFits
    <3>3. QED
      BY <3>1, <3>2, Parameters DEF Least, Index
  <2>2. Goto(p, c)
    BY <1>1 DEF ReadAvail
  <2>3. c \in Calls
    <3> HIDE DEF n
    <3> QED
      BY <2>1 DEF Calls
  <2>4. p \in {"r_take", "r_done", "r_spin"}
    <3> HIDE DEF n
    <3>1. n > 0 \/ n = 0
      BY <2>1 DEF Index
    <3>2. QED
      BY <3>1
  <2> HIDE DEF c, p
  <2>5. QED
    BY <2>2, <2>3, <2>4, GotoType
<1>2. CASE ReadTake
  <2> DEFINE s == [i \in 1..call.n |-> rx_buf[rx_out + i - 1]]
  <2>1. s \in Seq(Char)
    <3>1. call.n \in Nat /\ rx_out \in Nat /\ rx_out + call.n <= BUF_LEN
          /\ rx_buf \in [Index -> Char]
      BY <1>2 DEF ReadTake, At, Placed, TypeOK, Calls, Index
    <3>2. \A i \in 1..call.n : rx_out + i - 1 \in Index
      BY <3>1, Parameters DEF Index
    <3>3. \A i \in 1..call.n : rx_buf[rx_out + i - 1] \in Char
      BY <3>1, <3>2
    <3>4. QED
      BY <3>1, <3>3
  <2>2. [call EXCEPT !.copy = s] \in Calls
    <3> HIDE DEF s
    <3> QED
      BY <2>1 DEF TypeOK, Calls
  <2>3. Goto("r_release", [call EXCEPT !.copy = s])
    BY <1>2 DEF ReadTake
  <2>4. QED
    BY <2>2, <2>3, GotoType
<1>3. CASE ReadRelease
  <2>1. rx_out \in Nat /\ call.n \in Nat /\ call.count \in Nat
    BY DEF TypeOK, Calls, Index
  <2>2. rx_out' \in Index
    BY <1>3, <2>1, StepIndex DEF ReadRelease
  <2>3. call.count - call.n \in Nat
    BY <1>3, <2>1 DEF ReadRelease, At, Placed
  <2>4. call' \in Calls
    <3>1. call' = [call EXCEPT !.count = call.count - call.n, !.moved = TRUE, !.n = 0,
                               !.copy = <<>>]
      BY <1>3 DEF ReadRelease
    <3>2. call \in Calls /\ <<>> \in Seq(Char)
      BY DEF TypeOK
    <3>3. QED
      BY <2>3, <3>1, <3>2, ZeroIndex DEF Calls
  <2>5. pc' \in {"r_copy", "r_done"}
    BY <1>3 DEF ReadRelease
  <2>6. QED
    BY <1>3, <2>2, <2>4, <2>5 DEF ReadRelease, TypeOK, tx, rx, timer, fifos, host, InWrite, InRead
<1>4. CASE ReadSpin
  <2>1. call \in Calls
    BY DEF TypeOK
  <2>2. QED
    BY <1>4, <2>1, GotoType DEF ReadSpin
<1>5. CASE ReadCheck
  <2>1. [call EXCEPT !.snap = 0] \in Calls
    BY ZeroIndex DEF TypeOK, Calls
  <2>2. QED
    BY <1>5, <2>1, GotoType DEF ReadCheck
<1>6. CASE ReadDone
  <2>1. irq_enable' \in SUBSET Irq /\ ien' \in SUBSET Irq
    BY <1>6 DEF ReadDone, EnableIrq, TypeOK, Irq
  <2>2. call' \in Calls /\ pc' = "idle"
    BY <1>6, NoCallType DEF ReadDone, Finish
  <2>3. QED
    BY <1>6, <2>1, <2>2 DEF ReadDone, TypeOK, tx, rx, timer, fifos, host, InWrite, InRead
<1>7. CASE Close
  BY <1>7, ReturnType DEF Close
<1>8. QED
  BY <1>1, <1>2, <1>3, <1>4, <1>5, <1>6, <1>7 DEF Read

LEMMA TypeStep == TypeOK /\ Placed /\ [Next]_vars => TypeOK'
<1> SUFFICES ASSUME TypeOK, Placed, [Next]_vars PROVE TypeOK'
  OBVIOUS
<1>1. CASE UNCHANGED vars
  BY <1>1 DEF vars, TypeOK, tx, rx, timer, prog, fifos, host, InWrite, InRead
<1>2. CASE Next
  BY <1>2, CallType, WriteType, ReadType, IsrType, HostType DEF Next, Thread
<1>3. QED
  BY <1>1, <1>2

-----------------------------------------------------------------------------
(* Copies.  What was found out before a copy stays true during it: the     *)
(* interrupt routine only takes from tx_buf, and only adds to rx_buf.      *)

LEMMA Shrinks ==
    ASSUME NEW in \in Index, NEW out \in Index, in # out
    PROVE  (in - Step(out, 1)) % BUF_LEN = ((in - out) % BUF_LEN) - 1
<1>1. Step(out, 1) \in Index /\ Step(out, 1) = IF out = BUF_LEN - 1 THEN 0 ELSE out + 1
  BY StepOne, StepIndex DEF Index
<1>2. /\ (in - out) % BUF_LEN = IF in >= out THEN in - out ELSE in - out + BUF_LEN
      /\ (in - Step(out, 1)) % BUF_LEN = IF in >= Step(out, 1) THEN in - Step(out, 1)
                                         ELSE in - Step(out, 1) + BUF_LEN
  BY <1>1, Used
<1>3. CASE out = BUF_LEN - 1
  BY <1>1, <1>2, <1>3, Parameters DEF Index
<1>4. CASE out # BUF_LEN - 1
  BY <1>1, <1>2, <1>4, Parameters DEF Index
<1>5. QED
  BY <1>3, <1>4

LEMMA Grows ==
    ASSUME NEW in \in Index, NEW out \in Index, Step(in, 1) # out
    PROVE  (Step(in, 1) - out) % BUF_LEN = ((in - out) % BUF_LEN) + 1
<1>1. Step(in, 1) \in Index /\ Step(in, 1) = IF in = BUF_LEN - 1 THEN 0 ELSE in + 1
  BY StepOne, StepIndex DEF Index
<1>2. /\ (in - out) % BUF_LEN = IF in >= out THEN in - out ELSE in - out + BUF_LEN
      /\ (Step(in, 1) - out) % BUF_LEN = IF Step(in, 1) >= out THEN Step(in, 1) - out
                                         ELSE Step(in, 1) - out + BUF_LEN
  BY <1>1, Used
<1>3. CASE in = BUF_LEN - 1
  BY <1>1, <1>2, <1>3, Parameters DEF Index
<1>4. CASE in # BUF_LEN - 1
  BY <1>1, <1>2, <1>4, Parameters DEF Index
<1>5. QED
  BY <1>3, <1>4

\* Steps that leave the places of the buffers, the thread and the interrupt bits alone.
Elsewhere == Interrupt \/ IsrTop \/ HostReads \/ HostTypes \/ HostPauses \/ HostFlips
             \/ (\E arg \in Timeouts : TIOCSTIMEOUT(arg)) \/ UNCHANGED vars

LEMMA ElsewhereSame ==
    Elsewhere => UNCHANGED <<tx_in, tx_out, rx_in, rx_out, irq_enable, ien, pc, call>>
BY DEF Elsewhere, Interrupt, IsrTop, HostReads, HostTypes, HostPauses, HostFlips,
       TIOCSTIMEOUT, vars, tx, rx, timer, prog, host, fifos

LEMMA PlacedStep == TypeOK /\ Placed /\ [Next]_vars => Placed'
<1> SUFFICES ASSUME TypeOK, Placed, [Next]_vars PROVE Placed'
  OBVIOUS
<1> DEFINE Same == UNCHANGED <<tx_in, tx_out, rx_in, rx_out>>
<1>1. CASE Same /\ UNCHANGED <<pc, call>>
  BY <1>1 DEF Placed
<1>2. CASE Same /\ pc' \notin {"w_fill", "w_publish", "r_take", "r_release"}
  BY <1>2 DEF Placed
<1>3. CASE Elsewhere
  BY <1>1, <1>3, ElsewhereSame
<1>4. CASE IsrTx
  <2>1. tx_in \in Index /\ tx_out \in Index
    BY DEF TypeOK
  <2>2. (tx_in' - tx_out') % BUF_LEN = ((tx_in - tx_out) % BUF_LEN) - 1
    BY <1>4, <2>1, Shrinks DEF IsrTx, tx
  <2>3. (tx_in - tx_out) % BUF_LEN \in Int /\ call.n \in Nat
    BY <2>1, Used, Parameters DEF TypeOK, Calls, Index
  <2>4. UNCHANGED <<tx_in, rx_in, rx_out, pc, call>>
    BY <1>4 DEF IsrTx, tx, rx, prog
  <2>5. ASSUME ((tx_in - tx_out) % BUF_LEN) + call.n < BUF_LEN
        PROVE  ((tx_in' - tx_out') % BUF_LEN) + call'.n < BUF_LEN
    <3> DEFINE u == (tx_in - tx_out) % BUF_LEN
               v == (tx_in' - tx_out') % BUF_LEN
    <3>1. v = u - 1 /\ u \in Int /\ u + call.n < BUF_LEN /\ call'.n = call.n
      BY <2>2, <2>3, <2>4, <2>5
    <3> HIDE DEF u, v
    <3>2. v + call'.n < BUF_LEN
      BY <2>3, <3>1, Parameters
    <3>3. QED
      BY <3>2 DEF v
  <2>6. QED
    BY <2>4, <2>5 DEF Placed
<1>5. CASE IsrRx
  <2>1. rx_in \in Index /\ rx_out \in Index
    BY DEF TypeOK
  <2>2. (rx_in' - rx_out') % BUF_LEN \in {(rx_in - rx_out) % BUF_LEN,
                                          ((rx_in - rx_out) % BUF_LEN) + 1}
    <3>1. rx_out' = rx_out /\ (rx_in' = rx_in \/ rx_in' = Step(rx_in, 1))
          /\ Step(rx_in, 1) # rx_out
      BY <1>5 DEF IsrRx, RxFull, rx
    <3>2. QED
      BY <2>1, <3>1, Grows
  <2>3. (rx_in - rx_out) % BUF_LEN \in Int /\ call.n \in Nat
    BY <2>1, Used, Parameters DEF TypeOK, Calls, Index
  <2>4. UNCHANGED <<tx_in, tx_out, rx_out, pc, call>>
    BY <1>5 DEF IsrRx, tx, rx, prog
  <2>5. QED
    BY <2>2, <2>3, <2>4 DEF Placed
<1>6. CASE IsrRxFull \/ IsrTxDone \/ Timeout
  BY <1>1, <1>6 DEF IsrRxFull, IsrTxDone, Timeout, tx, rx, prog
<1>7. ASSUME NEW first \in {"w_copy", "r_copy", "c_wait"}, NEW count, NEW nonblock,
             Call(first, count, nonblock)
      PROVE  Placed'
  BY <1>2, <1>7 DEF Call, tx, rx
<1>8. CASE WriteRoom
  <2> DEFINE n == Least(Room(tx_in, tx_out), call.count)
  <2>1. tx_in \in Index /\ tx_out \in Index /\ call.count \in Nat /\ call \in Calls
    BY DEF TypeOK, Calls
  <2>2. /\ n <= call.count
        /\ tx_in + n <= BUF_LEN /\ ((tx_in - tx_out) % BUF_LEN) + n < BUF_LEN
    <3>1. /\ Room(tx_in, tx_out) \in Index
          /\ tx_in + Room(tx_in, tx_out) <= BUF_LEN
          /\ ((tx_in - tx_out) % BUF_LEN) + Room(tx_in, tx_out) < BUF_LEN
      BY <2>1, RoomFits
    <3>2. (tx_in - tx_out) % BUF_LEN \in Int
      BY <2>1, Used, Parameters DEF Index
    <3>3. QED
      BY <2>1, <3>1, <3>2, Parameters DEF Least, Index
  <2>3. Same /\ (pc' = "w_kick" \/ (pc' = "w_fill" /\ call' = [call EXCEPT !.n = n]))
    BY <1>8 DEF WriteRoom, Goto, tx, rx
  <2>4. CASE pc' = "w_fill" /\ call' = [call EXCEPT !.n = n]
    <3>1. call'.n = n /\ call'.count = call.count
      BY <2>1, <2>4 DEF Calls
    <3> HIDE DEF n
    <3>2. QED
      BY <2>2, <2>3, <2>4, <3>1 DEF Placed
  <2>5. QED
    BY <1>2, <2>3, <2>4
<1>9. CASE WriteFill
  BY <1>9 DEF WriteFill, At, rx, Placed
<1>10. CASE ReadAvail
  <2> DEFINE n == Least(Avail(rx_in, rx_out), call.count)
  <2>1. rx_in \in Index /\ rx_out \in Index /\ call.count \in Nat /\ call \in Calls
    BY DEF TypeOK, Calls
  <2>2. /\ n <= call.count
        /\ rx_out + n <= BUF_LEN /\ n <= (rx_in - rx_out) % BUF_LEN
    <3>1. /\ Avail(rx_in, rx_out) \in Index
          /\ rx_out + Avail(rx_in, rx_out) <= BUF_LEN
          /\ Avail(rx_in, rx_out) <= (rx_in - rx_out) % BUF_LEN
          /\ (rx_in - rx_out) % BUF_LEN \in Int
      BY <2>1, AvailFits, Used, Parameters DEF Index
    <3>2. QED
      BY <2>1, <3>1, Parameters DEF Least, Index
  <2>3. /\ Same /\ call' = [call EXCEPT !.snap = IF n = 0 THEN rx_in ELSE @, !.n = n]
        /\ pc' = CASE n > 0 -> "r_take"
                   [] n = 0 /\ (call.moved \/ call.nonblock \/ call.count = 0) -> "r_done"
                   [] OTHER -> "r_spin"
    BY <1>10 DEF ReadAvail, Goto, tx, rx
  <2>4. n \in Nat
    <3>1. Avail(rx_in, rx_out) \in Nat
      BY <2>1, AvailFits DEF Index
    <3>2. QED
      BY <2>1, <3>1 DEF Least
  <2>5. call'.n = n /\ call'.count = call.count
    BY <2>1, <2>3 DEF Calls
  <2> HIDE DEF n
  <2>6. pc' \in {"r_take", "r_done", "r_spin"}
    BY <2>3, <2>4
  <2>7. QED
    BY <2>2, <2>3, <2>5, <2>6 DEF Placed
<1>11. CASE ReadTake
  <2>1. call \in Calls /\ Same /\ pc = "r_take" /\ pc' = "r_release"
    BY <1>11 DEF ReadTake, Goto, At, tx, rx, TypeOK
  <2>2. call'.n = call.n /\ call'.count = call.count
    BY <1>11, <2>1 DEF ReadTake, Goto, Calls
  <2>3. QED
    BY <2>1, <2>2 DEF Placed
<1>12. CASE WritePublish \/ ReadRelease
  BY <1>12 DEF WritePublish, ReadRelease, Placed
<1>13. CASE WriteKick \/ WriteSpin \/ WriteCheck \/ ReadSpin \/ ReadCheck \/ ReadDone \/ Close
  BY <1>2, <1>13 DEF WriteKick, WriteSpin, WriteCheck, ReadSpin, ReadCheck, ReadDone, Close,
     Goto, Return, Finish, tx, rx
<1>14. QED
  BY <1>3, <1>4, <1>5, <1>6, <1>7, <1>8, <1>9, <1>10, <1>11, <1>12, <1>13
  DEF Next, Thread, Write, Read, Isr, Elsewhere

\* The model keeps its types, for buffers and FIFOs of every length (the records of
\* altera_avalon_jtag_uart.h, and the FIFOs of the device).
THEOREM TypeCorrect == Spec => []TypeOK
<1>1. Init => TypeOK /\ Placed
  BY InitType DEF Init, Placed
<1>2. TypeOK /\ Placed /\ [Next]_vars => (TypeOK /\ Placed)'
  BY TypeStep, PlacedStep
<1>3. QED
  BY <1>1, <1>2, PTL DEF Spec

\* No copy of write or read runs over the end of a buffer or over characters that are
\* still to be taken, for buffers of every length.
THEOREM CopiesFitAlways == Spec => []CopiesFit
<1>1. Init => TypeOK /\ Placed
  BY InitType DEF Init, Placed
<1>2. TypeOK /\ Placed /\ [Next]_vars => (TypeOK /\ Placed)'
  BY TypeStep, PlacedStep
<1>3. TypeOK /\ Placed => CopiesFit
  BY RingLen DEF TypeOK, Placed, CopiesFit
<1>4. QED
  BY <1>1, <1>2, <1>3, PTL DEF Spec

-----------------------------------------------------------------------------
(* Wake-ups.  The control register follows irq_enable; the thread waits    *)
(* only for a full buffer; and whoever turns an interrupt off leaves       *)
(* behind a buffer that says why.                                          *)

Shadow == ien = irq_enable

Waiting ==
    /\ pc \in {"w_kick", "w_spin"} /\ call.count > 0 => Step(tx_in, 1) = call.snap
    /\ pc = "w_spin" => call.count > 0

TxOn == tx_out # tx_in /\ pc \notin {"w_copy", "w_fill", "w_publish", "w_kick"}
            => "WE" \in ien

RxOn == "RE" \notin ien => RxFull \/ (call.moved /\ InRead)

Wakeups == Shadow /\ Waiting /\ TxOn /\ RxOn

\* The interrupt routine turns transmission off with the buffer empty, and reception
\* off with the buffer full.
LEMMA IsrWakeups == TypeOK /\ Wakeups /\ (Isr \/ Timeout) => Wakeups'
<1> SUFFICES ASSUME TypeOK, Wakeups, Isr \/ Timeout PROVE Wakeups'
  OBVIOUS
<1> USE DEF Wakeups, Shadow, Waiting, TxOn, RxOn, RxFull, InRead, tx, rx, timer, prog, fifos
<1>1. CASE IsrTop
  BY <1>1 DEF IsrTop
<1>2. CASE IsrRxFull
  BY <1>2 DEF IsrRxFull, DisableIrq
<1>3. CASE IsrRx
  BY <1>3 DEF IsrRx
<1>4. CASE IsrTx
  BY <1>4 DEF IsrTx
<1>5. CASE IsrTxDone
  <2>1. UNCHANGED <<tx_in, tx_out, rx_in, rx_out, pc, call>>
    BY <1>5 DEF IsrTxDone
  <2>2. CASE NoMoreData
    <3>1. tx_out = tx_in /\ ien' = irq_enable \ {"WE"} /\ irq_enable' = ien'
      BY <1>5, <2>2 DEF IsrTxDone, NoMoreData, DisableIrq
    <3>2. QED
      BY <2>1, <3>1
  <2>3. CASE ~NoMoreData
    BY <1>5, <2>1, <2>3 DEF IsrTxDone
  <2>4. QED
    BY <2>2, <2>3
<1>6. CASE Timeout
  <2>1. UNCHANGED <<tx_in, tx_out, rx_in, rx_out, pc, call, irq_enable>>
        /\ (ien' = irq_enable \/ ien' = ien)
    BY <1>6 DEF Timeout
  <2>2. QED
    BY <2>1
<1>7. QED
  BY <1>1, <1>2, <1>3, <1>4, <1>5, <1>6 DEF Isr

\* A write that goes to wait has seen the buffer full, and kicks after its last
\* character went in.
LEMMA WriteWakeups == TypeOK /\ Wakeups /\ (Write \/ Close) => Wakeups'
<1> SUFFICES ASSUME TypeOK, Wakeups, Write \/ Close PROVE Wakeups'
  OBVIOUS
<1> USE DEF Wakeups, Shadow, Waiting, TxOn, RxOn, RxFull, InRead, tx, rx, timer, prog, At
<1>1. CASE WriteRoom
  <2> DEFINE n == Least(Room(tx_in, tx_out), call.count)
  <2>1. call \in Calls /\ call.count \in Nat /\ tx_in \in Index /\ tx_out \in Index
    BY DEF TypeOK, Calls
  <2>2. n = 0 /\ call.count # 0 => Step(tx_in, 1) = tx_out
    <3>1. Room(tx_in, tx_out) = 0 => Step(tx_in, 1) = tx_out
      BY <2>1, RoomFits
    <3>2. QED
      BY <2>1, <3>1 DEF Least
  <2>3. UNCHANGED <<tx_in, tx_out, rx_in, rx_out, irq_enable, ien>> /\ pc = "w_copy"
    BY <1>1 DEF WriteRoom, Goto
  <2>4. CASE call.count = 0
    BY <1>1, <2>1, <2>3, <2>4 DEF WriteRoom, Goto
  <2>5. CASE call.count # 0 /\ n = 0
    <3>1. pc' = "w_kick" /\ call' = [call EXCEPT !.snap = tx_out]
      BY <1>1, <2>5 DEF WriteRoom, Goto
    <3>2. call'.snap = tx_out
      BY <2>1, <3>1 DEF Calls
    <3>3. QED
      BY <2>2, <2>3, <2>5, <3>1, <3>2
  <2>6. CASE call.count # 0 /\ n # 0
    <3>1. pc' = "w_fill"
      BY <1>1, <2>6 DEF WriteRoom, Goto
    <3>2. QED
      BY <2>3, <3>1
  <2>7. QED
    BY <2>4, <2>5, <2>6
<1>2. CASE WriteFill
  BY <1>2 DEF WriteFill
<1>3. CASE WritePublish
  BY <1>3 DEF WritePublish
<1>4. CASE WriteKick
  <2>1. /\ UNCHANGED <<tx_in, tx_out, rx_in, rx_out>> /\ pc = "w_kick"
        /\ ien' = irq_enable \cup {"WE"} /\ irq_enable' = ien'
        /\ \/ call.count > 0 /\ pc' = "w_spin" /\ call' = call
           \/ pc' = "idle"
    BY <1>4 DEF WriteKick, EnableIrq, Finish
  <2>2. QED
    BY <2>1
<1>5. CASE WriteSpin
  BY <1>5 DEF WriteSpin, Goto
<1>6. CASE WriteCheck
  BY <1>6 DEF WriteCheck, Goto, Return, Finish
<1>7. CASE Close
  BY <1>7 DEF Close, Return, Finish
<1>8. QED
  BY <1>1, <1>2, <1>3, <1>4, <1>5, <1>6, <1>7 DEF Write

\* A read that made space turns reception on before it ends.
LEMMA ReadWakeups == TypeOK /\ Wakeups /\ Read => Wakeups'
<1> SUFFICES ASSUME TypeOK, Wakeups, Read PROVE Wakeups'
  OBVIOUS
<1> USE DEF Wakeups, Shadow, Waiting, TxOn, RxOn, RxFull, InRead, tx, rx, timer, prog, At
<1>0. call \in Calls
  BY DEF TypeOK
<1>1. CASE ReadAvail
  <2>1. /\ UNCHANGED <<tx_in, tx_out, rx_in, rx_out, irq_enable, ien>> /\ pc = "r_copy"
        /\ pc' \in {"r_take", "r_done", "r_spin"} /\ call'.moved = call.moved
    <3> DEFINE n == Least(Avail(rx_in, rx_out), call.count)
    <3>1. n > 0 \/ n = 0
      <4>1. Avail(rx_in, rx_out) \in Nat /\ call.count \in Nat
        BY AvailFits DEF TypeOK, Calls, Index
      <4>2. QED
        BY <4>1 DEF Least
    <3>2. /\ call' = [call EXCEPT !.snap = IF n = 0 THEN rx_in ELSE @, !.n = n]
          /\ pc' = CASE n > 0 -> "r_take"
                     [] n = 0 /\ (call.moved \/ call.nonblock \/ call.count = 0) -> "r_done"
                     [] OTHER -> "r_spin"
          /\ UNCHANGED <<tx_in, tx_out, rx_in, rx_out, irq_enable, ien>> /\ pc = "r_copy"
      BY <1>1 DEF ReadAvail, Goto
    <3> HIDE DEF n
    <3>3. QED
      BY <1>0, <3>1, <3>2 DEF Calls
  <2>2. QED
    BY <2>1
<1>2. CASE ReadTake
  <2>1. call'.moved = call.moved
    BY <1>0, <1>2 DEF ReadTake, Goto, Calls
  <2>2. QED
    BY <1>2, <2>1 DEF ReadTake, Goto
<1>3. CASE ReadRelease
  <2>1. call'.moved
    BY <1>0, <1>3 DEF ReadRelease, Calls
  <2>2. QED
    BY <1>3, <2>1 DEF ReadRelease
<1>4. CASE ReadSpin
  BY <1>4 DEF ReadSpin, Goto
<1>5. CASE ReadCheck
  <2>1. call'.moved = call.moved
    BY <1>0, <1>5 DEF ReadCheck, Goto, Calls
  <2>2. QED
    BY <1>5, <2>1 DEF ReadCheck, Goto
<1>6. CASE ReadDone
  <2>1. UNCHANGED <<tx_in, tx_out, rx_in, rx_out>> /\ pc = "r_done" /\ pc' = "idle"
    BY <1>6 DEF ReadDone, Finish
  <2>2. CASE call.moved
    <3>1. ien' = irq_enable \cup {"RE"} /\ irq_enable' = ien'
      BY <1>6, <2>2 DEF ReadDone, EnableIrq
    <3>2. QED
      BY <2>1, <3>1
  <2>3. CASE ~call.moved
    BY <1>6, <2>1, <2>3 DEF ReadDone
  <2>4. QED
    BY <2>2, <2>3
<1>7. QED
  BY <1>1, <1>2, <1>3, <1>4, <1>5, <1>6 DEF Read

LEMMA WakeupsStep == TypeOK /\ Wakeups /\ [Next]_vars => Wakeups'
<1> SUFFICES ASSUME TypeOK, Wakeups, [Next]_vars PROVE Wakeups'
  OBVIOUS
<1>1. CASE Elsewhere
  BY <1>1, ElsewhereSame DEF Wakeups, Shadow, Waiting, TxOn, RxOn, RxFull, InRead
<1>2. ASSUME NEW first \in {"w_copy", "r_copy", "c_wait"}, NEW count, NEW nonblock,
             Call(first, count, nonblock)
      PROVE  Wakeups'
  BY <1>2 DEF Call, At, Wakeups, Shadow, Waiting, TxOn, RxOn, RxFull, InRead, tx, rx
<1>3. QED
  BY <1>1, <1>2, IsrWakeups, WriteWakeups, ReadWakeups
  DEF Next, Thread, Isr, Elsewhere

LEMMA WakeupsAlways == Spec => [](TypeOK /\ Wakeups)
<1>1. Init => TypeOK /\ Placed /\ Wakeups
  <2>1. Init => Wakeups
    BY DEF Init, Wakeups, Shadow, Waiting, TxOn, RxOn
  <2>2. QED
    BY <2>1, InitType DEF Init, Placed
<1>2. TypeOK /\ Placed /\ Wakeups /\ [Next]_vars => (TypeOK /\ Placed /\ Wakeups)'
  BY TypeStep, PlacedStep, WakeupsStep
<1>3. QED
  BY <1>1, <1>2, PTL DEF Spec

\* Characters never wait in the buffer of write with the transmit interrupt off, except
\* on the way of a write to its kick, for buffers of every length.
THEOREM TxArmedAlways == Spec => []TxArmed
<1>1. TypeOK /\ Wakeups => TxArmed
  <2> SUFFICES ASSUME TypeOK, Wakeups, pc = "w_spin", tx_out = call.snap
               PROVE  tx_out # tx_in
    BY DEF TxArmed, Wakeups, TxOn
  <2>1. tx_in \in Index /\ Step(tx_in, 1) = tx_out
    BY DEF TypeOK, Wakeups, Waiting
  <2>2. QED
    BY <2>1, StepOne, Parameters DEF Index
<1>2. QED
  BY <1>1, WakeupsAlways, PTL

\* The receive interrupt is off only while the buffer of read is full, or until the
\* read that made space ends, for buffers of every length.
THEOREM RxArmedAlways == Spec => []RxArmed
<1>1. TypeOK /\ Wakeups => RxArmed
  BY DEF Wakeups, RxOn, RxArmed
<1>2. QED
  BY <1>1, WakeupsAlways, PTL

-----------------------------------------------------------------------------
(* The streams.  A circular buffer as a sequence: what is put in is        *)
(* appended, what is taken out is its beginning.                           *)

LEMMA StepValue ==
    ASSUME NEW i \in Index, NEW n \in 0..BUF_LEN
    PROVE  Step(i, n) = IF i + n < BUF_LEN THEN i + n ELSE i + n - BUF_LEN
BY Parameters DEF Step, Index

LEMMA RingSeq ==
    ASSUME NEW in \in Index, NEW out \in Index, NEW buf \in [Index -> Char]
    PROVE  /\ Ring(buf, out, in) \in Seq(Char)
           /\ Len(Ring(buf, out, in)) = (in - out) % BUF_LEN
           /\ (in - out) % BUF_LEN \in 0..(BUF_LEN - 1)
           /\ \A i \in 1..((in - out) % BUF_LEN) :
                 /\ Step(out, i - 1) \in Index
                 /\ Ring(buf, out, in)[i] = buf[Step(out, i - 1)]
<1> DEFINE u == (in - out) % BUF_LEN
<1>1. u \in 0..(BUF_LEN - 1)
  BY Used, Parameters DEF Index
<1> HIDE DEF u
<1>2. \A i \in 1..u : Step(out, i - 1) \in Index
  <2> SUFFICES ASSUME NEW i \in 1..u PROVE Step(out, i - 1) \in Index
    OBVIOUS
  <2>1. out \in Nat /\ i - 1 \in Nat
    BY <1>1 DEF Index
  <2>2. QED
    BY <2>1, StepIndex
<1>3. \A i \in 1..u : buf[Step(out, i - 1)] \in Char
  BY <1>2
<1>4. Ring(buf, out, in) = [i \in 1..u |-> buf[Step(out, i - 1)]]
  BY DEF Ring, u
<1>5. Ring(buf, out, in) \in Seq(Char) /\ Len(Ring(buf, out, in)) = u
      /\ \A i \in 1..u : Ring(buf, out, in)[i] = buf[Step(out, i - 1)]
  BY <1>1, <1>3, <1>4
<1>6. QED
  BY <1>1, <1>2, <1>5 DEF u

\* What a copy of n places from i on holds.
Part(buf, i, n) == [j \in 1..n |-> buf[i + j - 1]]

LEMMA PartSeq ==
    ASSUME NEW buf \in [Index -> Char], NEW i \in Index, NEW n \in Nat, i + n <= BUF_LEN
    PROVE  /\ Part(buf, i, n) \in Seq(Char) /\ Len(Part(buf, i, n)) = n
           /\ \A j \in 1..n : Part(buf, i, n)[j] = buf[i + j - 1]
<1>1. \A j \in 1..n : i + j - 1 \in Index
  BY Parameters DEF Index
<1>2. \A j \in 1..n : buf[i + j - 1] \in Char
  BY <1>1
<1>3. QED
  BY <1>2 DEF Part

\* Characters outside of a ring do not count.
LEMMA RingSame ==
    ASSUME NEW in \in Index, NEW out \in Index, NEW n \in Nat,
           NEW buf \in [Index -> Char], NEW new \in [Index -> Char],
           in + n <= BUF_LEN, ((in - out) % BUF_LEN) + n < BUF_LEN,
           \A i \in Index : i \notin in..(in + n - 1) => new[i] = buf[i]
    PROVE  Ring(new, out, in) = Ring(buf, out, in)
<1> DEFINE u == (in - out) % BUF_LEN
<1>1. u \in 0..(BUF_LEN - 1) /\ u = IF in >= out THEN in - out ELSE in - out + BUF_LEN
  BY Used, Parameters DEF Index
<1> HIDE DEF u
<1>2. ASSUME NEW i \in 1..u PROVE new[Step(out, i - 1)] = buf[Step(out, i - 1)]
  <2>1. Step(out, i - 1) \in Index
    BY <1>1, RingSeq DEF u
  <2>2. Step(out, i - 1) = IF out + (i - 1) < BUF_LEN THEN out + (i - 1)
                           ELSE out + (i - 1) - BUF_LEN
    BY <1>1, StepValue, Parameters
  <2>3. u + n < BUF_LEN
    BY DEF u
  <2>4. Step(out, i - 1) \notin in..(in + n - 1)
    BY <1>1, <2>2, <2>3, Parameters DEF Index
  <2>5. QED
    BY <2>1, <2>4
<1>3. QED
  BY <1>2 DEF Ring, u

\* What is put in is appended.
LEMMA RingPush ==
    ASSUME NEW in \in Index, NEW out \in Index, NEW n \in Nat, NEW buf \in [Index -> Char],
           in + n <= BUF_LEN, ((in - out) % BUF_LEN) + n < BUF_LEN
    PROVE  Ring(buf, out, Step(in, n)) = Ring(buf, out, in) \o Part(buf, in, n)
<1> DEFINE u == (in - out) % BUF_LEN
           to == Step(in, n)
           r  == Ring(buf, out, in)
           p  == Part(buf, in, n)
           q  == Ring(buf, out, to)
<1>1. u \in 0..(BUF_LEN - 1) /\ u = (IF in >= out THEN in - out ELSE in - out + BUF_LEN)
      /\ u + n < BUF_LEN
  <2>1. u \in 0..(BUF_LEN - 1) /\ u = (IF in >= out THEN in - out ELSE in - out + BUF_LEN)
    BY Used, Parameters DEF Index
  <2>2. QED
    BY <2>1
<1>2. to \in Index /\ to = IF in + n < BUF_LEN THEN in + n ELSE in + n - BUF_LEN
  <2>1. in \in Nat /\ n \in 0..BUF_LEN
    BY Parameters DEF Index
  <2>2. QED
    BY <2>1, StepIndex, StepValue
<1>3. r \in Seq(Char) /\ Len(r) = u /\ \A i \in 1..u : r[i] = buf[Step(out, i - 1)]
  BY RingSeq
<1>4. p \in Seq(Char) /\ Len(p) = n /\ \A j \in 1..n : p[j] = buf[in + j - 1]
  BY PartSeq
<1>5. (to - out) % BUF_LEN = IF to >= out THEN to - out ELSE to - out + BUF_LEN
  BY <1>2, Used
<1>6. (to - out) % BUF_LEN = u + n
  <2> HIDE DEF u, to
  <2>1. QED
    BY <1>1, <1>2, <1>5, Parameters DEF Index
<1>7. q \in Seq(Char) /\ Len(q) = u + n /\ \A i \in 1..(u + n) : q[i] = buf[Step(out, i - 1)]
  BY <1>2, <1>6, RingSeq
<1>8. ASSUME NEW i \in (u + 1)..(u + n) PROVE Step(out, i - 1) = in + (i - u) - 1
  <2>1. Step(out, i - 1) = IF out + (i - 1) < BUF_LEN THEN out + (i - 1)
                           ELSE out + (i - 1) - BUF_LEN
    <3> HIDE DEF u
    <3>1. i - 1 \in 0..BUF_LEN
      BY <1>1, Parameters
    <3>2. QED
      BY <3>1, StepValue
  <2> HIDE DEF u
  <2>2. QED
    BY <1>1, <2>1, Parameters DEF Index
<1> HIDE DEF u, to, r, p, q
<1>9. /\ r \o p \in Seq(Char) /\ Len(r \o p) = u + n
      /\ \A i \in 1..(u + n) : (r \o p)[i] = IF i <= u THEN r[i] ELSE p[i - u]
  BY <1>3, <1>4, ConcatProperties
<1>10. ASSUME NEW i \in 1..(u + n) PROVE q[i] = (r \o p)[i]
  <2>1. CASE i <= u
    <3>1. i \in 1..u
      BY <1>1, <2>1
    <3>2. QED
      BY <1>3, <1>7, <1>9, <2>1, <3>1
  <2>2. CASE ~(i <= u)
    <3>1. i \in (u + 1)..(u + n) /\ i - u \in 1..n
      BY <1>1, <2>2
    <3>2. (r \o p)[i] = buf[in + (i - u) - 1]
      BY <1>4, <1>9, <2>2, <3>1
    <3>3. q[i] = buf[Step(out, i - 1)]
      BY <1>7
    <3>4. QED
      BY <1>8, <3>1, <3>2, <3>3
  <2>3. QED
    BY <2>1, <2>2
<1>11. q = r \o p
  BY <1>7, <1>9, <1>10, SeqEqual
<1>12. QED
  BY <1>11 DEF q, r, p, to

\* What is taken out is the beginning.
LEMMA RingDrop ==
    ASSUME NEW in \in Index, NEW out \in Index, NEW n \in Nat, NEW buf \in [Index -> Char],
           out + n <= BUF_LEN, n <= (in - out) % BUF_LEN
    PROVE  Ring(buf, out, in) = Part(buf, out, n) \o Ring(buf, Step(out, n), in)
<1> DEFINE u == (in - out) % BUF_LEN
           to == Step(out, n)
           r  == Ring(buf, out, in)
           p  == Part(buf, out, n)
           q  == Ring(buf, to, in)
<1>1. u \in 0..(BUF_LEN - 1) /\ u = (IF in >= out THEN in - out ELSE in - out + BUF_LEN)
      /\ n <= u
  <2>1. u \in 0..(BUF_LEN - 1) /\ u = (IF in >= out THEN in - out ELSE in - out + BUF_LEN)
    BY Used, Parameters DEF Index
  <2>2. QED
    BY <2>1
<1>2. to \in Index /\ to = IF out + n < BUF_LEN THEN out + n ELSE out + n - BUF_LEN
  <2>1. out \in Nat /\ n \in 0..BUF_LEN
    BY Parameters DEF Index
  <2>2. QED
    BY <2>1, StepIndex, StepValue
<1>3. r \in Seq(Char) /\ Len(r) = u /\ \A i \in 1..u : r[i] = buf[Step(out, i - 1)]
  BY RingSeq
<1>4. p \in Seq(Char) /\ Len(p) = n /\ \A j \in 1..n : p[j] = buf[out + j - 1]
  BY PartSeq
<1>5. (in - to) % BUF_LEN = IF in >= to THEN in - to ELSE in - to + BUF_LEN
  BY <1>2, Used
<1>6. (in - to) % BUF_LEN = u - n
  <2> HIDE DEF u, to
  <2>1. QED
    BY <1>1, <1>2, <1>5, Parameters DEF Index
<1>7. q \in Seq(Char) /\ Len(q) = u - n /\ \A i \in 1..(u - n) : q[i] = buf[Step(to, i - 1)]
  BY <1>2, <1>6, RingSeq
<1>8. ASSUME NEW i \in 1..u
      PROVE  Step(out, i - 1) = IF i <= n THEN out + i - 1 ELSE Step(to, (i - n) - 1)
  <2> HIDE DEF u, to
  <2>1. Step(out, i - 1) = IF out + (i - 1) < BUF_LEN THEN out + (i - 1)
                           ELSE out + (i - 1) - BUF_LEN
    <3>1. i - 1 \in 0..BUF_LEN
      BY <1>1, Parameters
    <3>2. QED
      BY <3>1, StepValue
  <2>2. CASE i <= n
    BY <2>1, <2>2, <1>1, Parameters DEF Index
  <2>3. CASE ~(i <= n)
    <3>1. (i - n) - 1 \in 0..BUF_LEN
      BY <1>1, <2>3, Parameters
    <3>2. Step(to, (i - n) - 1) = IF to + ((i - n) - 1) < BUF_LEN THEN to + ((i - n) - 1)
                                ELSE to + ((i - n) - 1) - BUF_LEN
      BY <1>2, <3>1, StepValue
    <3>3. QED
      BY <1>1, <1>2, <2>1, <2>3, <3>2, Parameters DEF Index
  <2>4. QED
    BY <2>2, <2>3
<1> HIDE DEF u, to, r, p, q
<1>9. /\ p \o q \in Seq(Char) /\ Len(p \o q) = u
      /\ \A i \in 1..u : (p \o q)[i] = IF i <= n THEN p[i] ELSE q[i - n]
  <2>1. Len(p) + Len(q) = u
    BY <1>1, <1>4, <1>7
  <2>2. /\ p \o q \in Seq(Char) /\ Len(p \o q) = Len(p) + Len(q)
        /\ \A i \in 1..(Len(p) + Len(q)) : (p \o q)[i] = IF i <= Len(p) THEN p[i] ELSE q[i - Len(p)]
    BY <1>4, <1>7, ConcatProperties
  <2>3. QED
    BY <1>4, <2>1, <2>2
<1>10. ASSUME NEW i \in 1..u PROVE r[i] = (p \o q)[i]
  <2>1. CASE i <= n
    <3>1. i \in 1..n
      BY <1>1, <2>1
    <3>2. QED
      BY <1>3, <1>4, <1>8, <1>9, <2>1, <3>1
  <2>2. CASE ~(i <= n)
    <3>1. i - n \in 1..(u - n)
      BY <1>1, <2>2
    <3>2. (p \o q)[i] = buf[Step(to, (i - n) - 1)]
      BY <1>7, <1>9, <2>2, <3>1
    <3>3. QED
      BY <1>3, <1>8, <2>2, <3>2
  <2>3. QED
    BY <2>1, <2>2
<1>11. r = p \o q
  BY <1>3, <1>9, <1>10, SeqEqual
<1>12. QED
  BY <1>11 DEF q, r, p, to

-----------------------------------------------------------------------------
(* The streams, as sequences of characters.                                *)

Last(p, d) == IF p = <<>> THEN d[Len(d)] ELSE p[Len(p)]

Numbered(c, n) == [i \in 1..n |-> (c + i) % K]

LEMMA KMod ==
    /\ \A n \in 0..(2 * K - 1) : n % K = IF n < K THEN n ELSE n - K
    /\ BUF_LEN < K
<1>1. K > BUF_LEN + FIFO
  BY UartAssumption
<1>2. QED
  BY <1>1, Parameters

\* The characters that a call numbers from c on follow the newest one.
LEMMA Following ==
    ASSUME NEW c \in Char, NEW n \in 1..(K - 1)
    PROVE  /\ \A i \in 1..n : (((c + K - 1) % K) + i) % K = (c + i - 1) % K
           /\ (c + n - 1) % K = (((c + n) % K) + K - 1) % K
<1> USE Parameters DEF Char
<1>1. (c + K - 1) % K = IF c = 0 THEN K - 1 ELSE c - 1
  BY KMod
<1>2. ASSUME NEW i \in 1..n PROVE (((c + K - 1) % K) + i) % K = (c + i - 1) % K
  BY <1>1, KMod
<1>3. (c + n) % K = IF c + n < K THEN c + n ELSE c + n - K
  BY KMod
<1>4. (c + n - 1) % K = (((c + n) % K) + K - 1) % K
  BY <1>3, KMod
<1>5. QED
  BY <1>2, <1>4

\* What is appended is the newest.
LEMMA LastAppended ==
    ASSUME NEW p \in Seq(Char), NEW s \in Seq(Char), s # <<>>, NEW d
    PROVE  Last(p \o s, d) = s[Len(s)]
<1>1. /\ Len(p \o s) = Len(p) + Len(s) /\ Len(s) \in Nat \ {0} /\ Len(p) \in Nat
      /\ \A i \in 1..(Len(p) + Len(s)) : (p \o s)[i] = IF i <= Len(p) THEN p[i] ELSE s[i - Len(p)]
  BY ConcatProperties, EmptySeq, LenProperties
<1>2. p \o s # <<>>
  BY <1>1
<1>3. (p \o s)[Len(p \o s)] = s[Len(s)]
  BY <1>1
<1>4. QED
  BY <1>2, <1>3 DEF Last

\* A beginning that is taken, and the rest.
LEMMA Beginning ==
    ASSUME NEW s \in Seq(Char), NEW r \in Seq(Char), s # <<>>, NEW d
    PROVE  /\ Len(s) <= Len(s \o r)
           /\ s = SubSeq(s \o r, 1, Len(s))
           /\ r = SubSeq(s \o r, Len(s) + 1, Len(s \o r))
           /\ Last(r, s) = Last(s \o r, d)
<1>1. /\ Len(s \o r) = Len(s) + Len(r) /\ Len(s) \in Nat \ {0} /\ Len(r) \in Nat
      /\ s \o r \in Seq(Char)
  BY ConcatProperties, EmptySeq, LenProperties
<1>2. SubSeq(s \o r, 1, Len(s)) = SubSeq(s, 1, Len(s))
  <2>1. 1 \in 1..Len(s) /\ Len(s) \in 1..Len(s)
    BY <1>1
  <2>2. QED
    BY <2>1, SubSeqOfConcat1
<1>3. s = SubSeq(s \o r, 1, Len(s))
  BY <1>2, SubSeqFull
<1>4. CASE r = <<>>
  <2>1. s \o r = s
    BY <1>4, ConcatEmptySeq
  <2>2. SubSeq(s \o r, Len(s) + 1, Len(s \o r)) = <<>>
    BY <1>1, <2>1, SubSeqEmpty
  <2>3. QED
    BY <1>1, <1>3, <1>4, <2>1, <2>2 DEF Last
<1>5. CASE r # <<>>
  <2>1. Len(r) \in Nat \ {0}
    BY <1>5, EmptySeq
  <2>2. SubSeq(s \o r, Len(s) + 1, Len(s) + Len(r)) = SubSeq(r, 1, Len(r))
    <3>1. Len(s) + 1 \in (Len(s) + 1)..(Len(s) + Len(r))
          /\ Len(s) + Len(r) \in (Len(s) + 1)..(Len(s) + Len(r))
          /\ (Len(s) + 1) - Len(s) = 1 /\ (Len(s) + Len(r)) - Len(s) = Len(r)
      BY <1>1, <2>1
    <3>2. SubSeq(s \o r, Len(s) + 1, Len(s) + Len(r))
          = SubSeq(r, (Len(s) + 1) - Len(s), (Len(s) + Len(r)) - Len(s))
      BY <3>1, SubSeqOfConcat2
    <3>3. QED
      BY <3>1, <3>2
  <2>3. SubSeq(r, 1, Len(r)) = r
    BY SubSeqFull
  <2>4. Last(s \o r, d) = r[Len(r)]
    BY <1>5, LastAppended
  <2>5. QED
    BY <1>1, <1>3, <1>5, <2>2, <2>3, <2>4 DEF Last
<1>6. QED
  BY <1>4, <1>5

TxP == tx_fifo \o Ring(tx_buf, tx_out, tx_in)
RxP == Ring(rx_buf, rx_out, rx_in) \o rx_fifo

LEMMA PendingSeq == TypeOK => TxP \in Seq(Char) /\ RxP \in Seq(Char)
<1> SUFFICES ASSUME TypeOK PROVE TxP \in Seq(Char) /\ RxP \in Seq(Char)
  OBVIOUS
<1>1. Ring(tx_buf, tx_out, tx_in) \in Seq(Char) /\ Ring(rx_buf, rx_out, rx_in) \in Seq(Char)
  BY RingSeq DEF TypeOK
<1>2. QED
  BY <1>1, ConcatProperties DEF TypeOK, TxP, RxP

\* A step of a stream: nothing, n more characters, or n characters less.
Same(p, q, d, e, c, b) == q = p /\ e = d /\ b = c
Puts(p, q, d, e, c, b) == \E n \in 1..(K - 1) :
    /\ q = p \o Numbered((c + K - 1) % K, n) /\ e = d /\ b = (c + n) % K
Takes(p, q, d, e, c, b) == \E n \in 1..(K - 1) :
    /\ n <= Len(p) /\ e = SubSeq(p, 1, n) /\ q = SubSeq(p, n + 1, Len(p)) /\ b = c
Moves(p, q, d, e, c, b) ==
    Same(p, q, d, e, c, b) \/ Puts(p, q, d, e, c, b) \/ Takes(p, q, d, e, c, b)

\* The number of the newest character stays what it should be.
LEMMA MovesLast ==
    ASSUME NEW p \in Seq(Char), NEW q \in Seq(Char), NEW d, NEW e, NEW c \in Char, NEW b,
           Moves(p, q, d, e, c, b), Last(p, d) = (c + K - 1) % K
    PROVE  Last(q, e) = (b + K - 1) % K
<1>1. CASE Same(p, q, d, e, c, b)
  BY <1>1 DEF Same
<1>2. CASE Puts(p, q, d, e, c, b)
  <2>1. PICK n \in 1..(K - 1) :
            q = p \o Numbered((c + K - 1) % K, n) /\ e = d /\ b = (c + n) % K
    BY <1>2 DEF Puts
  <2> DEFINE s == Numbered((c + K - 1) % K, n)
  <2>2. s \in Seq(Char) /\ Len(s) = n /\ s[n] = (((c + K - 1) % K) + n) % K
    <3>1. (c + K - 1) % K \in Nat /\ n \in Nat /\ n > 0
      BY Parameters DEF Char
    <3>2. \A i \in 1..n : (((c + K - 1) % K) + i) % K \in Char
      BY <3>1, CharMod
    <3>3. QED
      BY <3>1, <3>2 DEF Numbered
  <2>3. s # <<>>
    BY <2>2
  <2>4. Last(q, e) = s[Len(s)]
    BY <2>1, <2>2, <2>3, LastAppended
  <2>5. s[n] = (c + n - 1) % K
    BY <2>2, Following, Parameters
  <2>6. QED
    BY <2>1, <2>2, <2>4, <2>5, Following
<1>3. CASE Takes(p, q, d, e, c, b)
  <2>1. PICK n \in 1..(K - 1) :
            n <= Len(p) /\ e = SubSeq(p, 1, n) /\ q = SubSeq(p, n + 1, Len(p)) /\ b = c
    BY <1>3 DEF Takes
  <2>2. Len(p) \in Nat /\ n \in 1..Len(p)
    BY <2>1, LenProperties, Parameters
  <2>3. e \in Seq(Char) /\ Len(e) = n
    <3>1. \A i \in 1..n : p[i] \in Char
      BY <2>2, ElementOfSeq
    <3>2. 1 \in Int /\ n \in Int /\ 1 <= n /\ n - 1 + 1 = n
      BY <2>2
    <3>3. QED
      BY <2>1, <3>1, <3>2, SubSeqProperties
  <2>4. e # <<>>
    BY <2>2, <2>3
  <2>5. p = e \o q
    <3>1. 1 \in 1..(Len(p) + 1) /\ n \in 0..Len(p) /\ Len(p) \in n..Len(p) /\ 1 - 1 = 0
      BY <2>2
    <3>2. SubSeq(p, 1, n) \o SubSeq(p, n + 1, Len(p)) = SubSeq(p, 1, Len(p))
      BY <3>1, ConcatAdjacentSubSeq
    <3>3. QED
      BY <2>1, <3>2, SubSeqFull
  <2>6. Last(q, e) = Last(p, d)
    BY <2>3, <2>4, <2>5, Beginning
  <2>7. QED
    BY <2>1, <2>6
<1>4. QED
  BY <1>1, <1>2, <1>3 DEF Moves

LEMMA TxAbstract ==
    Out!Newest = (char_tx + K - 1) % K /\ Moves(TxP, TxP', heard, heard', char_tx, char_tx')
    => [Out!Next]_<<TxP, heard>>
BY DEF Moves, Same, Puts, Takes, Numbered, TxP, Out!Next, Out!Accept, Out!Deliver

LEMMA RxAbstract ==
    In!Newest = (char_rx + K - 1) % K /\ Moves(RxP, RxP', got, got', char_rx, char_rx')
    => [In!Next]_<<RxP, got>>
BY DEF Moves, Same, Puts, Takes, Numbered, RxP, In!Next, In!Accept, In!Deliver

-----------------------------------------------------------------------------
(* The steps of the streams.                                               *)

LEMMA NotFull ==
    ASSUME NEW in \in Index, NEW out \in Index, Step(in, 1) # out
    PROVE  ((in - out) % BUF_LEN) + 1 < BUF_LEN
<1>1. (in - out) % BUF_LEN = IF in >= out THEN in - out ELSE in - out + BUF_LEN
  BY Used
<1>2. Step(in, 1) = IF in = BUF_LEN - 1 THEN 0 ELSE in + 1
  BY StepOne
<1>3. QED
  BY <1>1, <1>2, Parameters DEF Index

LEMMA PartOne == \A buf, i : i \in Index => Part(buf, i, 1) = <<buf[i]>>
BY DEF Part, Index

\* Steps that leave both streams alone.
Quiet == UNCHANGED <<tx_buf, tx_in, tx_out, rx_buf, rx_in, rx_out, tx_fifo, rx_fifo,
                     heard, got, char_tx, char_rx>>

LEMMA Streams ==
    [Next]_vars => \/ Quiet \/ HostReads \/ HostTypes \/ IsrRx \/ IsrTx
                   \/ WriteFill \/ WritePublish \/ ReadRelease
<1> SUFFICES ASSUME [Next]_vars
             PROVE  \/ Quiet \/ HostReads \/ HostTypes \/ IsrRx \/ IsrTx
                    \/ WriteFill \/ WritePublish \/ ReadRelease
  OBVIOUS
<1> USE DEF Quiet, tx, rx, timer, prog, fifos, host
<1>1. CASE UNCHANGED vars
  BY <1>1 DEF vars
<1>2. ASSUME NEW first, NEW count, NEW nonblock, Call(first, count, nonblock) PROVE Quiet
  BY <1>2 DEF Call
<1>3. ASSUME NEW arg, TIOCSTIMEOUT(arg) PROVE Quiet
  BY <1>3 DEF TIOCSTIMEOUT
<1>4. ASSUME NEW p, NEW c, Goto(p, c) PROVE Quiet
  BY <1>4 DEF Goto
<1>5. Return => Quiet
  BY DEF Return
<1>6. CASE WriteRoom \/ ReadAvail \/ ReadTake \/ WriteSpin \/ WriteCheck \/ ReadSpin \/ ReadCheck
           \/ Close
  BY <1>4, <1>5, <1>6 DEF WriteRoom, ReadAvail, ReadTake, WriteSpin, WriteCheck, ReadSpin,
     ReadCheck, Close
<1>7. CASE WriteKick \/ ReadDone
  BY <1>7 DEF WriteKick, ReadDone
<1>8. CASE Interrupt \/ IsrTop \/ IsrRxFull \/ IsrTxDone \/ Timeout
  BY <1>8 DEF Interrupt, IsrTop, IsrRxFull, IsrTxDone, Timeout
<1>9. CASE HostPauses \/ HostFlips
  BY <1>9 DEF HostPauses, HostFlips
<1>10. QED
  BY <1>1, <1>2, <1>3, <1>6, <1>7, <1>8, <1>9 DEF Next, Thread, Write, Read, Isr

\* On the way out: the interrupt routine moves a character from the buffer to the device,
\* a write puts characters in, the host takes one.
LEMMA TxMoves ==
    ASSUME TypeOK, Placed, StreamInv, [Next]_vars
    PROVE  Moves(TxP, TxP', heard, heard', char_tx, char_tx')
<1> DEFINE f == tx_fifo
           r == Ring(tx_buf, tx_out, tx_in)
           Goal == Moves(TxP, TxP', heard, heard', char_tx, char_tx')
<1>1. /\ tx_in \in Index /\ tx_out \in Index /\ tx_buf \in [Index -> Char]
      /\ f \in Seq(Char) /\ r \in Seq(Char) /\ char_tx \in Char
  BY RingSeq DEF TypeOK
<1>2. CASE UNCHANGED <<TxP, heard, char_tx>>
  BY <1>2 DEF Moves, Same
<1>3. CASE UNCHANGED <<tx_buf, tx_in, tx_out, tx_fifo, heard, char_tx>>
  BY <1>2, <1>3 DEF TxP
<1>4. CASE HostReads
  <2> DEFINE s == <<Head(f)>>
             t == Tail(f)
  <2>1. f # <<>> /\ heard' = s /\ tx_fifo' = t
        /\ UNCHANGED <<tx_buf, tx_in, tx_out, char_tx>>
    BY <1>4 DEF HostReads, tx, prog
  <2>2. s \in Seq(Char) /\ Len(s) = 1 /\ s # <<>> /\ t \in Seq(Char)
    BY <1>1, <2>1, HeadTailProperties
  <2>3. f = s \o t
    BY <1>1, <2>1
  <2> HIDE DEF s, t, f, r
  <2>4. TxP = s \o (t \o r) /\ t \o r \in Seq(Char)
    BY <1>1, <2>2, <2>3, ConcatAssociative, ConcatProperties DEF TxP, f, r
  <2>5. TxP' = t \o r
    BY <2>1 DEF TxP, r
  <2>6. Len(s) <= Len(TxP) /\ s = SubSeq(TxP, 1, Len(s))
        /\ TxP' = SubSeq(TxP, Len(s) + 1, Len(TxP))
    BY <2>2, <2>4, <2>5, Beginning
  <2>7. 1 \in 1..(K - 1)
    BY KMod, Parameters
  <2>8. Takes(TxP, TxP', heard, heard', char_tx, char_tx')
    BY <2>1, <2>2, <2>6, <2>7 DEF Takes
  <2>9. QED
    BY <2>8 DEF Moves
<1>5. CASE IsrTx
  <2> DEFINE c == <<tx_buf[tx_out]>>
             q == Ring(tx_buf, Step(tx_out, 1), tx_in)
  <2>1. /\ tx_out # tx_in /\ tx_out' = Step(tx_out, 1)
        /\ UNCHANGED <<tx_buf, tx_in, heard, char_tx>>
    BY <1>5 DEF IsrTx, tx, prog, host
  <2>2. Len(f) < FIFO
    <3>1. isr.space \in Nat /\ Len(f) \in Nat /\ isr.space > 0 /\ Len(f) + isr.space <= FIFO
      BY <1>1, <1>5, Parameters DEF IsrTx, StreamInv, SpaceLeft, TypeOK
    <3>2. QED
      BY <3>1, Parameters
  <2>3. tx_fifo' = Append(f, tx_buf[tx_out])
    BY <1>5, <2>2 DEF IsrTx
  <2>4. tx_buf[tx_out] \in Char /\ c \in Seq(Char)
    BY <1>1
  <2>5. tx_fifo' = f \o c
    BY <1>1, <2>3, <2>4, AppendIsConcat
  <2>6. Step(tx_out, 1) \in Index
    BY <1>1, StepIndex, Parameters DEF Index
  <2>7. q \in Seq(Char)
    BY <1>1, <2>6, RingSeq
  <2>8. r = c \o q
    <3>1. tx_out + 1 <= BUF_LEN /\ 1 <= (tx_in - tx_out) % BUF_LEN
      <4>1. (tx_in - tx_out) % BUF_LEN
            = IF tx_in >= tx_out THEN tx_in - tx_out ELSE tx_in - tx_out + BUF_LEN
        BY <1>1, Used
      <4>2. QED
        BY <1>1, <2>1, <4>1, Parameters DEF Index
    <3>2. r = Part(tx_buf, tx_out, 1) \o q
      BY <1>1, <3>1, RingDrop
    <3>3. QED
      BY <1>1, <3>2, PartOne
  <2> HIDE DEF c, q, f, r
  <2>9. TxP = f \o (c \o q)
    BY <2>8 DEF TxP, f, r
  <2>10. TxP' = (f \o c) \o q
    BY <2>1, <2>5 DEF TxP, q
  <2>11. TxP' = TxP
    BY <1>1, <2>4, <2>7, <2>9, <2>10, ConcatAssociative
  <2>12. QED
    BY <1>2, <2>1, <2>11
<1>6. CASE WriteFill
  <2>1. /\ pc = "w_fill" /\ UNCHANGED <<tx_in, tx_out, tx_fifo, heard, char_tx>>
        /\ tx_buf' = [i \in Index |-> IF i \in tx_in..(tx_in + call.n - 1)
                                      THEN (char_tx + i - tx_in) % K ELSE tx_buf[i]]
    BY <1>6 DEF WriteFill, At, fifos, host
  <2>2. call.n \in Nat /\ tx_in + call.n <= BUF_LEN
        /\ ((tx_in - tx_out) % BUF_LEN) + call.n < BUF_LEN
    BY <2>1 DEF Placed, TypeOK, Calls, Index
  <2>3. tx_buf' \in [Index -> Char]
    <3>1. ASSUME NEW i \in Index, i \in tx_in..(tx_in + call.n - 1)
          PROVE  (char_tx + i - tx_in) % K \in Char
      <4>1. char_tx + i - tx_in \in Nat
        BY <1>1, <2>2, <3>1 DEF Index, Char
      <4>2. QED
        BY <4>1, CharMod
    <3>2. QED
      BY <1>1, <2>1, <3>1
  <2>4. \A i \in Index : i \notin tx_in..(tx_in + call.n - 1) => tx_buf'[i] = tx_buf[i]
    BY <2>1
  <2>5. Ring(tx_buf', tx_out, tx_in) = r
    BY <1>1, <2>2, <2>3, <2>4, RingSame
  <2>6. TxP' = TxP
    BY <2>1, <2>5 DEF TxP
  <2>7. QED
    BY <1>2, <2>1, <2>6
<1>7. CASE WritePublish
  <2> DEFINE n == call.n
             s == Numbered((char_tx + K - 1) % K, n)
  <2>1. /\ pc = "w_publish" /\ tx_in' = Step(tx_in, n) /\ char_tx' = (char_tx + n) % K
        /\ UNCHANGED <<tx_buf, tx_out, tx_fifo, heard>>
    BY <1>7 DEF WritePublish, At, fifos, host
  <2>2. n \in 1..(K - 1) /\ n \in Nat
    <3>1. n \in Index /\ n > 0
      BY <2>1 DEF TypeOK, Calls, StreamInv, Moving
    <3>2. QED
      BY <3>1, KMod, Parameters DEF Index
  <2>3. tx_in + n <= BUF_LEN /\ ((tx_in - tx_out) % BUF_LEN) + n < BUF_LEN
    BY <2>1 DEF Placed
  <2>4. Part(tx_buf, tx_in, n) = s
    <3>1. ASSUME NEW j \in 1..n
          PROVE  tx_buf[tx_in + j - 1] = (((char_tx + K - 1) % K) + j) % K
      <4>1. tx_in + j - 1 \in tx_in..(tx_in + n - 1)
            /\ char_tx + (tx_in + j - 1) - tx_in = char_tx + j - 1
        BY <1>1, <2>2 DEF Index, Char
      <4>2. tx_buf[tx_in + j - 1] = (char_tx + (tx_in + j - 1) - tx_in) % K
        BY <2>1, <4>1 DEF StreamInv, Filled
      <4>3. (((char_tx + K - 1) % K) + j) % K = (char_tx + j - 1) % K
        BY <1>1, <2>2, Following
      <4>4. QED
        BY <4>1, <4>2, <4>3
    <3>2. QED
      BY <3>1 DEF Part, Numbered
  <2>5. Ring(tx_buf, tx_out, Step(tx_in, n)) = r \o Part(tx_buf, tx_in, n)
    BY <1>1, <2>2, <2>3, RingPush
  <2>6. s \in Seq(Char)
    BY <1>1, <2>2, <2>3, <2>4, PartSeq
  <2> HIDE DEF n, s, f, r
  <2>7. TxP' = f \o (r \o s) /\ TxP = f \o r
    BY <2>1, <2>4, <2>5 DEF TxP, f, r
  <2>8. TxP' = TxP \o s
    BY <1>1, <2>6, <2>7, ConcatAssociative
  <2>9. Puts(TxP, TxP', heard, heard', char_tx, char_tx')
    BY <2>1, <2>2, <2>8 DEF Puts, s
  <2>10. QED
    BY <2>9 DEF Moves
<1>8. CASE Quiet \/ HostTypes \/ IsrRx \/ ReadRelease
  BY <1>3, <1>8 DEF Quiet, HostTypes, IsrRx, ReadRelease, tx, prog, fifos, host
<1>9. QED
  BY <1>4, <1>5, <1>6, <1>7, <1>8, Streams

\* On the way in: the user types a character, the interrupt routine moves it from the
\* device to the buffer, a read takes characters.
LEMMA RxMoves ==
    ASSUME TypeOK, Placed, StreamInv, [Next]_vars
    PROVE  Moves(RxP, RxP', got, got', char_rx, char_rx')
<1> DEFINE f == rx_fifo
           r == Ring(rx_buf, rx_out, rx_in)
<1>1. /\ rx_in \in Index /\ rx_out \in Index /\ rx_buf \in [Index -> Char]
      /\ f \in Seq(Char) /\ r \in Seq(Char) /\ char_rx \in Char
  BY RingSeq DEF TypeOK
<1>2. CASE UNCHANGED <<RxP, got, char_rx>>
  BY <1>2 DEF Moves, Same
<1>3. CASE UNCHANGED <<rx_buf, rx_in, rx_out, rx_fifo, got, char_rx>>
  BY <1>2, <1>3 DEF RxP
<1>4. CASE HostTypes
  <2> DEFINE s == <<char_rx>>
  <2>1. /\ rx_fifo' = Append(f, char_rx) /\ char_rx' = (char_rx + 1) % K
        /\ UNCHANGED <<rx_buf, rx_in, rx_out, got>>
    BY <1>4 DEF HostTypes, rx, prog
  <2>2. rx_fifo' = f \o s /\ s \in Seq(Char)
    BY <1>1, <2>1, AppendIsConcat
  <2>3. 1 \in 1..(K - 1)
    BY KMod, Parameters
  <2>4. (((char_rx + K - 1) % K) + 1) % K = char_rx
    <3>1. 1 \in 1..1 /\ char_rx + 1 - 1 = char_rx /\ char_rx % K = char_rx
      <4>1. char_rx \in 0..(2 * K - 1) /\ char_rx < K
        BY <1>1, Parameters DEF Char
      <4>2. QED
        BY <4>1, KMod
    <3>2. (((char_rx + K - 1) % K) + 1) % K = (char_rx + 1 - 1) % K
      BY <1>1, <2>3, <3>1, Following
    <3>3. QED
      BY <3>1, <3>2
  <2>5. Numbered((char_rx + K - 1) % K, 1) = s
    BY <2>4 DEF Numbered
  <2> HIDE DEF s, f, r
  <2>6. RxP' = r \o (f \o s) /\ RxP = r \o f
    BY <2>1, <2>2 DEF RxP, f, r
  <2>7. RxP' = RxP \o s
    BY <1>1, <2>2, <2>6, ConcatAssociative
  <2>8. Puts(RxP, RxP', got, got', char_rx, char_rx')
    BY <2>1, <2>3, <2>5, <2>7 DEF Puts
  <2>9. QED
    BY <2>8 DEF Moves
<1>5. CASE IsrRx
  <2>1. ~RxFull /\ UNCHANGED <<rx_out, got, char_rx>>
    BY <1>5 DEF IsrRx, prog, host
  <2>2. CASE rx_fifo = <<>>
    BY <1>3, <1>5, <2>1, <2>2 DEF IsrRx, rx
  <2>3. CASE rx_fifo # <<>>
    <3> DEFINE s == <<Head(f)>>
               t == Tail(f)
    <3>1. /\ rx_buf' = [rx_buf EXCEPT ![rx_in] = Head(f)] /\ rx_in' = Step(rx_in, 1)
          /\ rx_fifo' = t
      BY <1>5, <2>3 DEF IsrRx
    <3>2. Head(f) \in Char /\ t \in Seq(Char) /\ s \in Seq(Char)
      BY <1>1, <2>3, HeadTailProperties
    <3>3. f = s \o t
      BY <1>1, <2>3
    <3>4. /\ rx_in + 1 <= BUF_LEN /\ ((rx_in - rx_out) % BUF_LEN) + 1 < BUF_LEN
          /\ rx_buf' \in [Index -> Char]
          /\ \A i \in Index : i \notin rx_in..(rx_in + 1 - 1) => rx_buf'[i] = rx_buf[i]
      <4>1. ((rx_in - rx_out) % BUF_LEN) + 1 < BUF_LEN
        BY <1>1, <2>1, NotFull DEF RxFull
      <4>2. rx_in + 1 <= BUF_LEN /\ rx_in \in rx_in..(rx_in + 1 - 1)
        BY <1>1, Parameters DEF Index
      <4>3. rx_buf' \in [Index -> Char]
        BY <1>1, <3>1, <3>2
      <4>4. \A i \in Index : i # rx_in => rx_buf'[i] = rx_buf[i]
        BY <1>1, <3>1
      <4>5. QED
        BY <4>1, <4>2, <4>3, <4>4
    <3>5. Ring(rx_buf', rx_out, rx_in) = r
      BY <1>1, <3>4, RingSame
    <3>6. Ring(rx_buf', rx_out, Step(rx_in, 1))
          = Ring(rx_buf', rx_out, rx_in) \o Part(rx_buf', rx_in, 1)
      BY <1>1, <3>4, RingPush
    <3>7. Part(rx_buf', rx_in, 1) = s
      <4>1. rx_buf'[rx_in] = Head(f)
        BY <1>1, <3>1
      <4>2. QED
        BY <1>1, <4>1, PartOne
    <3>8. RxP' = (r \o s) \o t
      BY <2>1, <3>1, <3>5, <3>6, <3>7 DEF RxP
    <3>9. RxP = r \o (s \o t)
      BY <3>3 DEF RxP
    <3> HIDE DEF s, t, f, r
    <3>10. RxP' = RxP
      BY <1>1, <3>2, <3>8, <3>9, ConcatAssociative
    <3>11. QED
      BY <1>2, <2>1, <3>10
  <2>4. QED
    BY <2>2, <2>3
<1>6. CASE ReadRelease
  <2> DEFINE n == call.n
             s == Part(rx_buf, rx_out, n)
             q == Ring(rx_buf, Step(rx_out, n), rx_in)
  <2>1. /\ pc = "r_release" /\ rx_out' = Step(rx_out, n) /\ got' = call.copy
        /\ UNCHANGED <<rx_buf, rx_in, rx_fifo, char_rx>>
    BY <1>6 DEF ReadRelease, At, rx, fifos, host
  <2>2. n \in 1..(K - 1) /\ n \in Nat
    <3>1. n \in Index /\ n > 0
      BY <2>1 DEF TypeOK, Calls, StreamInv, Moving
    <3>2. QED
      BY <3>1, KMod, Parameters DEF Index
  <2>3. rx_out + n <= BUF_LEN /\ n <= (rx_in - rx_out) % BUF_LEN
    BY <2>1 DEF Placed
  <2>4. got' = s
    BY <2>1 DEF StreamInv, Copied, Part
  <2>5. s \in Seq(Char) /\ Len(s) = n
    BY <1>1, <2>2, <2>3, PartSeq
  <2>6. Step(rx_out, n) \in Index
    <3>1. rx_out \in Nat
      BY <1>1 DEF Index
    <3>2. QED
      BY <2>2, <3>1, StepIndex
  <2>7. q \in Seq(Char)
    BY <1>1, <2>6, RingSeq
  <2>8. r = s \o q
    BY <1>1, <2>2, <2>3, RingDrop
  <2>9. s # <<>>
    BY <2>2, <2>5
  <2> HIDE DEF n, s, q, f, r
  <2>10. RxP = (s \o q) \o f /\ RxP' = q \o f
    BY <2>1, <2>8 DEF RxP, f, r, q
  <2>11. RxP = s \o (q \o f) /\ q \o f \in Seq(Char)
    <3>1. s \in Seq(Char) /\ q \in Seq(Char) /\ f \in Seq(Char)
      BY <1>1, <2>5, <2>7
    <3>2. (s \o q) \o f = s \o (q \o f)
      BY <3>1, ConcatAssociative
    <3>3. QED
      BY <2>10, <3>1, <3>2, ConcatProperties
  <2>12. Len(s) <= Len(RxP) /\ s = SubSeq(RxP, 1, Len(s))
         /\ RxP' = SubSeq(RxP, Len(s) + 1, Len(RxP))
    <3> DEFINE w == q \o f
    <3>1. w \in Seq(Char) /\ RxP = s \o w /\ RxP' = w
      BY <2>10, <2>11
    <3> HIDE DEF w
    <3>2. Len(s) <= Len(s \o w) /\ s = SubSeq(s \o w, 1, Len(s))
          /\ w = SubSeq(s \o w, Len(s) + 1, Len(s \o w))
      BY <2>5, <2>9, <3>1, Beginning
    <3>3. QED
      BY <3>1, <3>2
  <2>13. Takes(RxP, RxP', got, got', char_rx, char_rx')
    BY <2>1, <2>2, <2>4, <2>5, <2>12 DEF Takes
  <2>14. QED
    BY <2>13 DEF Moves
<1>7. CASE Quiet \/ HostReads \/ IsrTx \/ WriteFill \/ WritePublish
  BY <1>3, <1>7 DEF Quiet, HostReads, IsrTx, WriteFill, WritePublish, rx, prog, fifos, host
<1>8. QED
  BY <1>4, <1>5, <1>6, <1>7, Streams

\* A copy: it copies something, and what was put down, or taken, stays as it is until
\* it is published, or released.
Copies == Moving /\ Filled /\ Copied

LEMMA CopiesStep ==
    ASSUME TypeOK, Placed, Copies, [Next]_vars
    PROVE  Copies'
<1> USE DEF Copies, Moving, Filled, Copied
<1>1. CASE UNCHANGED <<tx_buf, tx_in, char_tx, rx_buf, rx_out, pc, call>>
  BY <1>1
<1>2. CASE pc' \notin {"w_fill", "w_publish", "r_take", "r_release"}
  BY <1>2
<1>3. CASE Elsewhere \/ IsrRxFull \/ IsrTx \/ IsrTxDone \/ Timeout
  BY <1>1, <1>3 DEF Elsewhere, Interrupt, IsrTop, HostReads, HostTypes, HostPauses, HostFlips,
     TIOCSTIMEOUT, IsrRxFull, IsrTx, IsrTxDone, Timeout, vars, tx, rx, prog
<1>4. CASE IsrRx
  <2>1. ~RxFull /\ UNCHANGED <<tx_buf, tx_in, char_tx, rx_out, pc, call>>
        /\ (UNCHANGED rx_buf \/ rx_buf' = [rx_buf EXCEPT ![rx_in] = Head(rx_fifo)])
    BY <1>4 DEF IsrRx, tx, rx, prog
  <2>2. ASSUME pc = "r_release", NEW i \in 1..call.n, rx_buf' # rx_buf
        PROVE  rx_buf'[rx_out + i - 1] = rx_buf[rx_out + i - 1]
    <3>1. /\ rx_in \in Index /\ rx_out \in Index /\ call.n \in Nat /\ rx_buf \in [Index -> Char]
          /\ rx_out + call.n <= BUF_LEN /\ call.n <= (rx_in - rx_out) % BUF_LEN
      BY <2>2 DEF TypeOK, Calls, Placed, Index
    <3>2. (rx_in - rx_out) % BUF_LEN
          = IF rx_in >= rx_out THEN rx_in - rx_out ELSE rx_in - rx_out + BUF_LEN
      BY <3>1, Used
    <3>3. rx_out + i - 1 \in Index /\ rx_out + i - 1 # rx_in
      BY <3>1, <3>2, Parameters DEF Index
    <3>4. QED
      BY <2>1, <2>2, <3>1, <3>3
  <2>3. Moving' /\ Filled'
    BY <2>1
  <2>4. CASE pc = "r_release" /\ rx_buf' # rx_buf
    <3>1. [i \in 1..call.n |-> rx_buf'[rx_out + i - 1]]
          = [i \in 1..call.n |-> rx_buf[rx_out + i - 1]]
      BY <2>2, <2>4
    <3>2. QED
      BY <2>1, <2>3, <2>4, <3>1
  <2>5. QED
    BY <2>1, <2>3, <2>4
<1>5. ASSUME NEW first \in {"w_copy", "r_copy", "c_wait"}, NEW count, NEW nonblock,
             Call(first, count, nonblock)
      PROVE  Copies'
  BY <1>2, <1>5 DEF Call
<1>6. CASE WriteRoom
  <2> DEFINE n == Least(Room(tx_in, tx_out), call.count)
  <2>1. call \in Calls /\ call.count \in Nat /\ n \in Nat
    <3>1. call \in Calls /\ call.count \in Nat /\ Room(tx_in, tx_out) \in Index
      BY RoomFits DEF TypeOK, Calls
    <3>2. QED
      BY <3>1 DEF Least, Index
  <2>2. pc' = "w_kick" \/ (pc' = "w_fill" /\ n # 0 /\ call' = [call EXCEPT !.n = n])
    BY <1>6 DEF WriteRoom, Goto
  <2> HIDE DEF n
  <2>3. QED
    BY <1>2, <2>1, <2>2 DEF Calls
<1>7. CASE WriteFill
  <2>1. /\ pc = "w_fill" /\ pc' = "w_publish" /\ UNCHANGED <<tx_in, char_tx, call>>
        /\ tx_buf' = [i \in Index |-> IF i \in tx_in..(tx_in + call.n - 1)
                                      THEN (char_tx + i - tx_in) % K ELSE tx_buf[i]]
    BY <1>7 DEF WriteFill, At
  <2>2. \A i \in tx_in..(tx_in + call.n - 1) : i \in Index
    <3>1. tx_in \in Nat /\ call.n \in Nat /\ tx_in + call.n <= BUF_LEN
      BY <2>1 DEF Placed, TypeOK, Calls, Index
    <3>2. QED
      BY <3>1, Parameters DEF Index
  <2>3. \A i \in tx_in..(tx_in + call.n - 1) : tx_buf'[i] = (char_tx + i - tx_in) % K
    BY <2>1, <2>2
  <2>4. QED
    BY <2>1, <2>3
<1>8. CASE ReadAvail
  <2> DEFINE n == Least(Avail(rx_in, rx_out), call.count)
  <2>1. call \in Calls /\ n \in Nat
    <3>1. call \in Calls /\ call.count \in Nat /\ Avail(rx_in, rx_out) \in Index
      BY AvailFits DEF TypeOK, Calls
    <3>2. QED
      BY <3>1 DEF Least, Index
  <2>2. /\ call' = [call EXCEPT !.snap = IF n = 0 THEN rx_in ELSE @, !.n = n]
        /\ pc' = CASE n > 0 -> "r_take"
                   [] n = 0 /\ (call.moved \/ call.nonblock \/ call.count = 0) -> "r_done"
                   [] OTHER -> "r_spin"
    BY <1>8 DEF ReadAvail, Goto
  <2> HIDE DEF n
  <2>3. pc' \in {"r_done", "r_spin"} \/ (pc' = "r_take" /\ n > 0 /\ call'.n = n)
    <3>1. call'.n = n
      BY <2>1, <2>2 DEF Calls
    <3>2. n > 0 \/ n = 0
      BY <2>1
    <3>3. QED
      BY <2>2, <3>1, <3>2
  <2>4. QED
    BY <1>2, <2>3
<1>9. CASE ReadTake
  <2>1. /\ pc = "r_take" /\ pc' = "r_release" /\ UNCHANGED <<rx_buf, rx_out>>
        /\ call' = [call EXCEPT !.copy = [i \in 1..call.n |-> rx_buf[rx_out + i - 1]]]
    BY <1>9 DEF ReadTake, Goto, At, rx
  <2>2. call'.n = call.n /\ call'.copy = [i \in 1..call.n |-> rx_buf[rx_out + i - 1]]
    BY <2>1 DEF TypeOK, Calls
  <2>3. QED
    BY <2>1, <2>2
<1>10. CASE WritePublish \/ ReadRelease
  BY <1>2, <1>10 DEF WritePublish, ReadRelease
<1>11. CASE WriteKick \/ WriteSpin \/ WriteCheck \/ ReadSpin \/ ReadCheck \/ ReadDone \/ Close
  BY <1>2, <1>11 DEF WriteKick, WriteSpin, WriteCheck, ReadSpin, ReadCheck, ReadDone, Close,
     Goto, Return, Finish
<1>12. QED
  BY <1>3, <1>4, <1>5, <1>6, <1>7, <1>8, <1>9, <1>10, <1>11
  DEF Next, Thread, Write, Read, Isr, Elsewhere

\* The interrupt routine goes by a space that it found; only it uses the space up.
LEMMA SpaceStep ==
    ASSUME TypeOK, SpaceLeft, [Next]_vars
    PROVE  SpaceLeft'
<1> USE Parameters DEF SpaceLeft
<1>0. Len(tx_fifo) \in Nat /\ isr.space \in 0..FIFO /\ tx_fifo \in Seq(Char)
      /\ isr \in [at : {"idle", "top", "rx", "tx"}, wi : BOOLEAN, space : 0..FIFO,
                  avail : BOOLEAN]
      /\ Len(tx_fifo) <= FIFO
  BY DEF TypeOK
<1>1. CASE UNCHANGED <<tx_fifo, isr>>
  BY <1>1
<1>2. CASE HostReads
  <2>1. isr' = isr /\ Len(tx_fifo') = Len(tx_fifo) - 1
    BY <1>0, <1>2 DEF HostReads
  <2>2. QED
    BY <1>0, <2>1
<1>3. CASE Interrupt \/ IsrRxFull \/ IsrTxDone \/ IsrRx
  <2>1. tx_fifo' = tx_fifo /\ isr'.space = isr.space
    BY <1>0, <1>3 DEF Interrupt, IsrRxFull, IsrTxDone, IsrRx, fifos
  <2>2. QED
    BY <2>1
<1>4. CASE IsrTop
  <2>1. tx_fifo' = tx_fifo /\ isr'.space \in {0, FIFO - Len(tx_fifo)}
    BY <1>4 DEF IsrTop, NoIsr, Space, fifos
  <2>2. QED
    BY <1>0, <2>1
<1>5. CASE IsrTx
  <2>1. isr'.space = isr.space - 1 /\ isr.space > 0
    BY <1>0, <1>5 DEF IsrTx
  <2>2. Len(tx_fifo') \in {Len(tx_fifo), Len(tx_fifo) + 1}
    BY <1>0, <1>5 DEF IsrTx
  <2>3. QED
    BY <1>0, <2>1, <2>2
<1>6. CASE Timeout \/ HostTypes \/ HostPauses \/ HostFlips
           \/ (\E arg \in Timeouts : TIOCSTIMEOUT(arg)) \/ UNCHANGED vars
  BY <1>1, <1>6 DEF Timeout, HostTypes, HostPauses, HostFlips, TIOCSTIMEOUT, vars, fifos
<1>7. ASSUME NEW first, NEW count, NEW nonblock, Call(first, count, nonblock)
      PROVE  SpaceLeft'
  BY <1>1, <1>7 DEF Call, fifos
<1>8. CASE Thread
  BY <1>1, <1>8 DEF Thread, Write, WriteRoom, WriteFill, WritePublish, WriteKick, WriteSpin,
     WriteCheck, Read, ReadAvail, ReadTake, ReadRelease, ReadSpin, ReadCheck, ReadDone, Close,
     Goto, Return, fifos
<1>9. QED
  BY <1>2, <1>3, <1>4, <1>5, <1>6, <1>7, <1>8 DEF Next, Isr

LEMMA Newest ==
    /\ Out!Newest = Last(TxP, heard)  /\ In!Newest = Last(RxP, got)
BY DEF Out!Newest, In!Newest, Last, TxP, RxP

LEMMA NewestLater ==
    /\ Out!Newest' = Last(TxP', heard')  /\ In!Newest' = Last(RxP', got')
BY DEF Out!Newest, In!Newest, Last, TxP, RxP

LEMMA StreamInit == Init => Placed /\ StreamInv /\ Out!Init /\ In!Init
<1> SUFFICES ASSUME Init PROVE Placed /\ StreamInv /\ Out!Init /\ In!Init
  OBVIOUS
<1>1. Placed /\ Copies
  BY DEF Init, Placed, Copies, Moving, Filled, Copied
<1>2. SpaceLeft
  BY Parameters DEF Init, SpaceLeft, NoIsr
<1>3. TxP = <<>> /\ RxP = <<>>
  <2>1. 0 \in Index /\ (0 - 0) % BUF_LEN = 0
    BY ZeroIndex, Used
  <2>2. Ring(tx_buf, tx_out, tx_in) = <<>> /\ Ring(rx_buf, rx_out, rx_in) = <<>>
    BY <2>1 DEF Init, Ring
  <2>3. <<>> \o <<>> = <<>>
    BY EmptySeq, ConcatEmptySeq
  <2>4. QED
    BY <2>2, <2>3 DEF Init, TxP, RxP
<1>4. heard = <<K - 1>> /\ got = <<K - 1>> /\ char_tx = 0 /\ char_rx = 0
  BY DEF Init
<1>5. Out!Init /\ In!Init
  BY <1>3, <1>4 DEF Out!Init, In!Init, TxP, RxP
<1>6. Last(<<>>, <<K - 1>>) = (0 + K - 1) % K
  <2>1. (0 + K - 1) % K = K - 1
    BY KMod, Parameters
  <2>2. QED
    BY <2>1 DEF Last
<1>7. TxNewest /\ RxNewest
  BY <1>3, <1>4, <1>6, Newest DEF TxNewest, RxNewest
<1>8. QED
  BY <1>1, <1>2, <1>5, <1>7 DEF StreamInv, Copies

LEMMA StreamStep ==
    ASSUME TypeOK, TypeOK', Placed, StreamInv, [Next]_vars
    PROVE  StreamInv' /\ [Out!Next]_<<TxP, heard>> /\ [In!Next]_<<RxP, got>>
<1>1. Copies' /\ SpaceLeft'
  BY CopiesStep, SpaceStep DEF StreamInv, Copies
<1>2. /\ Moves(TxP, TxP', heard, heard', char_tx, char_tx')
      /\ Moves(RxP, RxP', got, got', char_rx, char_rx')
  BY TxMoves, RxMoves
<1>3. /\ TxP \in Seq(Char) /\ RxP \in Seq(Char) /\ TxP' \in Seq(Char) /\ RxP' \in Seq(Char)
      /\ char_tx \in Char /\ char_rx \in Char
  <2>1. TxP' \in Seq(Char) /\ RxP' \in Seq(Char)
    <3>1. /\ Ring(tx_buf', tx_out', tx_in') \in Seq(Char) /\ tx_fifo' \in Seq(Char)
          /\ Ring(rx_buf', rx_out', rx_in') \in Seq(Char) /\ rx_fifo' \in Seq(Char)
      BY RingSeq DEF TypeOK
    <3>2. QED
      BY <3>1, ConcatProperties DEF TxP, RxP
  <2>2. QED
    BY <2>1, PendingSeq DEF TypeOK
<1>4. TxNewest' /\ RxNewest'
  <2>1. Last(TxP, heard) = (char_tx + K - 1) % K /\ Last(RxP, got) = (char_rx + K - 1) % K
    BY Newest DEF StreamInv, TxNewest, RxNewest
  <2>2. Last(TxP', heard') = (char_tx' + K - 1) % K
    BY <1>2, <1>3, <2>1, MovesLast
  <2>3. Last(RxP', got') = (char_rx' + K - 1) % K
    BY <1>2, <1>3, <2>1, MovesLast
  <2>4. QED
    BY <2>2, <2>3, NewestLater DEF TxNewest, RxNewest
<1>5. [Out!Next]_<<TxP, heard>> /\ [In!Next]_<<RxP, got>>
  BY <1>2, TxAbstract, RxAbstract DEF StreamInv, TxNewest, RxNewest
<1>6. QED
  BY <1>1, <1>4, <1>5 DEF StreamInv, Copies

LEMMA StreamsAlways == Spec => [](TypeOK /\ Placed /\ StreamInv)
<1>1. Init => TypeOK /\ Placed /\ StreamInv
  BY InitType, StreamInit
<1>2. TypeOK /\ Placed /\ StreamInv /\ [Next]_vars => (TypeOK /\ Placed /\ StreamInv)'
  BY TypeStep, PlacedStep, StreamStep
<1>3. QED
  BY <1>1, <1>2, PTL DEF Spec

\* The host hears every character that was written, once and in order, for buffers and
\* FIFOs of every length and any cut of the interrupt routine into a write.
THEOREM WritesArriveAlways == Spec => WritesArrive
<1>1. Init => Out!Init
  BY StreamInit
<1>2. /\ TypeOK /\ Placed /\ StreamInv /\ (TypeOK /\ Placed /\ StreamInv)' /\ [Next]_vars
      => [Out!Next]_<<TxP, heard>>
  BY StreamStep
<1>3. QED
  BY <1>1, <1>2, StreamsAlways, PTL DEF Spec, WritesArrive, Out!Spec, TxP

\* The program reads every character that was typed, once and in order, for buffers and
\* FIFOs of every length: a full buffer loses none.
THEOREM ReadsArriveAlways == Spec => ReadsArrive
<1>1. Init => In!Init
  BY StreamInit
<1>2. /\ TypeOK /\ Placed /\ StreamInv /\ (TypeOK /\ Placed /\ StreamInv)' /\ [Next]_vars
      => [In!Next]_<<RxP, got>>
  BY StreamStep
<1>3. QED
  BY <1>1, <1>2, StreamsAlways, PTL DEF Spec, ReadsArrive, In!Spec, RxP
=============================================================================
