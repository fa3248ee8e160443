------------------------------ MODULE JtagUart ------------------------------
(***************************************************************************)
(* The interrupt-driven driver of the JTAG UART, through which the Nios II *)
(* program prints.  Two circular buffers without locks lie between the     *)
(* calls of the program (write, read, close, ioctl) and the interrupt      *)
(* routine, which moves characters to and from the FIFOs of the device.    *)
(*                                                                         *)
(* The program is a single thread (the BSP has no operating system), so a  *)
(* call runs only when no interrupt routine does; the device and the host  *)
(* run all the time.  The BSP is compiled with -O0 (soft_bsp/Makefile:141): *)
(* memory accesses happen in the order of the source.                      *)
(***************************************************************************)
EXTENDS Integers, Sequences

CONSTANTS BUF_LEN,     \* ALTERA_AVALON_JTAG_UART_BUF_LEN: 2048 in the code
          FIFO,        \* length of each FIFO of the device: 64
          WLEVEL,      \* used places of tx_fifo that raise an interrupt: 8
          RLEVEL,      \* free places of rx_fifo that raise an interrupt: 8
          INT_MAX,     \* of the compiler
          DEFAULT,     \* ALTERA_AVALON_JTAG_UART_DEFAULT_TIMEOUT: 10
          Setups,      \* of a program: does the alarm start (not without a timer), which
                       \*   calls does it make, for how many characters, does the user
                       \*   type, and how often (a bound) does the host go or come back
          Timeouts,    \* arguments of TIOCSTIMEOUT
          K            \* characters are numbered modulo K

ASSUME UartAssumption == /\ {BUF_LEN, FIFO, INT_MAX, DEFAULT, K} \subseteq Nat \ {0}
                         /\ BUF_LEN > 1 /\ {WLEVEL, RLEVEL} \subseteq 0..(FIFO - 1)
                         /\ DEFAULT < INT_MAX - 1
                         /\ Setups \subseteq [alarm : BOOLEAN, typing : BOOLEAN, flips : Nat,
                                counts : SUBSET Nat, calls : SUBSET {"w_copy", "r_copy", "c_wait"}]
                         /\ Timeouts \subseteq Nat
                         /\ K > BUF_LEN + FIFO

VARIABLES
    tx_buf, tx_in, tx_out, rx_buf, rx_in, rx_out,   \* altera_avalon_jtag_uart_state
    irq_enable, host_inactive, timeout,             \*   (the same)
    pc,         \* the thread: the statement it executes next
    call,       \*   the parameters and locals of its call
    isr,        \* the interrupt routine: its place and locals
    ien,        \* the device: RE and WE of its control register
    tx_fifo, rx_fifo,
    pause_irq,  \*   the host paused and left characters in rx_fifo
    ac,         \*   the host typed or paused
    setup,      \* the program, one of Setups
    flips,      \* the host: there when even
    char_tx,    \* history: the number of the next character written
    char_rx,    \* history: the number of the next character typed
    heard, got  \* history: the last characters the host, the program received

tx    == <<tx_buf, tx_in>>              \* written by the thread only
rx    == <<rx_buf, rx_in>>              \* written by the interrupt routine only
timer == <<host_inactive, timeout>>
fifos == <<tx_fifo, rx_fifo, pause_irq, ac>>
host  == <<setup, flips, char_rx, heard>>
prog  == <<pc, call, char_tx, got>>
vars  == <<tx, tx_out, rx, rx_out, irq_enable, timer, prog, isr, ien, fifos, host>>

Index == 0..(BUF_LEN - 1)
Char  == 0..(K - 1)
Irq   == {"RE", "WE"}
InWrite == pc \in {"w_copy", "w_fill", "w_publish", "w_kick", "w_spin",
                   "w_check"}
InRead  == pc \in {"r_copy", "r_take", "r_release", "r_spin", "r_check", "r_done"}

\* Host is a terminal on the other end of the cable.
There == flips % 2 = 0

NoCall == [nonblock |-> FALSE, count |-> 0, moved |-> FALSE, snap |-> 0, n |-> 0,
           copy |-> <<>>]
NoIsr == [at |-> "idle", wi |-> FALSE, space |-> 0, avail |-> FALSE]

Calls == [nonblock : BOOLEAN, count : Nat, moved : BOOLEAN, snap : Index, n : Index,
          copy : Seq(Char)]

TypeOK == /\ {tx_in, tx_out, rx_in, rx_out} \subseteq Index
          /\ tx_buf \in [Index -> Char] /\ rx_buf \in [Index -> Char]
          /\ irq_enable \in SUBSET Irq /\ ien \in SUBSET Irq
          /\ host_inactive \in 0..INT_MAX /\ timeout \in 0..INT_MAX
          /\ pc \in {"idle", "c_wait"} \/ InWrite \/ InRead
          /\ call \in Calls
          /\ isr \in [at : {"idle", "top", "rx", "tx"}, wi : BOOLEAN, space : 0..FIFO,
                      avail : BOOLEAN]
          /\ pause_irq \in BOOLEAN /\ ac \in BOOLEAN
          /\ tx_fifo \in Seq(Char) /\ rx_fifo \in Seq(Char)
          /\ Len(tx_fifo) <= FIFO /\ Len(rx_fifo) <= FIFO
          /\ char_tx \in Char /\ char_rx \in Char
          /\ setup \in Setups /\ flips \in 0..setup.flips

-----------------------------------------------------------------------------
(* The circular buffers.                                                   *)

Least(m, n) == IF m < n THEN m ELSE n

\* n places on, round the buffer.
Step(i, n) == (i + n) % BUF_LEN

\* The characters in buf, oldest first.
Ring(buf, out, in) ==
    [i \in 1..((in - out) % BUF_LEN) |-> buf[Step(out, i - 1)]]

\* Places that follow in without a gap; one place of the buffer stays free.
Room_full(in, out) == IF in < out THEN out - 1 - in ELSE BUF_LEN - in    \* mutant
Room(in, out) == IF in < out THEN out - 1 - in
                 ELSE IF out > 0 THEN BUF_LEN - in
                 ELSE BUF_LEN - 1 - in

\* Characters that follow out without a gap.
Avail(in, out) == IF in >= out THEN in - out ELSE BUF_LEN - out

-----------------------------------------------------------------------------
(* The device (nios_jtag_uart_0.v), and the host behind it.                *)

\* Interrupts pending: ipen_AF and ipen_AE.
RI == "RE" \in ien /\ (pause_irq \/ FIFO - Len(rx_fifo) <= RLEVEL)
WI == "WE" \in ien /\ Len(tx_fifo) <= WLEVEL

\* The host takes a character, which does not count as activity (:439).
HostReads ==
    /\ There /\ tx_fifo # <<>>
    /\ heard' = <<Head(tx_fifo)>> /\ tx_fifo' = Tail(tx_fifo)
    /\ UNCHANGED <<tx, tx_out, rx, rx_out, irq_enable, timer, prog, isr, ien,
                   rx_fifo, pause_irq, ac, setup, flips, char_rx>>

\* The user types a character.
HostTypes ==
    /\ There /\ setup.typing /\ Len(rx_fifo) < FIFO
    /\ rx_fifo' = Append(rx_fifo, char_rx) /\ char_rx' = (char_rx + 1) % K
    /\ ac' = TRUE
    /\ UNCHANGED <<tx, tx_out, rx, rx_out, irq_enable, timer, prog, isr, ien,
                   tx_fifo, pause_irq, setup, flips, heard>>

\* The host has nothing more to say for now.
HostPauses ==
    /\ There
    /\ ac' = TRUE /\ pause_irq' = (pause_irq \/ rx_fifo # <<>>)
    /\ UNCHANGED <<tx, tx_out, rx, rx_out, irq_enable, timer, prog, isr, ien,
                   tx_fifo, rx_fifo, host>>

\* The terminal is closed, or opened again.
HostFlips ==
    /\ flips < setup.flips /\ flips' = flips + 1
    /\ UNCHANGED <<tx, tx_out, rx, rx_out, irq_enable, timer, prog, isr, ien,
                   fifos, setup, char_rx, heard>>

-----------------------------------------------------------------------------
(* The interrupt routine, between two accesses to the device at a time.    *)

\* sp->irq_enable &= ~bit, and the control register
DisableIrq(b) == irq_enable' = irq_enable \ {b} /\ ien' = irq_enable'

Interrupt ==
    /\ isr.at = "idle" /\ (RI \/ WI)
    /\ isr' = [isr EXCEPT !.at = "top"]
    /\ UNCHANGED <<tx, tx_out, rx, rx_out, irq_enable, timer, prog, ien, fifos, host>>

\* The space the control register tells.
Space_all == FIFO                                                        \* mutant
Space == FIFO - Len(tx_fifo)

\* Reads the control register: nothing more to do, or which work and what space.
IsrTop ==
    /\ isr.at = "top"
    /\ isr' = IF ~RI /\ ~WI THEN NoIsr
              ELSE [at |-> IF RI THEN "rx" ELSE "tx", wi |-> WI,
                    space |-> Space, avail |-> TRUE]
    /\ UNCHANGED <<tx, tx_out, rx, rx_out, irq_enable, timer, prog, ien, fifos, host>>

RxFull_never == FALSE                                                    \* mutant
RxFull == Step(rx_in, 1) = rx_out

AfterRx == IF isr.wi THEN "tx" ELSE "top"

\* No space in the buffer: what is in the device stays there.
IsrRxFull ==
    /\ isr.at = "rx" /\ RxFull
    /\ IF isr.avail THEN DisableIrq("RE") ELSE UNCHANGED <<irq_enable, ien>>
    /\ isr' = [isr EXCEPT !.at = AfterRx]
    /\ UNCHANGED <<tx, tx_out, rx, rx_out, timer, prog, fifos, host>>

\* Reads the data register; a read ends the interrupt for a pause.
IsrRx ==
    /\ isr.at = "rx" /\ ~RxFull
    /\ pause_irq' = FALSE
    /\ IF rx_fifo = <<>>
       THEN /\ isr' = [isr EXCEPT !.at = AfterRx, !.avail = FALSE]
            /\ UNCHANGED <<rx, rx_fifo>>
       ELSE /\ rx_buf' = [rx_buf EXCEPT ![rx_in] = Head(rx_fifo)]
            /\ rx_in' = Step(rx_in, 1)
            /\ rx_fifo' = Tail(rx_fifo)
            /\ isr' = [isr EXCEPT !.avail = rx_fifo' # <<>>]
    /\ UNCHANGED <<tx, tx_out, rx_out, irq_enable, timer, prog, ien, tx_fifo, ac, host>>

\* The FIFO is empty, and the host's character comes in the very clock of the read:
\* RVALID was sampled before it (:511), RAVAIL counts it already (:520).
IsrRxLate ==
    /\ isr.at = "rx" /\ ~RxFull
    /\ There /\ setup.typing /\ rx_fifo = <<>>
    /\ rx_fifo' = <<char_rx>> /\ char_rx' = (char_rx + 1) % K
    /\ ac' = TRUE /\ pause_irq' = FALSE
    /\ DisableIrq("RE")
    /\ isr' = [isr EXCEPT !.at = AfterRx]
    /\ UNCHANGED <<tx, tx_out, rx, rx_out, timer, prog, tx_fifo, setup, flips, heard>>

\* Writes the data register; a full FIFO would lose the character.
IsrTx ==
    /\ isr.at = "tx" /\ isr.space > 0 /\ tx_out # tx_in
    /\ tx_fifo' = IF Len(tx_fifo) < FIFO THEN Append(tx_fifo, tx_buf[tx_out]) ELSE tx_fifo
    /\ tx_out' = Step(tx_out, 1)
    /\ isr' = [isr EXCEPT !.space = @ - 1]
    /\ UNCHANGED <<tx, rx, rx_out, irq_enable, timer, prog, ien, rx_fifo, pause_irq,
                   ac, host>>

\* No more space; or no more data, and then the interrupt is turned off.
NoMoreData_always == TRUE                                                \* mutant
NoMoreData == isr.space > 0

IsrTxDone ==
    /\ isr.at = "tx" /\ (isr.space = 0 \/ tx_out = tx_in)
    /\ IF NoMoreData THEN DisableIrq("WE") ELSE UNCHANGED <<irq_enable, ien>>
    /\ isr' = [isr EXCEPT !.at = "top"]
    /\ UNCHANGED <<tx, tx_out, rx, rx_out, timer, prog, fifos, host>>

Isr == IsrTop \/ IsrRxFull \/ IsrRx \/ IsrTx \/ IsrTxDone

\* The alarm of every second, when there is a timer.
Timeout ==
    /\ isr.at = "idle" /\ timeout # INT_MAX
    /\ IF ac THEN ien' = irq_enable /\ ac' = FALSE /\ host_inactive' = 0
       ELSE /\ host_inactive < INT_MAX - 2 /\ host_inactive' = host_inactive + 1
            /\ UNCHANGED <<ien, ac>>
    /\ UNCHANGED <<tx, tx_out, rx, rx_out, irq_enable, timeout, prog, isr, tx_fifo,
                   rx_fifo, pause_irq, host>>

-----------------------------------------------------------------------------
(* The calls of the program.                                               *)

At(p) == pc = p /\ isr.at = "idle"
TimedOut == host_inactive >= timeout

\* A call begins; a write goes on where the last one left off.
Call(first, count, nonblock) ==
    /\ At("idle") /\ first \in setup.calls /\ pc' = first
    /\ call' = [NoCall EXCEPT !.count = count, !.nonblock = nonblock]
    /\ UNCHANGED <<tx, tx_out, rx, rx_out, irq_enable, timer, char_tx, got, isr, ien,
                   fifos, host>>

Finish == pc' = "idle" /\ call' = NoCall

Return ==
    /\ Finish
    /\ UNCHANGED <<tx, tx_out, rx, rx_out, irq_enable, timer, char_tx, got, isr, ien,
                   fifos, host>>

\* A step that changes the locals of the call and nothing else.
Goto(p, c) ==
    /\ pc' = p /\ call' = c
    /\ UNCHANGED <<tx, tx_out, rx, rx_out, irq_enable, timer, char_tx, got, isr, ien,
                   fifos, host>>

\* write: how much fits, by one reading of tx_out
WriteRoom ==
    /\ At("w_copy")
    /\ LET n == Least(Room(tx_in, tx_out), call.count)
       IN  IF call.count = 0 THEN Goto("w_kick", call)
           ELSE IF n = 0 THEN Goto("w_kick", [call EXCEPT !.snap = tx_out])
           ELSE Goto("w_fill", [call EXCEPT !.n = n])

WriteFill ==
    /\ At("w_fill") /\ pc' = "w_publish"
    /\ tx_buf' = [i \in Index |-> IF i \in tx_in..(tx_in + call.n - 1)
                                  THEN (char_tx + i - tx_in) % K ELSE tx_buf[i]]
    /\ UNCHANGED <<tx_in, tx_out, rx, rx_out, irq_enable, timer, call, char_tx, got, isr, ien, fifos, host>>

WritePublish ==
    /\ At("w_publish") /\ pc' = "w_copy"
    /\ tx_in' = Step(tx_in, call.n)
    /\ char_tx' = (char_tx + call.n) % K
    /\ call' = [call EXCEPT !.count = @ - call.n, !.moved = TRUE, !.n = 0]
    /\ UNCHANGED <<tx_buf, tx_out, rx, rx_out, irq_enable, timer, got, isr, ien,
                   fifos, host>>

\* With interrupts disabled, sp->irq_enable |= bit, and the control register.
EnableIrq_shadow(b) == irq_enable' = irq_enable \cup {b} /\ UNCHANGED ien  \* mutant
EnableIrq(b) == irq_enable' = irq_enable \cup {b} /\ ien' = irq_enable'

\* A kick of the interrupt routine; then what is left waits for space.
WriteKick ==
    /\ At("w_kick") /\ EnableIrq("WE")
    /\ IF call.count > 0 /\ ~call.nonblock THEN pc' = "w_spin" /\ UNCHANGED call ELSE Finish
    /\ UNCHANGED <<tx, tx_out, rx, rx_out, timer, char_tx, got, isr, fifos, host>>

WriteSpin == At("w_spin") /\ (tx_out # call.snap \/ TimedOut) /\ Goto("w_check", call)

WriteCheck ==
    /\ At("w_check")
    /\ IF host_inactive # 0 THEN Return ELSE Goto("w_copy", [call EXCEPT !.snap = 0])

\* read: what is there, by one reading of rx_in
ReadAvail ==
    /\ At("r_copy")
    /\ LET n == Least(Avail(rx_in, rx_out), call.count)
       IN  Goto(CASE n > 0 -> "r_take"
                  [] n = 0 /\ (call.moved \/ call.nonblock \/ call.count = 0) -> "r_done"
                  [] OTHER -> "r_spin",
                [call EXCEPT !.snap = IF n = 0 THEN rx_in ELSE @, !.n = n])

ReadTake ==
    /\ At("r_take")
    /\ Goto("r_release", [call EXCEPT !.copy = [i \in 1..call.n |-> rx_buf[rx_out + i - 1]]])

ReadRelease ==
    /\ At("r_release")
    /\ pc' = IF call.count > call.n THEN "r_copy" ELSE "r_done"
    /\ rx_out' = Step(rx_out, call.n)
    /\ got' = call.copy
    /\ call' = [call EXCEPT !.count = @ - call.n, !.moved = TRUE, !.n = 0, !.copy = <<>>]
    /\ UNCHANGED <<tx, tx_out, rx, irq_enable, timer, char_tx, isr, ien, fifos, host>>

ReadSpin == At("r_spin") /\ (rx_in # call.snap \/ TimedOut) /\ Goto("r_check", call)

ReadCheck ==
    /\ At("r_check")
    /\ Goto(IF rx_in = call.snap THEN "r_done" ELSE "r_copy", [call EXCEPT !.snap = 0])

\* There is space in the buffer if anything was read.
ReadDone ==
    /\ At("r_done") /\ Finish
    /\ IF call.moved THEN EnableIrq("RE") ELSE UNCHANGED <<irq_enable, ien>>
    /\ UNCHANGED <<tx, tx_out, rx, rx_out, timer, char_tx, got, isr, fifos, host>>

\* close: waits for the interrupt routine to take everything
Close ==
    /\ At("c_wait") /\ (tx_out = tx_in \/ TimedOut \/ call.nonblock)
    /\ Return

\* ioctl; without an alarm the time stays infinite.
TIOCSTIMEOUT(arg) ==
    /\ At("idle") /\ timeout # INT_MAX
    /\ timeout' = IF arg >= 2 /\ arg < INT_MAX THEN arg ELSE INT_MAX - 1
    /\ UNCHANGED <<tx, tx_out, rx, rx_out, irq_enable, host_inactive, prog, isr, ien,
                   fifos, host>>

Write == WriteRoom \/ WriteFill \/ WritePublish \/ WriteKick \/ WriteSpin \/ WriteCheck
Read  == ReadAvail \/ ReadTake \/ ReadRelease \/ ReadSpin \/ ReadCheck \/ ReadDone
Thread == Write \/ Read \/ Close

\* alt_sys_init has called altera_avalon_jtag_uart_init.
Init == /\ tx_in = 0 /\ tx_out = 0 /\ rx_in = 0 /\ rx_out = 0
        /\ tx_buf = [i \in Index |-> 0] /\ rx_buf = [i \in Index |-> 0]
        /\ irq_enable = {"RE"} /\ ien = {"RE"} /\ host_inactive = 0
        /\ setup \in Setups
        /\ timeout = IF setup.alarm THEN DEFAULT ELSE INT_MAX
        /\ pc = "idle" /\ call = NoCall /\ isr = NoIsr
        /\ tx_fifo = <<>> /\ rx_fifo = <<>> /\ pause_irq = FALSE /\ ac = FALSE
        /\ flips = 0 /\ char_tx = 0 /\ char_rx = 0
        /\ heard = <<K - 1>> /\ got = <<K - 1>>

Next == \/ \E first \in {"w_copy", "r_copy"}, count \in setup.counts, nonblock \in BOOLEAN :
              Call(first, count, nonblock)
        \/ \E nonblock \in BOOLEAN : Call("c_wait", 0, nonblock)
        \/ \E arg \in Timeouts : TIOCSTIMEOUT(arg)
        \/ Thread \/ Interrupt \/ Isr \/ Timeout
        \/ HostReads \/ HostTypes \/ HostPauses \/ HostFlips

Spec == Init /\ [][Next]_vars

\* The same with the device clock by clock where it matters.
SpecClocked == Init /\ [][Next \/ IsrRxLate]_vars

\* The processor goes on, a pending interrupt and the alarm are served, and a
\* host that stays there takes what is written and pauses now and then.
FairSpec == /\ Spec
            /\ WF_vars(Thread) /\ WF_vars(Interrupt \/ Isr) /\ WF_vars(Timeout)
            /\ WF_vars(HostReads) /\ WF_vars(HostPauses)

-----------------------------------------------------------------------------
(* Properties.                                                             *)

Out == INSTANCE CharStream WITH pending <- tx_fifo \o Ring(tx_buf, tx_out, tx_in),
                                delivered <- heard
In  == INSTANCE CharStream WITH pending <- Ring(rx_buf, rx_out, rx_in) \o rx_fifo,
                                delivered <- got

\* The host hears every character that was written, once and in order, however
\* the interrupt routine cuts into a write.
WritesArrive == Out!Spec

\* The program reads every character that was typed, once and in order; a full
\* buffer keeps characters in the device and loses none.
ReadsArrive == In!Spec

\* A copy never runs over the end of a buffer, nor over characters that are still
\* to be sent, although what it goes by was read some time ago.
CopiesFit ==
    /\ pc \in {"w_fill", "w_publish"} =>
          /\ tx_in + call.n <= BUF_LEN
          /\ Len(Ring(tx_buf, tx_out, tx_in)) + call.n < BUF_LEN
    /\ pc \in {"r_take", "r_release"} =>
          /\ rx_out + call.n <= BUF_LEN
          /\ call.n <= Len(Ring(rx_buf, rx_out, rx_in))

\* No wake-up is lost on the way out: outside of the interrupt routine, and of a
\* write on its way to the kick, characters in the buffer have the transmit
\* interrupt on; and a writer that waits has such characters.
TxArmed ==
    isr.at = "idle" =>
        /\ tx_out # tx_in /\ pc \notin {"w_copy", "w_fill", "w_publish", "w_kick"}
              => "WE" \in ien
        /\ pc = "w_spin" /\ tx_out = call.snap => tx_out # tx_in

\* No wake-up is lost on the way in: with the receive interrupt off, the buffer is
\* full, or a read that made space is about to turn it on.
RxArmed ==
    isr.at = "idle" /\ "RE" \notin ien => RxFull \/ (call.moved /\ InRead)

\* The interrupt routine ends, whatever the host does: what it cannot serve, it
\* turns off.
IsrEnds == isr.at # "idle" ~> isr.at = "idle"

\* A blocking write and a close end when the host reads or the alarm runs; the
\* driver gives up on a host that left, unless it was told to wait forever.
WriteReturns ==
    InWrite \/ pc = "c_wait" ~> pc = "idle" \/ (~There /\ timeout >= INT_MAX - 1)

\* A read that finds characters in the device ends, for a host that is there.
ReadReturns == InRead /\ rx_fifo # <<>> ~> pc = "idle" \/ ~There

\* No call of the program waits for ever without reason.
CallsReturn == WriteReturns /\ ReadReturns

\* What the interrupt routine says when it turns reception off (init.c:158): "If
\* there is still data available here then the buffer is full".
RxOffMeansFull == []["RE" \in ien /\ "RE" \notin ien' => RxFull]_vars
=============================================================================
