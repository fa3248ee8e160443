------------------------------- MODULE HalTime -------------------------------
(***************************************************************************)
(* Time in the HAL: the tick counter, the linked list of alarms that       *)
(* alt_tick() walks inside the timer's interrupt handler, and the program  *)
(* and callbacks that start and stop alarms meanwhile.  The counter and    *)
(* the alarms' times are alt_u32: they wrap at W (2^32), and a flag keeps  *)
(* an alarm whose time has wrapped from firing too early.                  *)
(*                                                                         *)
(* The list is modelled by its pointers, since what happens to a walk when *)
(* the list changes under it is the question.  due and live are not in the *)
(* code: due counts, without wrapping, the ticks left until the alarm      *)
(* should fire, live is the set of alarms that run.                        *)
(***************************************************************************)
EXTENDS HalIrq

CONSTANTS W,               \* 2^32
          Alarms,          \* the alarm structures of the program
          Periods,         \* what callbacks return, and the ticks of alt_alarm_start()
          StopsAny         \* a callback may stop alarms other than its own

ASSUME WAssumption == W \in Nat \ {0, 1}
ASSUME PeriodsAssumption == Periods \subseteq 0..W - 2

VARIABLES nticks,          \* _alt_nticks
          al,              \* the alarms and their list, a record (below)
          at               \* where the walk of alt_tick() is, Idle outside of it

vars == <<irqVars, nticks, al, at>>

ListHead == "alt_alarm_list"
Idle == "idle"
Nodes == Alarms \cup {ListHead}
Timer == 0                                           \* the line of the system clock

\* The alarms are structures of the program, none of them the list's head.
ASSUME AlarmsAssumption == IsFiniteSet(Alarms) /\ {ListHead, Idle} \cap Alarms = {}

Plus(x, y) == (x + y) % W

Init == /\ alt_irq_init
        /\ nticks \in 0..W - 1
        /\ al = [next |-> [n \in Nodes |-> n], prev |-> [n \in Nodes |-> n],
                 time |-> [a \in Alarms |-> 0], rollover |-> [a \in Alarms |-> FALSE],
                 due |-> [a \in Alarms |-> 0],       \* ticks until the alarm should fire
                 live |-> {}]                        \* started and not stopped since
        /\ at = Idle
------------------------------------------------------------------------------
(* Operations on the record *)

alt_llist_insert(s, a) ==
  [s EXCEPT !.next = [@ EXCEPT ![a] = s.next[ListHead], ![ListHead] = a],
            !.prev = [@ EXCEPT ![a] = ListHead, ![s.next[ListHead]] = a]]
alt_llist_remove_dangling(s, a) ==                                      \* mutant
  [s EXCEPT !.next = [@ EXCEPT ![s.prev[a]] = s.next[a]],
            !.prev = [@ EXCEPT ![s.next[a]] = s.prev[a]]]
\* The entry is left pointing to itself, so that removing it again is harmless.
alt_llist_remove(s, a) ==
  [s EXCEPT !.next = [@ EXCEPT ![s.prev[a]] = s.next[a], ![a] = a],
            !.prev = [@ EXCEPT ![s.next[a]] = s.prev[a], ![a] = a]]

\* The time is in the next turn of the counter.
Wraps(t) == t < nticks

\* alt_alarm_start(): one tick is added so that n whole ones pass.
alt_alarm_start(s, a, n) ==
  LET t == Plus(n + 1, nticks)
  IN  alt_llist_insert([s EXCEPT !.time[a] = t, !.rollover[a] = Wraps(t),
                                 !.due[a] = n + 1, !.live = @ \cup {a}], a)

alt_alarm_stop(s, a) == alt_llist_remove([s EXCEPT !.live = @ \ {a}], a)

Unrolled_never(s, a) == s                                               \* mutant
Unrolled(s, a) == IF nticks = 0 THEN [s EXCEPT !.rollover[a] = FALSE] ELSE s
Expired(s, a) == s.time[a] <= nticks /\ ~s.rollover[a]

\* After the callback: 0 removes the alarm, another value is the period to its next call.
Rearm(s, a, period) ==
  IF period = 0 THEN alt_alarm_stop(s, a)
  ELSE LET t == Plus(s.time[a], period)
       IN  [s EXCEPT !.time[a] = t, !.rollover[a] = @ \/ Wraps(t), !.due[a] = period]

\* What a callback may do to the list before it returns: stop an alarm, start another one
\* that is not running, or both.
Stopped(s, a) == {s} \cup {alt_alarm_stop(s, b) : b \in IF StopsAny THEN s.live ELSE {a}}
Started(s, a) == {alt_alarm_start(s, b, n) : b \in Alarms \ (s.live \cup {a}), n \in Periods}
Effects(s, a) == Stopped(s, a) \cup UNION {Started(t, a) : t \in Stopped(s, a)}
------------------------------------------------------------------------------
(* The timer's handler calls alt_tick() *)

BeginTick == /\ Running(Timer) /\ at = Idle
             /\ nticks' = Plus(nticks, 1)
             /\ at' = al.next[ListHead]
             /\ al' = [al EXCEPT !.due = [a \in Alarms |-> IF a \in al.live THEN @[a] - 1 ELSE @[a]]]
             /\ UNCHANGED irqVars

Walk_after == /\ at \in Alarms                                         \* mutant
              /\ LET s == Unrolled(al, at)
                 IN  IF Expired(s, at)
                     THEN \E period \in Periods, e \in Effects(s, at) : al' = Rearm(e, at, period)
                     ELSE al' = s
              /\ at' = al'.next[at]
              /\ UNCHANGED <<irqVars, nticks>>
\* The next pointer is taken before the callback runs.
Walk == /\ at \in Alarms
        /\ at' = al.next[at]
        /\ LET s == Unrolled(al, at)
           IN  IF Expired(s, at)
               THEN \E period \in Periods, e \in Effects(s, at) : al' = Rearm(e, at, period)
               ELSE al' = s
        /\ UNCHANGED <<irqVars, nticks>>

alt_tick == BeginTick \/ Walk
EndTick == at = ListHead /\ at' = Idle /\ Serve(Timer) /\ UNCHANGED <<nticks, al>>

\* The program, with interrupts on or in a critical section of its own: the two calls
\* disable them for the time they touch the list.
Start(a) == \E n \in Periods : Thread /\ a \notin al.live /\ al' = alt_alarm_start(al, a, n)
Stop(a)  == Thread /\ a \in al.live /\ al' = alt_alarm_stop(al, a)
Program == /\ \E a \in Alarms : Start(a) \/ Stop(a)
           /\ UNCHANGED <<irqVars, nticks, at>>

\* Nothing is more urgent than the timer, so its handler lets nothing in.
Interrupts == /\ \/ \E i \in Irqs : Raise(i) \/ Configure(i)
                 \/ \E i \in Irqs \ {Timer} : alt_irq_interruptible(i) \/ Serve(i)
                 \/ Interrupt \/ alt_irq_handler \/ NullReturns \/ alt_irq_non_interruptible
                 \/ alt_irq_disable_all \/ alt_irq_enable_all
              /\ UNCHANGED <<nticks, al, at>>

Next == alt_tick \/ EndTick \/ Program \/ Interrupts

\* Handlers, once they run, run on; the program ends its critical sections.
Still == UNCHANGED <<nticks, al, at>>
Fairness == /\ WF_vars(alt_tick \/ EndTick)
            /\ WF_vars(Still /\ (Interrupt \/ alt_irq_handler \/ alt_irq_non_interruptible))
            /\ WF_vars(Still /\ alt_irq_enable_all)
            /\ \A i \in Irqs \ {Timer} : WF_vars(Still /\ Serve(i))
Spec == Init /\ [][Next]_vars /\ Fairness
------------------------------------------------------------------------------
(* Properties *)

Fires(a) == at = a /\ Expired(Unrolled(al, a), a)

\* A callback runs in the tick that its alarm was set for, n + 1 ticks after
\* alt_alarm_start() or as many as the callback itself returned, and in no other tick, also
\* when the counter wraps on the way (alt_tick.c:96-141, alt_alarm_start.c:77-98).
NeverEarly == \A a \in Alarms : Fires(a) => a \in al.live /\ al.due[a] = 0
NeverLate  == at = Idle => \A a \in al.live : al.due[a] > 0
Punctual   == NeverEarly /\ NeverLate

\* The list holds exactly the alarms that run, whatever is started and stopped by the
\* program between ticks and by callbacks during the walk (alt_llist.h:90-117).
Nth[k \in 0..Cardinality(Alarms)] ==
  IF k = 0 THEN al.next[ListHead] ELSE al.next[Nth[k - 1]]
Reached == {Nth[k] : k \in 0..Cardinality(Alarms)} \ {ListHead}
ListIsLive == /\ Reached = al.live
              /\ \A n \in al.live \cup {ListHead} : al.prev[al.next[n]] = n

\* Every tick ends: the walk is not led astray by a callback that removes its own alarm or
\* inserts another one (alt_tick.c:96-148).
TickEnds == at # Idle ~> at = Idle
==============================================================================
