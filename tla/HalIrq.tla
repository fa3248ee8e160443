------------------------------- MODULE HalIrq --------------------------------
(***************************************************************************)
(* Interrupts of the Nios II as the HAL manages them: the PIE bit of the   *)
(* status register, the ienable register and its copy alt_irq_active, the  *)
(* table of handlers, the dispatch loop of alt_irq_handler(), and handlers *)
(* that let more urgent interrupts in (alt_irq_interruptible()).  The      *)
(* smallest number is the most urgent one.                                 *)
(*                                                                         *)
(* Devices raise their lines at any time and keep them raised until their  *)
(* handler has served them.  What one line of C does with PIE clear is one *)
(* step with its neighbours, since nothing can come in between.            *)
(***************************************************************************)
EXTENDS Integers, Sequences, FiniteSets

CONSTANTS NIrq             \* ALT_NIRQ

ASSUME NIrqAssumption == NIrq \in Nat \ {0}

VARIABLES pie,             \* status.PIE
          ienable,         \* the control register
          active,          \* alt_irq_active
          pmask,           \* alt_priority_mask
          isr,             \* lines whose entry of alt_irq[] has a handler
          bare,            \* history: lines that alt_ic_irq_enable() enabled without one
          line,            \* lines that are raised
          stack,           \* handlers that run, the innermost last
          saved            \* contexts of the program's open alt_irq_disable_all() calls

irqVars == <<pie, ienable, active, pmask, isr, bare, line, stack, saved>>
cpu == <<pie, stack, saved>>
control == <<ienable, active, pmask, isr, bare>>

Irqs == 0..NIrq - 1
MostUrgent(S) == CHOOSE i \in S : \A j \in S : i <= j
Pending == line \cap ienable                        \* ipending
Top == stack[Len(stack)]
Pop == SubSeq(stack, 1, Len(stack) - 1)
Put(frame) == [stack EXCEPT ![Len(stack)] = frame]
Running(i) == stack # <<>> /\ Top.at = "run" /\ Top.irq = i
Thread == stack = <<>>                              \* the program itself runs

\* alt_irq_init() clears ienable, then alt_irq_cpu_enable_interrupts() sets PIE.
alt_irq_init == /\ pie = TRUE /\ ienable = {} /\ active = {} /\ pmask = Irqs
                /\ isr = {} /\ bare = {} /\ line = {} /\ stack = <<>> /\ saved = <<>>

Raise(i) == i \notin line /\ line' = line \cup {i} /\ UNCHANGED <<cpu, control>>

\* The exception entry saves status and clears PIE.
Interrupt == /\ pie /\ Pending # {}
             /\ pie' = FALSE
             /\ stack' = Append(stack, [irq |-> MostUrgent(Pending), at |-> "scan", mask |-> pmask])
             /\ UNCHANGED <<control, line, saved>>

\* alt_irq_handler(): call the handler of the most urgent pending line until none is left.
\* Whether the line has one is not looked at: a call through NULL runs what is at address 0,
\* which may come back or not.
Called(i) == [Top EXCEPT !.irq = i, !.at = IF i \in isr THEN "run" ELSE "null"]
alt_irq_handler == /\ stack # <<>> /\ Top.at = "scan"
                   /\ IF Pending # {}
                      THEN stack' = Put(Called(MostUrgent(Pending))) /\ pie' = pie
                      ELSE stack' = Pop /\ pie' = TRUE
                   /\ UNCHANGED <<control, line, saved>>
NullReturns == /\ stack # <<>> /\ Top.at = "null"
               /\ stack' = Put([Top EXCEPT !.at = "scan"])
               /\ UNCHANGED <<pie, control, line, saved>>

\* A handler takes its device's line down and returns to the loop.
Serve(i) == /\ Running(i)
            /\ line' = line \ {i}
            /\ stack' = Put([Top EXCEPT !.at = "scan"])
            /\ UNCHANGED <<pie, saved, control>>

\* Between these two calls the handler itself can be interrupted by what is more urgent.
alt_irq_interruptible(i) ==
  /\ Running(i)
  /\ pmask' = 0..i - 1 /\ ienable' = active \cap (0..i - 1)
  /\ pie' = TRUE
  /\ stack' = Put([Top EXCEPT !.at = "open", !.mask = pmask])
  /\ UNCHANGED <<active, isr, bare, line, saved>>
alt_irq_non_interruptible ==
  /\ stack # <<>> /\ Top.at = "open"
  /\ pie' = FALSE
  /\ pmask' = Top.mask /\ ienable' = Top.mask \cap active
  /\ stack' = Put([Top EXCEPT !.at = "run"])
  /\ UNCHANGED <<active, isr, bare, line, saved>>

\* The program's critical sections; they nest.
alt_irq_disable_all == /\ Thread /\ Len(saved) < 2
                       /\ saved' = Append(saved, pie) /\ pie' = FALSE
                       /\ UNCHANGED <<control, line, stack>>
alt_irq_enable_all_first == /\ Thread /\ saved # <<>>                  \* mutant
                            /\ pie' = TRUE
                            /\ saved' = SubSeq(saved, 1, Len(saved) - 1)
                            /\ UNCHANGED <<control, line, stack>>
alt_irq_enable_all == /\ Thread /\ saved # <<>>
                      /\ pie' = saved[Len(saved)]
                      /\ saved' = SubSeq(saved, 1, Len(saved) - 1)
                      /\ UNCHANGED <<control, line, stack>>

\* Enabling or disabling a line writes alt_irq_active, whole, to the control register.
SetActive(a) == active' = a /\ ienable' = a
alt_irq_enable(i)  == SetActive(active \cup {i})
alt_irq_disable(i) == SetActive(active \ {i})

alt_ic_isr_register_enabled(i, handler) ==                              \* mutant
  /\ isr' = (IF handler THEN isr \cup {i} ELSE isr \ {i}) /\ bare' = bare \ {i}
  /\ alt_irq_enable(i)
  /\ UNCHANGED <<cpu, pmask, line>>
\* A handler that is registered is enabled too; NULL disables the line.
alt_ic_isr_register(i, handler) ==
  /\ isr' = (IF handler THEN isr \cup {i} ELSE isr \ {i}) /\ bare' = bare \ {i}
  /\ IF handler THEN alt_irq_enable(i) ELSE alt_irq_disable(i)
  /\ UNCHANGED <<cpu, pmask, line>>
\* These two do not look at the handlers.
alt_ic_irq_enable(i)  == /\ alt_irq_enable(i) /\ bare' = bare \cup ({i} \ isr)
                         /\ UNCHANGED <<cpu, pmask, isr, line>>
alt_ic_irq_disable(i) == /\ alt_irq_disable(i) /\ bare' = bare \ {i}
                         /\ UNCHANGED <<cpu, pmask, isr, line>>
alt_ic_irq_enabled(i) == i \in ienable

\* Calls from the program, and from a handler that no handler has let in.
Configure(i) == /\ Thread \/ (Len(stack) = 1 /\ Top.at = "run")
                /\ \/ \E handler \in BOOLEAN : alt_ic_isr_register(i, handler)
                   \/ ~alt_ic_irq_enabled(i) /\ alt_ic_irq_enable(i)
                   \/ alt_ic_irq_enabled(i) /\ alt_ic_irq_disable(i)
------------------------------------------------------------------------------
\* The dispatch loop calls through NULL only for a line that the program itself enabled with
\* alt_ic_irq_enable() while it had no handler: registering and removing handlers, from the
\* program and from handlers, with interrupts coming in between, never leads to such a call
\* (alt_irq_handler.c:126-146, alt_iic_isr_register.c:71-97, alt_iic.c:60-87).
HandlersExist == stack # <<>> /\ Top.at = "null" => Top.irq \in bare

\* A handler that runs inside another one is more urgent than all of those it interrupted;
\* when none runs, the control register is what was enabled and no mask is left behind; and
\* in a critical section of the program, nested or not, no interrupt is taken (alt_irq.h:96-183,
\* alt_legacy_irq.h:68-149).
InnerIsMoreUrgent == \A k \in 1..Len(stack) - 1 :
                       stack[k].at = "open" /\ stack[k + 1].irq < stack[k].irq
MasksRestored == Thread => ienable = active /\ pmask = Irqs
CriticalSectionsHold == saved # <<>> => ~pie /\ stack = <<>>
MasksHold == InnerIsMoreUrgent /\ MasksRestored /\ CriticalSectionsHold
==============================================================================
