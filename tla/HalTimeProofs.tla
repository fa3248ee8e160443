---------------------------- MODULE HalTimeProofs ----------------------------
(***************************************************************************)
(* Theorems about the interrupts of HalTime, for any number of lines: no   *)
(* handler goes missing, and handlers nest by urgency alone.  TLC's instance *)
(* has two lines, so that at most one handler runs inside another one.     *)
(***************************************************************************)
EXTENDS HalTimeInv, TLAPS, WellFoundedInduction, SequenceTheorems, FiniteSetTheorems

Frames == [irq : Irqs, at : {"scan", "run", "open", "null"}, mask : SUBSET Irqs]

IrqType == /\ pie \in BOOLEAN
           /\ ienable \subseteq Irqs /\ active \subseteq Irqs /\ pmask \subseteq Irqs
           /\ isr \subseteq Irqs /\ bare \subseteq Irqs /\ line \subseteq Irqs
           /\ stack \in Seq(Frames) /\ saved \in Seq(BOOLEAN)

\* What may interrupt the handler at depth k when it has not let anything in.
MaskAt(handlers, k) == IF k = 1 THEN Irqs ELSE 0..handlers[k - 1].irq - 1

\* Every handler but the innermost has let others in; each remembers the mask it started
\* under and is itself within it.
Nested == \A k \in 1..Len(stack) :
            /\ stack[k].mask = MaskAt(stack, k) /\ stack[k].irq \in MaskAt(stack, k)
            /\ k < Len(stack) => stack[k].at = "open"

MaskNow == IF stack = <<>> THEN Irqs
           ELSE IF Top.at = "open" THEN 0..Top.irq - 1 ELSE Top.mask

\* The program's critical sections: interrupts are off, and only the outermost found them on.
Critical == /\ saved # <<>> => ~pie /\ stack = <<>>
            /\ \A k \in 2..Len(saved) : saved[k] = FALSE

\* A line is enabled because it has a handler, or because the program asked for it.
Accounted == active \subseteq isr \cup bare /\ HandlersExist

IrqInv == /\ IrqType
          /\ Accounted
          /\ ienable = active \cap pmask
          /\ pmask = MaskNow
          /\ pie /\ stack # <<>> => Top.at = "open"
          /\ Nested /\ Critical

------------------------------------------------------------------------------
(* The smallest number of a set, and induction by it *)

LEMMA Least == ASSUME NEW S \in SUBSET Nat, S # {} PROVE \E x \in S : \A y \in S : x <= y
<1>1. \A y, z \in Nat : y < z => <<y, z>> \in OpToRel(<, Nat)
  BY Zenon DEF OpToRel
<1>2. \E R : IsWellFoundedOn(R, Nat) /\ \A y, z \in Nat : y < z => <<y, z>> \in R
  BY <1>1, NatLessThanWellFounded, Zenon
<1>3. PICK R : IsWellFoundedOn(R, Nat) /\ \A y, z \in Nat : y < z => <<y, z>> \in R
  BY <1>2
<1>4. IsWellFoundedOn(R, Nat) /\ S \subseteq Nat /\ S # {}
  BY <1>3
<1>5. PICK x \in S : \A y \in S : ~ (<<y, x>> \in R)
  BY <1>4, WFMin
<1>6. \A y \in S : ~ (y < x) /\ y \in Nat /\ x \in Nat
  BY <1>3, <1>5
<1>7. QED
  BY <1>6

LEMMA MostUrgentIn == ASSUME NEW S \in SUBSET Irqs, S # {} PROVE MostUrgent(S) \in S
<1>1. S \in SUBSET Nat
  BY NIrqAssumption DEF Irqs
<1>2. QED
  BY <1>1, Least DEF MostUrgent

\* A set that has 0, and n + 1 with every n, has all numbers.
LEMMA AllNumbers ==
  ASSUME NEW S, 0 \in S, \A n \in Nat : n \in S => n + 1 \in S
  PROVE  \A n \in Nat : n \in S
<1> SUFFICES ASSUME Nat \ S # {} PROVE FALSE
  OBVIOUS
<1>1. Nat \ S \in SUBSET Nat
  OBVIOUS
<1>2. PICK x \in Nat \ S : \A y \in Nat \ S : x <= y
  BY <1>1, Least
<1>3. x - 1 \in Nat /\ x - 1 \in S /\ (x - 1) + 1 = x
  BY <1>2
<1>4. QED
  BY <1>2, <1>3

------------------------------------------------------------------------------
(* The stack of handlers *)

\* The innermost handler is within the mask it was started under.
LEMMA TopFrame ==
  ASSUME IrqInv, stack # <<>>
  PROVE  /\ Len(stack) \in Nat \ {0} /\ Top \in Frames
         /\ Top.mask = MaskAt(stack, Len(stack)) /\ Top.irq \in MaskAt(stack, Len(stack))
<1>1. stack \in Seq(Frames)
  BY DEF IrqInv, IrqType
<1>2. Len(stack) \in Nat \ {0}
  BY <1>1, EmptySeq
<1>3. Top \in Frames
  BY <1>1, <1>2, ElementOfSeq DEF Top
<1>4. QED
  BY <1>2, <1>3 DEF IrqInv, Nested, Top

\* The innermost handler goes on under the same mask.
LEMMA PutFrame ==
  ASSUME IrqInv, stack # <<>>, NEW f \in Frames, stack' = Put(f),
         f.mask = Top.mask, f.irq \in Top.mask
  PROVE  /\ stack' \in Seq(Frames) /\ stack' # <<>> /\ Top' = f /\ Nested'
<1>1. stack \in Seq(Frames)
  BY DEF IrqInv, IrqType
<1>2. Len(stack) \in Nat \ {0} /\ Top.mask = MaskAt(stack, Len(stack))
  BY TopFrame
<1>3. /\ stack' \in Seq(Frames) /\ Len(stack') = Len(stack)
      /\ \A j \in 1..Len(stack) : stack'[j] = IF j = Len(stack) THEN f ELSE stack[j]
  BY <1>1, <1>2, ExceptSeq DEF Put
<1>4. stack' # <<>>
  BY <1>2, <1>3, EmptySeq
<1>5. Top' = f
  BY <1>2, <1>3 DEF Top
<1>6. \A k \in 1..Len(stack) : MaskAt(stack', k) = MaskAt(stack, k)
  BY <1>2, <1>3 DEF MaskAt
<1>7. Nested'
  BY <1>2, <1>3, <1>6 DEF Nested, IrqInv
<1>8. QED
  BY <1>3, <1>4, <1>5, <1>7

\* An interrupt is taken: the new handler is within what may interrupt.
LEMMA PushFrame ==
  ASSUME IrqInv, stack = <<>> \/ Top.at = "open",
         NEW f \in Frames, stack' = Append(stack, f), f.mask = pmask, f.irq \in pmask
  PROVE  /\ stack' \in Seq(Frames) /\ stack' # <<>> /\ Top' = f /\ Nested'
<1>1. stack \in Seq(Frames) /\ Len(stack) \in Nat /\ (stack # <<>> => Len(stack) # 0)
  BY EmptySeq, LenProperties DEF IrqInv, IrqType
<1>2. /\ stack' \in Seq(Frames) /\ stack' # <<>> /\ Len(stack') = Len(stack) + 1
      /\ \A i \in 1..Len(stack) : stack'[i] = stack[i]
      /\ stack'[Len(stack) + 1] = f
  BY <1>1, AppendProperties
<1>3. Top' = f
  BY <1>2 DEF Top
<1>4. \A k \in 1..Len(stack) : MaskAt(stack', k) = MaskAt(stack, k)
  BY <1>1, <1>2 DEF MaskAt
<1>5. MaskAt(stack', Len(stack) + 1) = pmask
  <2>1. CASE stack = <<>>
    <3>1. Len(stack) = 0
      BY <2>1, EmptySeq
    <3>2. QED
      BY <2>1, <3>1 DEF MaskAt, MaskNow, IrqInv
  <2>2. CASE stack # <<>>
    <3>1. pmask = 0..stack[Len(stack)].irq - 1
      BY <2>2 DEF IrqInv, MaskNow, Top
    <3>2. Len(stack) + 1 # 1 /\ stack'[Len(stack) + 1 - 1] = stack[Len(stack)]
      BY <1>1, <1>2, <2>2
    <3>3. QED
      BY <1>1, <3>1, <3>2 DEF MaskAt
  <2>3. QED
    BY <2>1, <2>2
<1>6. Nested'
  <2>1. ASSUME NEW k \in 1..Len(stack)
        PROVE  stack'[k].mask = MaskAt(stack', k) /\ stack'[k].irq \in MaskAt(stack', k) /\ stack'[k].at = "open"
    BY <1>1, <1>2, <1>4 DEF IrqInv, Nested, Top
  <2>2. stack'[Len(stack) + 1].mask = MaskAt(stack', Len(stack) + 1) /\ stack'[Len(stack) + 1].irq \in MaskAt(stack', Len(stack) + 1)
    BY <1>2, <1>5
  <2>3. 1..Len(stack') = 1..Len(stack) \cup {Len(stack) + 1}
    BY <1>1, <1>2
  <2>4. QED
    BY <1>1, <1>2, <2>1, <2>2, <2>3 DEF Nested
<1>7. QED
  BY <1>2, <1>3, <1>6

\* A handler ends: the mask it ran under is the one its interrupted handler had set.
LEMMA PopFrame ==
  ASSUME IrqInv, stack # <<>>, Top.at # "open", stack' = Pop
  PROVE  /\ stack' \in Seq(Frames) /\ Nested' /\ (stack' # <<>> => Top'.at = "open")
         /\ pmask = MaskNow'
<1>1. stack \in Seq(Frames) /\ Len(stack) \in Nat \ {0} /\ pmask = MaskAt(stack, Len(stack))
  BY TopFrame DEF IrqInv, IrqType, MaskNow
<1>2. \A i \in 1..Len(stack) - 1 : stack[i] \in Frames
  BY <1>1, ElementOfSeq
<1>3. /\ stack' \in Seq(Frames)
      /\ Len(stack') = IF 1 <= Len(stack) - 1 THEN Len(stack) - 1 - 1 + 1 ELSE 0
      /\ \A i \in 1..Len(stack) - 1 - 1 + 1 : stack'[i] = stack[1 + i - 1]
  BY <1>1, <1>2, SubSeqProperties DEF Pop
<1>4. /\ Len(stack') = Len(stack) - 1
      /\ \A i \in 1..Len(stack) - 1 : stack'[i] = stack[i]
  <2>1. Len(stack') = Len(stack) - 1
    <3>1. Len(stack') = IF 1 <= Len(stack) - 1 THEN Len(stack) - 1 - 1 + 1 ELSE 0
      BY <1>3
    <3>2. \A n \in Nat \ {0} : (IF 1 <= n - 1 THEN n - 1 - 1 + 1 ELSE 0) = n - 1
      OBVIOUS
    <3>3. QED
      BY <1>1, <3>1, <3>2
  <2>2. ASSUME NEW i \in 1..Len(stack) - 1
        PROVE  stack'[i] = stack[i]
    <3>1. i \in 1..Len(stack) - 1 - 1 + 1 /\ 1 + i - 1 = i
      BY <1>1, <2>2
    <3>2. stack'[i] = stack[1 + i - 1]
      BY <1>3, <3>1
    <3>3. QED
      BY <3>1, <3>2
  <2>3. QED
    BY <2>1, <2>2
<1>5. \A k \in 1..Len(stack') : MaskAt(stack', k) = MaskAt(stack, k)
  BY <1>1, <1>4 DEF MaskAt
<1>6. Nested'
  BY <1>1, <1>4, <1>5 DEF Nested, IrqInv
<1>7. stack' # <<>> => Len(stack) # 1 /\ Top' = stack[Len(stack) - 1] /\ Top'.at = "open"
  <2>1. stack' # <<>> => Len(stack') \in Nat \ {0}
    BY <1>3, EmptySeq
  <2>2. QED
    BY <1>1, <1>4, <2>1 DEF IrqInv, Nested, Top
<1>8. stack' = <<>> => Len(stack) = 1
  BY <1>1, <1>4, EmptySeq
<1>9. pmask = MaskNow'
  BY <1>1, <1>7, <1>8 DEF MaskNow, MaskAt
<1>10. QED
  BY <1>3, <1>6, <1>7, <1>9

------------------------------------------------------------------------------
(* The invariant *)

LEMMA IrqInit == Init => IrqInv
<1> SUFFICES ASSUME Init PROVE IrqInv
  OBVIOUS
<1>1. stack = <<>> /\ saved = <<>> /\ Len(stack) = 0 /\ Len(saved) = 0
  BY EmptySeq DEF Init, alt_irq_init
<1>2. stack \in Seq(Frames) /\ saved \in Seq(BOOLEAN)
  BY <1>1, EmptySeq
<1>3. QED
  BY <1>1, <1>2 DEF Init, alt_irq_init, IrqInv, IrqType, MaskNow, Nested, Critical,
     Accounted, HandlersExist

LEMMA PendingMasked == IrqInv => Pending \subseteq pmask /\ Pending \subseteq Irqs
  BY DEF IrqInv, IrqType, Pending

\* An interrupt is taken.
LEMMA InterruptStep == IrqInv /\ Interrupt => IrqInv'
<1> SUFFICES ASSUME IrqInv, Interrupt PROVE IrqInv'
  OBVIOUS
<1> DEFINE f == [irq |-> MostUrgent(Pending), at |-> "scan", mask |-> pmask]
<1>1. MostUrgent(Pending) \in Pending
  BY MostUrgentIn, PendingMasked DEF Interrupt
<1>2. f \in Frames /\ f.mask = pmask /\ f.irq \in pmask
  BY <1>1, PendingMasked DEF Frames, IrqInv, IrqType
<1>3. stack = <<>> \/ Top.at = "open"
  BY DEF IrqInv, Interrupt
<1>4. stack' \in Seq(Frames) /\ stack' # <<>> /\ Top' = f /\ Nested'
  BY <1>2, <1>3, PushFrame DEF Interrupt
<1>5. saved = <<>>
  BY DEF IrqInv, Critical, Interrupt
<1>6. Critical'
  BY <1>5 DEF Critical, Interrupt, IrqInv
<1>7. QED
  BY <1>2, <1>4, <1>6 DEF Interrupt, IrqInv, IrqType, MaskNow, Accounted, HandlersExist, control

\* The dispatch loop: the next handler, or back to what was interrupted.
LEMMA DispatchStep == IrqInv /\ alt_irq_handler => IrqInv'
<1> SUFFICES ASSUME IrqInv, alt_irq_handler PROVE IrqInv'
  OBVIOUS
<1>1. stack # <<>> /\ Top.at = "scan" /\ ~pie /\ Top \in Frames
      /\ pmask = Top.mask /\ saved = <<>>
  BY TopFrame DEF alt_irq_handler, IrqInv, MaskNow, Critical
<1>2. CASE Pending # {}
  <2> DEFINE f == Called(MostUrgent(Pending))
  <2>1. MostUrgent(Pending) \in Pending
    BY <1>2, MostUrgentIn, PendingMasked
  <2>2. /\ f \in Frames /\ f.mask = Top.mask /\ f.irq \in Top.mask /\ f.at \in {"run", "null"}
        /\ f.at = "null" => f.irq \in bare
    BY <1>1, <2>1, PendingMasked DEF Frames, Called, Pending, IrqInv, Accounted
  <2>3. stack' \in Seq(Frames) /\ stack' # <<>> /\ Top' = f /\ Nested'
    BY <1>1, <1>2, <2>2, PutFrame DEF alt_irq_handler
  <2>4. Critical'
    BY <1>1 DEF Critical, alt_irq_handler, IrqInv
  <2>5. QED
    BY <1>1, <1>2, <2>2, <2>3, <2>4 DEF alt_irq_handler, IrqInv, IrqType, MaskNow, control,
       Accounted, HandlersExist
<1>3. CASE Pending = {}
  <2>1. /\ stack' \in Seq(Frames) /\ Nested' /\ (stack' # <<>> => Top'.at = "open")
        /\ pmask = MaskNow'
    BY <1>1, <1>3, PopFrame DEF alt_irq_handler
  <2>2. Critical'
    BY <1>1 DEF Critical, alt_irq_handler, IrqInv
  <2>3. QED
    BY <1>1, <1>3, <2>1, <2>2 DEF alt_irq_handler, IrqInv, IrqType, control,
       Accounted, HandlersExist
<1>4. QED
  BY <1>2, <1>3

\* A handler serves its device.
LEMMA ServeStep == ASSUME IrqInv, NEW i \in Irqs, Serve(i) PROVE IrqInv'
<1> DEFINE f == [Top EXCEPT !.at = "scan"]
<1>1. stack # <<>> /\ Top.at = "run" /\ ~pie /\ Top \in Frames /\ pmask = Top.mask
      /\ Top.irq \in Top.mask /\ saved = <<>>
  BY TopFrame DEF Serve, Running, IrqInv, MaskNow, Critical
<1>2. f \in Frames /\ f.mask = Top.mask /\ f.irq \in Top.mask /\ f.at = "scan"
  BY <1>1 DEF Frames
<1>3. stack' \in Seq(Frames) /\ stack' # <<>> /\ Top' = f /\ Nested'
  BY <1>1, <1>2, PutFrame DEF Serve
<1>4. Critical'
  BY <1>1 DEF Critical, Serve, IrqInv
<1>5. QED
  BY <1>1, <1>2, <1>3, <1>4 DEF Serve, IrqInv, IrqType, MaskNow, control, Accounted, HandlersExist

\* What a call through NULL has run comes back.
LEMMA NullStep == IrqInv /\ NullReturns => IrqInv'
<1> SUFFICES ASSUME IrqInv, NullReturns PROVE IrqInv'
  OBVIOUS
<1> DEFINE f == [Top EXCEPT !.at = "scan"]
<1>1. stack # <<>> /\ Top.at = "null" /\ ~pie /\ Top \in Frames /\ pmask = Top.mask
      /\ Top.irq \in Top.mask /\ saved = <<>>
  BY TopFrame DEF NullReturns, IrqInv, MaskNow, Critical
<1>2. f \in Frames /\ f.mask = Top.mask /\ f.irq \in Top.mask /\ f.at = "scan"
  BY <1>1 DEF Frames
<1>3. stack' \in Seq(Frames) /\ stack' # <<>> /\ Top' = f /\ Nested'
  BY <1>1, <1>2, PutFrame DEF NullReturns
<1>4. Critical'
  BY <1>1 DEF Critical, NullReturns, IrqInv
<1>5. QED
  BY <1>1, <1>2, <1>3, <1>4 DEF NullReturns, IrqInv, IrqType, MaskNow, control, Accounted, HandlersExist

\* A handler lets in what is more urgent than itself ...
LEMMA OpenStep == ASSUME IrqInv, NEW i \in Irqs, alt_irq_interruptible(i) PROVE IrqInv'
<1> DEFINE f == [Top EXCEPT !.at = "open", !.mask = pmask]
<1>1. stack # <<>> /\ Top.at = "run" /\ Top.irq = i /\ Top \in Frames /\ pmask = Top.mask
      /\ Top.irq \in Top.mask /\ saved = <<>>
  BY TopFrame DEF alt_irq_interruptible, Running, IrqInv, MaskNow, Critical
<1>2. f \in Frames /\ f.mask = Top.mask /\ f.irq \in Top.mask /\ f.irq = i /\ f.at = "open"
  BY <1>1 DEF Frames
<1>3. stack' \in Seq(Frames) /\ stack' # <<>> /\ Top' = f /\ Nested'
  BY <1>1, <1>2, PutFrame DEF alt_irq_interruptible
<1>4. Critical'
  BY <1>1 DEF Critical, alt_irq_interruptible, IrqInv
<1>5. 0..i - 1 \subseteq Irqs
  BY NIrqAssumption DEF Irqs
<1>6. QED
  BY <1>1, <1>2, <1>3, <1>4, <1>5 DEF alt_irq_interruptible, IrqInv, IrqType, MaskNow,
     Accounted, HandlersExist

\* ... and shuts it out again.
LEMMA ShutStep == IrqInv /\ alt_irq_non_interruptible => IrqInv'
<1> SUFFICES ASSUME IrqInv, alt_irq_non_interruptible PROVE IrqInv'
  OBVIOUS
<1> DEFINE f == [Top EXCEPT !.at = "run"]
<1>1. stack # <<>> /\ Top \in Frames /\ Top.irq \in Top.mask /\ saved = <<>>
  BY TopFrame DEF alt_irq_non_interruptible, IrqInv, Critical
<1>2. f \in Frames /\ f.mask = Top.mask /\ f.irq \in Top.mask /\ f.at = "run"
  BY <1>1 DEF Frames
<1>3. stack' \in Seq(Frames) /\ stack' # <<>> /\ Top' = f /\ Nested'
  BY <1>1, <1>2, PutFrame DEF alt_irq_non_interruptible
<1>4. Critical'
  BY <1>1 DEF Critical, alt_irq_non_interruptible, IrqInv
<1>5. Top.mask \subseteq Irqs
  BY <1>1 DEF Frames
<1>6. QED
  BY <1>1, <1>2, <1>3, <1>4, <1>5 DEF alt_irq_non_interruptible, IrqInv, IrqType, MaskNow,
     Accounted, HandlersExist

\* Only the outermost critical section found interrupts on.
LEMMA DisableStep == IrqInv /\ alt_irq_disable_all => IrqInv'
<1> SUFFICES ASSUME IrqInv, alt_irq_disable_all PROVE IrqInv'
  OBVIOUS
<1>1. saved \in Seq(BOOLEAN) /\ pie \in BOOLEAN /\ Len(saved) \in Nat
      /\ (Len(saved) # 0 => saved # <<>>)
  BY EmptySeq, LenProperties DEF IrqInv, IrqType
<1>2. /\ saved' \in Seq(BOOLEAN) /\ Len(saved') = Len(saved) + 1
      /\ \A i \in 1..Len(saved) : saved'[i] = saved[i]
      /\ saved'[Len(saved) + 1] = pie
  BY <1>1, AppendProperties DEF alt_irq_disable_all
<1>3. Len(saved) # 0 => pie = FALSE
  BY <1>1 DEF IrqInv, Critical
<1>4. \A k \in 2..Len(saved') : saved'[k] = FALSE
  BY <1>1, <1>2, <1>3 DEF IrqInv, Critical
<1>5. Critical'
  BY <1>4 DEF Critical, alt_irq_disable_all, Thread
<1>6. MaskNow' = MaskNow /\ Nested'
  BY DEF alt_irq_disable_all, MaskNow, Nested, MaskAt, Top, IrqInv
<1>7. QED
  BY <1>2, <1>5, <1>6 DEF alt_irq_disable_all, IrqInv, IrqType, control, Thread,
     Accounted, HandlersExist, Top

LEMMA EnableStep == IrqInv /\ alt_irq_enable_all => IrqInv'
<1> SUFFICES ASSUME IrqInv, alt_irq_enable_all PROVE IrqInv'
  OBVIOUS
<1>1. saved \in Seq(BOOLEAN) /\ Len(saved) \in Nat \ {0}
  BY EmptySeq DEF IrqInv, IrqType, alt_irq_enable_all
<1>2. \A i \in 1..Len(saved) - 1 : saved[i] \in BOOLEAN
  BY <1>1, ElementOfSeq
<1>3. /\ saved' \in Seq(BOOLEAN)
      /\ Len(saved') = IF 1 <= Len(saved) - 1 THEN Len(saved) - 1 - 1 + 1 ELSE 0
      /\ \A i \in 1..Len(saved) - 1 - 1 + 1 : saved'[i] = saved[1 + i - 1]
  BY <1>1, <1>2, SubSeqProperties DEF alt_irq_enable_all
<1>4. Len(saved') = Len(saved) - 1
  <2>1. \A n \in Nat \ {0} : (IF 1 <= n - 1 THEN n - 1 - 1 + 1 ELSE 0) = n - 1
    OBVIOUS
  <2>2. QED
    BY <1>1, <1>3, <2>1
<1>5. ASSUME NEW i \in 1..Len(saved) - 1
      PROVE  saved'[i] = saved[i]
  <2>1. i \in 1..Len(saved) - 1 - 1 + 1 /\ 1 + i - 1 = i
    BY <1>1, <1>5
  <2>2. QED
    BY <1>3, <2>1
<1>6. \A k \in 2..Len(saved') : saved'[k] = FALSE
  BY <1>1, <1>4, <1>5 DEF IrqInv, Critical
<1>7. saved' # <<>> => Len(saved) # 1
  BY <1>3, <1>4, EmptySeq
<1>8. saved' # <<>> => pie' = FALSE
  BY <1>1, <1>7 DEF IrqInv, Critical, alt_irq_enable_all
<1>9. Critical'
  BY <1>6, <1>8 DEF Critical, alt_irq_enable_all, Thread
<1>10. pie' \in BOOLEAN
  BY <1>1, ElementOfSeq DEF alt_irq_enable_all
<1>11. MaskNow' = MaskNow /\ Nested'
  BY DEF alt_irq_enable_all, MaskNow, Nested, MaskAt, Top, IrqInv
<1>12. QED
  BY <1>3, <1>9, <1>10, <1>11 DEF alt_irq_enable_all, IrqInv, IrqType, control, Thread,
     Accounted, HandlersExist, Top

\* Lines are registered and enabled where no mask is in force, so writing alt_irq_active
\* whole to the control register loses none.
LEMMA ConfigureStep == ASSUME IrqInv, NEW i \in Irqs, Configure(i) PROVE IrqInv'
<1>1. /\ active' = ienable' /\ isr' \subseteq Irqs /\ bare' \subseteq Irqs /\ active' \subseteq Irqs
      /\ active' \subseteq isr' \cup bare' /\ UNCHANGED <<pie, stack, saved, pmask, line>>
  BY DEF Configure, alt_ic_isr_register, alt_ic_irq_enable, alt_ic_irq_disable,
         alt_irq_enable, alt_irq_disable, SetActive, IrqInv, IrqType, Accounted, cpu
<1>2. pmask = Irqs
  <2>1. CASE Thread
    BY <2>1 DEF Thread, IrqInv, MaskNow
  <2>2. CASE Len(stack) = 1 /\ Top.at = "run"
    <3>1. stack # <<>>
      BY <2>2, EmptySeq
    <3>2. Top.mask = MaskAt(stack, 1)
      BY <2>2, <3>1, TopFrame
    <3>3. QED
      BY <2>2, <3>1, <3>2 DEF IrqInv, MaskNow, MaskAt
  <2>3. QED
    BY <2>1, <2>2 DEF Configure
<1>3. MaskNow' = MaskNow /\ Nested' /\ Critical'
  BY <1>1 DEF MaskNow, Nested, MaskAt, Critical, Top, IrqInv
<1>4. (pie /\ stack # <<>> => Top.at = "open")'
  BY <1>1 DEF IrqInv, Top
<1>5. HandlersExist'                         \* the program runs, or a handler that was called
  BY <1>1 DEF Configure, HandlersExist, Thread, Top
<1>6. QED
  BY <1>1, <1>2, <1>3, <1>4, <1>5 DEF IrqInv, IrqType, Accounted

LEMMA SameStep == IrqInv /\ UNCHANGED <<cpu, control>> /\ line' \subseteq Irqs => IrqInv'
<1> SUFFICES ASSUME IrqInv, UNCHANGED <<cpu, control>>, line' \subseteq Irqs PROVE IrqInv'
  OBVIOUS
<1>1. UNCHANGED <<pie, stack, saved, ienable, active, pmask, isr, bare>>
  BY DEF cpu, control
<1>2. MaskNow' = MaskNow /\ Nested' /\ Critical'
  BY <1>1 DEF MaskNow, Nested, MaskAt, Critical, Top, IrqInv
<1>3. (pie /\ stack # <<>> => Top.at = "open")'
  BY <1>1 DEF IrqInv, Top
<1>4. QED
  BY <1>1, <1>2, <1>3 DEF IrqInv, IrqType, Accounted, HandlersExist, Top

LEMMA IrqStep == IrqInv /\ [Next]_vars => IrqInv'
<1> SUFFICES ASSUME IrqInv, [Next]_vars PROVE IrqInv'
  OBVIOUS
<1>1. CASE UNCHANGED irqVars
  BY <1>1, SameStep DEF irqVars, cpu, control, IrqInv, IrqType
<1>2. ASSUME NEW i \in Irqs, Serve(i) PROVE IrqInv'
  BY <1>2, ServeStep
<1>3. ASSUME NEW i \in Irqs, Raise(i) PROVE IrqInv'
  BY <1>3, SameStep DEF Raise, IrqInv, IrqType
<1>4. CASE EndTick
  <2>1. Timer \in Irqs
    BY NIrqAssumption DEF Timer, Irqs
  <2>2. QED
    BY <1>2, <1>4, <2>1 DEF EndTick
<1>5. CASE Interrupts
  BY <1>2, <1>3, <1>5, ConfigureStep, OpenStep, ShutStep, InterruptStep, DispatchStep,
     NullStep, DisableStep, EnableStep DEF Interrupts
<1>6. QED
  BY <1>1, <1>4, <1>5 DEF Next, vars, alt_tick, BeginTick, Walk, Program

------------------------------------------------------------------------------
(* The ring of alarms *)

LEMMA HeadApart == ListHead \notin Alarms /\ Alarms \subseteq Nodes /\ ListHead \in Nodes /\ Idle \notin Nodes
  BY AlarmsAssumption DEF Nodes, ListHead, Idle

\* What alt_llist_insert() and alt_llist_remove() do, field by field.
LEMMA InsertFields ==
  ASSUME NEW s \in AlarmLists, NEW a \in Alarms, NEW t, t = alt_llist_insert(s, a)
  PROVE  /\ t \in AlarmLists
         /\ t.time = s.time /\ t.rollover = s.rollover /\ t.due = s.due /\ t.live = s.live
         /\ \A n \in Nodes : t.next[n] = IF n = ListHead THEN a
                                         ELSE IF n = a THEN s.next[ListHead] ELSE s.next[n]
         /\ \A n \in Nodes : t.prev[n] = IF n = s.next[ListHead] THEN a
                                         ELSE IF n = a THEN ListHead ELSE s.prev[n]
<1> DEFINE nx == [s.next EXCEPT ![a] = s.next[ListHead], ![ListHead] = a]
           pv == [s.prev EXCEPT ![a] = ListHead, ![s.next[ListHead]] = a]
<1>1. /\ s.next \in [Nodes -> Nodes] /\ s.prev \in [Nodes -> Nodes]
      /\ s = [next |-> s.next, prev |-> s.prev, time |-> s.time, rollover |-> s.rollover,
              due |-> s.due, live |-> s.live]
  BY DEF AlarmLists
<1>2. nx \in [Nodes -> Nodes] /\ pv \in [Nodes -> Nodes]
  BY <1>1, HeadApart
<1>3. t = [next |-> nx, prev |-> pv, time |-> s.time, rollover |-> s.rollover,
           due |-> s.due, live |-> s.live]
  BY <1>1 DEF alt_llist_insert
<1>4. /\ \A n \in Nodes : nx[n] = IF n = ListHead THEN a
                                  ELSE IF n = a THEN s.next[ListHead] ELSE s.next[n]
      /\ \A n \in Nodes : pv[n] = IF n = s.next[ListHead] THEN a
                                  ELSE IF n = a THEN ListHead ELSE s.prev[n]
  BY <1>1, HeadApart
<1> HIDE DEF nx, pv
<1>5. QED
  BY <1>2, <1>3, <1>4 DEF AlarmLists

LEMMA RemoveFields ==
  ASSUME NEW s \in AlarmLists, NEW a \in Alarms, NEW t, t = alt_llist_remove(s, a)
  PROVE  /\ t \in AlarmLists
         /\ t.time = s.time /\ t.rollover = s.rollover /\ t.due = s.due /\ t.live = s.live
         /\ \A n \in Nodes : t.next[n] = IF n = a THEN a
                                         ELSE IF n = s.prev[a] THEN s.next[a] ELSE s.next[n]
         /\ \A n \in Nodes : t.prev[n] = IF n = a THEN a
                                         ELSE IF n = s.next[a] THEN s.prev[a] ELSE s.prev[n]
<1> DEFINE nx == [s.next EXCEPT ![s.prev[a]] = s.next[a], ![a] = a]
           pv == [s.prev EXCEPT ![s.next[a]] = s.prev[a], ![a] = a]
<1>1. /\ s.next \in [Nodes -> Nodes] /\ s.prev \in [Nodes -> Nodes]
      /\ s = [next |-> s.next, prev |-> s.prev, time |-> s.time, rollover |-> s.rollover,
              due |-> s.due, live |-> s.live]
  BY DEF AlarmLists
<1>2. nx \in [Nodes -> Nodes] /\ pv \in [Nodes -> Nodes]
  BY <1>1, HeadApart
<1>3. t = [next |-> nx, prev |-> pv, time |-> s.time, rollover |-> s.rollover,
           due |-> s.due, live |-> s.live]
  BY <1>1 DEF alt_llist_remove
<1>4. /\ \A n \in Nodes : nx[n] = IF n = a THEN a
                                  ELSE IF n = s.prev[a] THEN s.next[a] ELSE s.next[n]
      /\ \A n \in Nodes : pv[n] = IF n = a THEN a
                                  ELSE IF n = s.next[a] THEN s.prev[a] ELSE s.prev[n]
  BY <1>1, HeadApart
<1> HIDE DEF nx, pv
<1>5. QED
  BY <1>2, <1>3, <1>4 DEF AlarmLists

\* An alarm that was not on the list is put first.
LEMMA InsertRing ==
  ASSUME NEW s, Ring(s), NEW a \in Alarms \ s.live, NEW t, t \in AlarmLists,
         t.live = s.live \cup {a},
         \A n \in Nodes : t.next[n] = IF n = ListHead THEN a
                                      ELSE IF n = a THEN s.next[ListHead] ELSE s.next[n],
         \A n \in Nodes : t.prev[n] = IF n = s.next[ListHead] THEN a
                                      ELSE IF n = a THEN ListHead ELSE s.prev[n]
  PROVE  Ring(t)
<1>1. /\ s.live \subseteq Alarms /\ s.next \in [Nodes -> Nodes] /\ s.prev \in [Nodes -> Nodes]
      /\ Members(s) \subseteq Nodes /\ Members(t) = Members(s) \cup {a} /\ a \notin Members(s)
      /\ a # ListHead /\ ListHead \in Members(s) /\ a \in Nodes
  BY HeadApart DEF Ring, AlarmLists, Members
<1>2. Linked(s) /\ Detached(s) /\ OneRing(s)
  BY DEF Ring
<1>3. s.next[ListHead] \in Members(s) /\ s.prev[s.next[ListHead]] = ListHead
  BY <1>1, <1>2 DEF Linked
<1>4. Linked(t)
  <2>1. ASSUME NEW n \in Members(t)
        PROVE  /\ t.next[n] \in Members(t) /\ t.prev[n] \in Members(t)
               /\ t.prev[t.next[n]] = n /\ t.next[t.prev[n]] = n
    <3>1. CASE n = a
      BY <1>1, <1>3, <3>1
    <3>2. CASE n = ListHead
      BY <1>1, <1>2, <1>3, <3>2 DEF Linked
    <3>3. CASE n \in Members(s) /\ n # ListHead
      BY <1>1, <1>2, <1>3, <3>3 DEF Linked
    <3>4. QED
      BY <1>1, <3>1, <3>2, <3>3
  <2>2. QED
    BY <2>1 DEF Linked
<1>5. Detached(t)
  BY <1>1, <1>2, <1>3, HeadApart DEF Detached, Members
<1>6. OneRing(t)
  <2>1. ASSUME NEW S \in SUBSET Nodes, Closed(t, S) PROVE t.live \subseteq S
    <3>1. ListHead \in S /\ a \in S
      BY <1>1, <2>1 DEF Closed
    <3>2. s.next[ListHead] \in S
      BY <1>1, <2>1, <3>1 DEF Closed
    <3>3. s.next[a] = a
      BY <1>2 DEF Detached
    <3>4. ASSUME NEW n \in S PROVE s.next[n] \in S
      BY <1>1, <2>1, <3>1, <3>2, <3>3, <3>4 DEF Closed
    <3>5. s.live \subseteq S
      BY <1>2, <3>1, <3>4 DEF OneRing, Closed
    <3>6. QED
      BY <3>1, <3>5
  <2>2. QED
    BY <2>1 DEF OneRing
<1>7. QED
  BY <1>4, <1>5, <1>6 DEF Ring

\* An alarm is taken off the list; one that was not on it stays off it.
LEMMA RemoveRing ==
  ASSUME NEW s, Ring(s), NEW a \in Alarms, NEW t, t \in AlarmLists,
         t.live = s.live \ {a},
         \A n \in Nodes : t.next[n] = IF n = a THEN a
                                      ELSE IF n = s.prev[a] THEN s.next[a] ELSE s.next[n],
         \A n \in Nodes : t.prev[n] = IF n = a THEN a
                                      ELSE IF n = s.next[a] THEN s.prev[a] ELSE s.prev[n]
  PROVE  Ring(t)
<1>1. /\ s.live \subseteq Alarms /\ s.next \in [Nodes -> Nodes] /\ s.prev \in [Nodes -> Nodes]
      /\ Members(s) \subseteq Nodes /\ Members(t) = Members(s) \ {a}
      /\ a # ListHead /\ ListHead \in Members(s) /\ a \in Nodes
  BY HeadApart DEF Ring, AlarmLists, Members
<1>2. Linked(s) /\ Detached(s) /\ OneRing(s)
  BY DEF Ring
<1>3. CASE a \notin s.live
  <2>1. s.next[a] = a /\ s.prev[a] = a /\ Members(t) = Members(s) /\ t.live = s.live
    BY <1>1, <1>2, <1>3 DEF Detached, Members
  <2>2. \A n \in Nodes : t.next[n] = s.next[n] /\ t.prev[n] = s.prev[n]
    BY <2>1
  <2>3. Linked(t)
    BY <1>1, <1>2, <2>1, <2>2 DEF Linked
  <2>4. Detached(t) /\ OneRing(t)
    BY <1>1, <1>2, <2>1, <2>2, HeadApart DEF Detached, OneRing, Closed
  <2>5. QED
    BY <2>3, <2>4 DEF Ring
<1>4. CASE a \in s.live
  <2>1. /\ a \in Members(s) /\ s.next[a] \in Members(s) /\ s.prev[a] \in Members(s)
        /\ s.prev[s.next[a]] = a /\ s.next[s.prev[a]] = a
    BY <1>2, <1>4 DEF Linked, Members
  <2>2. Linked(t)
    <3>1. ASSUME NEW n \in Members(t)
          PROVE  /\ t.next[n] \in Members(t) /\ t.prev[n] \in Members(t)
                 /\ t.prev[t.next[n]] = n /\ t.next[t.prev[n]] = n
      <4>1. /\ n \in Members(s) /\ n # a /\ n \in Nodes
            /\ s.next[n] \in Members(s) /\ s.prev[n] \in Members(s)
            /\ s.prev[s.next[n]] = n /\ s.next[s.prev[n]] = n
        BY <1>1, <1>2, <3>1 DEF Linked
      <4>2. t.next[n] = (IF n = s.prev[a] THEN s.next[a] ELSE s.next[n]) /\ t.next[n] \in Members(t)
        BY <1>1, <2>1, <4>1
      <4>3. t.prev[n] = (IF n = s.next[a] THEN s.prev[a] ELSE s.prev[n]) /\ t.prev[n] \in Members(t)
        BY <1>1, <2>1, <4>1
      <4>4. t.prev[t.next[n]] = n
        BY <1>1, <2>1, <4>1, <4>2
      <4>5. t.next[t.prev[n]] = n
        BY <1>1, <2>1, <4>1, <4>3
      <4>6. QED
        BY <4>2, <4>3, <4>4, <4>5
    <3>2. QED
      BY <3>1 DEF Linked
  <2>3. Detached(t)
    <3>1. ASSUME NEW b \in Alarms \ t.live PROVE t.next[b] = b /\ t.prev[b] = b
      <4>1. CASE b = a
        BY <1>1, <4>1
      <4>2. CASE b # a
        <5>1. b \notin Members(s) /\ s.next[b] = b /\ s.prev[b] = b /\ b \in Nodes
          BY <1>2, <3>1, <4>2, HeadApart DEF Detached, Members
        <5>2. QED
          BY <2>1, <4>2, <5>1
      <4>3. QED
        BY <4>1, <4>2
    <3>2. QED
      BY <3>1 DEF Detached
  <2>4. OneRing(t)
    <3>1. ASSUME NEW S \in SUBSET Nodes, Closed(t, S) PROVE t.live \subseteq S
      <4>1. CASE s.prev[a] \in S
        <5>1. s.next[a] \in S
          BY <1>1, <2>1, <3>1, <4>1 DEF Closed
        <5>2. Closed(s, S \cup {a})
          <6>1. ASSUME NEW n \in S, n # a PROVE s.next[n] \in S \cup {a}
            BY <2>1, <3>1, <6>1 DEF Closed
          <6>2. QED
            BY <1>1, <3>1, <5>1, <6>1 DEF Closed
        <5>3. s.live \subseteq S \cup {a}
          BY <1>1, <1>2, <5>2 DEF OneRing
        <5>4. QED
          BY <5>3
      <4>2. CASE s.prev[a] \notin S
        <5>1. ASSUME NEW n \in S \ {a} PROVE s.next[n] \in S \ {a}
          <6>1. n # s.prev[a] /\ n \in Nodes
            BY <4>2, <5>1
          <6>2. s.next[n] \in S
            BY <3>1, <5>1, <6>1 DEF Closed
          <6>3. s.next[n] # a
            <7>1. CASE n \in Members(s)
              BY <1>2, <6>1, <7>1 DEF Linked
            <7>2. CASE n \notin Members(s)
              <8>1. n \in Alarms \ s.live
                BY <6>1, <7>2 DEF Members, Nodes
              <8>2. QED
                BY <1>2, <5>1, <8>1 DEF Detached
            <7>3. QED
              BY <7>1, <7>2
          <6>4. QED
            BY <6>2, <6>3
        <5>2. Closed(s, S \ {a})
          BY <1>1, <3>1, <5>1 DEF Closed
        <5>3. s.live \subseteq S \ {a}
          BY <1>2, <5>2 DEF OneRing
        <5>4. QED
          BY <1>4, <5>3
      <4>3. QED
        BY <4>1, <4>2
    <3>2. QED
      BY <3>1 DEF OneRing
  <2>5. QED
    BY <2>2, <2>3, <2>4 DEF Ring
<1>5. QED
  BY <1>3, <1>4

------------------------------------------------------------------------------
(* Starting and stopping alarms *)

LEMMA PlusOver ==
  ASSUME NEW x \in 0..W - 1, NEW y \in 0..W - 1
  PROVE  Plus(x, y) \in 0..W - 1 /\ Plus(x, y) = (IF x + y < W THEN x + y ELSE x + y - W)
<1>1. W \in Nat /\ W > 1
  BY WAssumption
<1>2. QED
  BY <1>1 DEF Plus

\* An alarm that is started is on time, whether or not its time wraps.
LEMMA StartFields ==
  ASSUME nticks \in 0..W - 1, NEW s \in AlarmLists, NEW a \in Alarms, NEW n \in Periods,
         NEW t, t = alt_alarm_start(s, a, n)
  PROVE  /\ t \in AlarmLists /\ t.live = s.live \cup {a} /\ Done(t, a, nticks)
         /\ \A b \in Alarms \ {a} : /\ t.time[b] = s.time[b] /\ t.due[b] = s.due[b]
                                    /\ t.rollover[b] = s.rollover[b]
         /\ \A m \in Nodes : t.next[m] = IF m = ListHead THEN a
                                         ELSE IF m = a THEN s.next[ListHead] ELSE s.next[m]
         /\ \A m \in Nodes : t.prev[m] = IF m = s.next[ListHead] THEN a
                                         ELSE IF m = a THEN ListHead ELSE s.prev[m]
<1> DEFINE v == Plus(n + 1, nticks)
           w == Wraps(v)
           d == n + 1
           l == s.live \cup {a}
           r == [s EXCEPT !.time[a] = v, !.rollover[a] = w, !.due[a] = d, !.live = l]
<1>1. d \in 0..W - 1 /\ d \in 1..W - 1 /\ d \in Int
  BY WAssumption, PeriodsAssumption
<1>2. v \in 0..W - 1 /\ v = Plus(nticks, d) /\ w \in BOOLEAN /\ (w <=> nticks + d >= W)
  <2>1. v \in 0..W - 1 /\ v = IF d + nticks < W THEN d + nticks ELSE d + nticks - W
    BY <1>1, PlusOver
  <2>2. Plus(nticks, d) = IF nticks + d < W THEN nticks + d ELSE nticks + d - W
    BY <1>1, PlusOver
  <2> HIDE DEF v, d
  <2>3. v = Plus(nticks, d)
    <3>1. d + nticks = nticks + d
      BY <1>1
    <3>2. Plus(d, nticks) = Plus(nticks, d)
      BY <3>1, Zenon DEF Plus
    <3>3. QED
      BY <3>2 DEF v, d
  <2>4. v < nticks <=> nticks + d >= W
    BY <1>1, <2>1, WAssumption
  <2>5. QED
    BY <2>1, <2>3, <2>4 DEF Wraps
<1>3. t = alt_llist_insert(r, a)
  BY DEF alt_alarm_start
<1>4. /\ s.time \in [Alarms -> 0..W - 1] /\ s.rollover \in [Alarms -> BOOLEAN]
      /\ s.due \in [Alarms -> Int] /\ l \subseteq Alarms
  BY DEF AlarmLists
<1> HIDE DEF v, w, d, l
<1>5. /\ r.time = [s.time EXCEPT ![a] = v] /\ r.rollover = [s.rollover EXCEPT ![a] = w]
      /\ r.due = [s.due EXCEPT ![a] = d] /\ r.live = l /\ r.next = s.next /\ r.prev = s.prev
  BY DEF AlarmLists
<1>6. r \in AlarmLists
  BY <1>1, <1>2, <1>4 DEF AlarmLists
<1> HIDE DEF r
<1>7. /\ r.time[a] = v /\ r.rollover[a] = w /\ r.due[a] = d
      /\ \A b \in Alarms \ {a} : /\ r.time[b] = s.time[b] /\ r.due[b] = s.due[b]
                                 /\ r.rollover[b] = s.rollover[b]
  BY <1>4, <1>5
<1>8. /\ t \in AlarmLists /\ t.live = l
      /\ t.time = r.time /\ t.rollover = r.rollover /\ t.due = r.due
  BY <1>3, <1>5, <1>6, InsertFields
<1>9. Done(t, a, nticks)
  BY <1>1, <1>2, <1>7, <1>8 DEF Done
<1>10. /\ \A m \in Nodes : t.next[m] = IF m = ListHead THEN a
                                       ELSE IF m = a THEN s.next[ListHead] ELSE s.next[m]
       /\ \A m \in Nodes : t.prev[m] = IF m = s.next[ListHead] THEN a
                                       ELSE IF m = a THEN ListHead ELSE s.prev[m]
  BY <1>3, <1>5, <1>6, InsertFields
<1>11. QED
  BY <1>7, <1>8, <1>9, <1>10 DEF l

LEMMA StopFields ==
  ASSUME NEW s \in AlarmLists, NEW a \in Alarms, NEW t, t = alt_alarm_stop(s, a)
  PROVE  /\ t \in AlarmLists /\ t.live = s.live \ {a}
         /\ t.time = s.time /\ t.rollover = s.rollover /\ t.due = s.due
         /\ \A n \in Nodes : t.next[n] = IF n = a THEN a
                                         ELSE IF n = s.prev[a] THEN s.next[a] ELSE s.next[n]
         /\ \A n \in Nodes : t.prev[n] = IF n = a THEN a
                                         ELSE IF n = s.next[a] THEN s.prev[a] ELSE s.prev[n]
<1> DEFINE r == [next |-> s.next, prev |-> s.prev, time |-> s.time, rollover |-> s.rollover,
                 due |-> s.due, live |-> s.live \ {a}]
<1>1. s = [next |-> s.next, prev |-> s.prev, time |-> s.time, rollover |-> s.rollover,
           due |-> s.due, live |-> s.live]
  BY DEF AlarmLists
<1>2. r \in AlarmLists
  BY DEF AlarmLists
<1>3. t = alt_llist_remove(r, a)
  BY <1>1 DEF alt_alarm_stop
<1>4. /\ r.time = s.time /\ r.rollover = s.rollover /\ r.due = s.due /\ r.live = s.live \ {a}
      /\ r.next = s.next /\ r.prev = s.prev
  OBVIOUS
<1> HIDE DEF r
<1>5. QED
  BY <1>2, <1>3, <1>4, RemoveFields

LEMMA StartRing ==
  ASSUME nticks \in 0..W - 1, NEW s, Ring(s), NEW a \in Alarms \ s.live, NEW n \in Periods
  PROVE  Ring(alt_alarm_start(s, a, n))
<1> DEFINE t == alt_alarm_start(s, a, n)
<1>1. s \in AlarmLists /\ a \in Alarms
  BY DEF Ring
<1>2. t = alt_alarm_start(s, a, n)
  OBVIOUS
<1> HIDE DEF t
<1>3. QED
  BY <1>1, <1>2, StartFields, InsertRing

LEMMA StopRing ==
  ASSUME NEW s, Ring(s), NEW a \in Alarms
  PROVE  Ring(alt_alarm_stop(s, a))
<1> DEFINE t == alt_alarm_stop(s, a)
<1>1. s \in AlarmLists
  BY DEF Ring
<1>2. t = alt_alarm_stop(s, a)
  OBVIOUS
<1> HIDE DEF t
<1>3. QED
  BY <1>1, <1>2, StopFields, RemoveRing

\* A callback leaves a ring, whatever it starts and stops.
LEMMA StoppedRing ==
  ASSUME NEW s, Ring(s), NEW a \in Alarms, NEW t \in Stopped(s, a)
  PROVE  Ring(t)
<1>1. CASE t = s
  BY <1>1
<1>2. CASE t # s
  <2>1. PICK b \in (IF StopsAny THEN s.live ELSE {a}) : t = alt_alarm_stop(s, b)
    BY <1>2 DEF Stopped
  <2>2. b \in Alarms
    BY <2>1 DEF Ring, AlarmLists
  <2>3. QED
    BY <2>1, <2>2, StopRing
<1>3. QED
  BY <1>1, <1>2

LEMMA EffectsAre ==
  ASSUME NEW s, NEW a, NEW e \in Effects(s, a)
  PROVE  \E t \in Stopped(s, a) :
           \/ e = t
           \/ \E b \in Alarms \ (t.live \cup {a}), n \in Periods : e = alt_alarm_start(t, b, n)
<1>1. CASE e \in Stopped(s, a)
  BY <1>1
<1>2. CASE e \notin Stopped(s, a)
  <2>1. PICK t \in Stopped(s, a) : e \in Started(t, a)
    BY <1>2 DEF Effects
  <2>2. PICK b \in Alarms \ (t.live \cup {a}), n \in Periods : e = alt_alarm_start(t, b, n)
    BY <2>1 DEF Started
  <2>3. QED
    BY <2>2
<1>3. QED
  BY <1>1, <1>2

LEMMA EffectsRing ==
  ASSUME nticks \in 0..W - 1, NEW s, Ring(s), NEW a \in Alarms, NEW e \in Effects(s, a)
  PROVE  Ring(e)
<1>1. PICK t \in Stopped(s, a) :
        \/ e = t
        \/ \E b \in Alarms \ (t.live \cup {a}), n \in Periods : e = alt_alarm_start(t, b, n)
  BY EffectsAre
<1>2. Ring(t)
  BY StoppedRing
<1>3. CASE e = t
  BY <1>2, <1>3
<1>4. ASSUME NEW b \in Alarms \ (t.live \cup {a}), NEW n \in Periods, e = alt_alarm_start(t, b, n)
      PROVE  Ring(e)
  BY <1>2, <1>4, StartRing
<1>5. QED
  BY <1>1, <1>3, <1>4

\* A flag that is taken down, a period that is added: the list itself stays as it is.
LEMMA UnrolledFields ==
  ASSUME nticks \in 0..W - 1, NEW s \in AlarmLists, NEW a \in Alarms, NEW t, t = Unrolled(s, a)
  PROVE  /\ t \in AlarmLists
         /\ t.next = s.next /\ t.prev = s.prev /\ t.live = s.live /\ t.time = s.time /\ t.due = s.due
         /\ \A b \in Alarms : t.rollover[b] = IF b = a /\ nticks = 0 THEN FALSE ELSE s.rollover[b]
<1> DEFINE ro == [s.rollover EXCEPT ![a] = FALSE]
<1>1. s = [next |-> s.next, prev |-> s.prev, time |-> s.time, rollover |-> s.rollover,
           due |-> s.due, live |-> s.live] /\ s.rollover \in [Alarms -> BOOLEAN]
  BY DEF AlarmLists
<1>2. ro \in [Alarms -> BOOLEAN] /\ \A b \in Alarms : ro[b] = IF b = a THEN FALSE ELSE s.rollover[b]
  BY <1>1
<1>3. CASE nticks = 0
  <2>1. t = [next |-> s.next, prev |-> s.prev, time |-> s.time, rollover |-> ro,
             due |-> s.due, live |-> s.live]
    BY <1>1, <1>3 DEF Unrolled
  <2> HIDE DEF ro
  <2>2. t \in AlarmLists
    BY <1>2, <2>1 DEF AlarmLists
  <2>3. t.rollover = ro
    BY <2>1
  <2>4. ASSUME NEW b \in Alarms
        PROVE  t.rollover[b] = IF b = a /\ nticks = 0 THEN FALSE ELSE s.rollover[b]
    <3>1. t.rollover[b] = IF b = a THEN FALSE ELSE s.rollover[b]
      BY <1>2, <2>3
    <3>2. QED
      BY <1>3, <3>1, Zenon
  <2>5. /\ t.next = s.next /\ t.prev = s.prev /\ t.live = s.live
        /\ t.time = s.time /\ t.due = s.due
    BY <2>1
  <2>6. QED
    BY <2>2, <2>4, <2>5, Zenon
<1>4. CASE nticks # 0
  BY <1>4 DEF Unrolled
<1>5. QED
  BY <1>3, <1>4

LEMMA UnrolledOther ==
  ASSUME nticks \in 0..W - 1, NEW s \in AlarmLists, NEW a \in Alarms, NEW t, t = Unrolled(s, a),
         NEW b \in Alarms, b # a
  PROVE  t.rollover[b] = s.rollover[b]
<1>1. t.rollover[b] = IF b = a /\ nticks = 0 THEN FALSE ELSE s.rollover[b]
  BY UnrolledFields
<1>2. QED
  BY <1>1, Zenon

LEMMA RearmFields ==
  ASSUME nticks \in 0..W - 1, NEW s \in AlarmLists, NEW a \in Alarms,
         NEW period \in Periods, period # 0, NEW t, t = Rearm(s, a, period)
  PROVE  /\ t \in AlarmLists
         /\ t.next = s.next /\ t.prev = s.prev /\ t.live = s.live
         /\ \A b \in Alarms \ {a} : /\ t.time[b] = s.time[b] /\ t.due[b] = s.due[b]
                                    /\ t.rollover[b] = s.rollover[b]
         /\ t.due[a] = period /\ t.time[a] = Plus(s.time[a], period)
         /\ t.rollover[a] <=> s.rollover[a] \/ Wraps(t.time[a])
<1> DEFINE v == Plus(s.time[a], period)
           tm == [s.time EXCEPT ![a] = v]
           ro == [s.rollover EXCEPT ![a] = s.rollover[a] \/ Wraps(v)]
           du == [s.due EXCEPT ![a] = period]
<1>1. /\ s = [next |-> s.next, prev |-> s.prev, time |-> s.time, rollover |-> s.rollover,
              due |-> s.due, live |-> s.live]
      /\ s.rollover \in [Alarms -> BOOLEAN] /\ s.time \in [Alarms -> 0..W - 1]
      /\ s.due \in [Alarms -> Int]
  BY DEF AlarmLists
<1>2. period \in 0..W - 1 /\ s.time[a] \in 0..W - 1
  BY <1>1, WAssumption, PeriodsAssumption
<1>3. v \in 0..W - 1 /\ (s.rollover[a] \/ Wraps(v)) \in BOOLEAN
  BY <1>2, PlusOver
<1>4. /\ ro \in [Alarms -> BOOLEAN] /\ tm \in [Alarms -> 0..W - 1] /\ du \in [Alarms -> Int]
      /\ \A b \in Alarms \ {a} : ro[b] = s.rollover[b] /\ tm[b] = s.time[b] /\ du[b] = s.due[b]
      /\ ro[a] = (s.rollover[a] \/ Wraps(v)) /\ tm[a] = v /\ du[a] = period
  BY <1>1, <1>2, <1>3
<1>5. t = [next |-> s.next, prev |-> s.prev, time |-> tm, rollover |-> ro,
           due |-> du, live |-> s.live]
  BY <1>1 DEF Rearm
<1> HIDE DEF tm, ro, du, v
<1>6. t \in AlarmLists
  BY <1>1, <1>4, <1>5 DEF AlarmLists
<1>7. t.rollover[a] = (s.rollover[a] \/ Wraps(v)) /\ t.time[a] = v
  BY <1>4, <1>5
<1>8. QED
  BY <1>4, <1>5, <1>6, <1>7 DEF v

\* The same list, with other times.
LEMMA SameRing ==
  ASSUME NEW s, Ring(s), NEW t \in AlarmLists, t.next = s.next, t.prev = s.prev, t.live = s.live
  PROVE  Ring(t)
  BY DEF Ring, Linked, Detached, OneRing, Closed, Members

------------------------------------------------------------------------------
(* The ring holds *)

LEMMA RearmRing ==
  ASSUME nticks \in 0..W - 1, NEW s, Ring(s), NEW a \in Alarms, NEW period \in Periods
  PROVE  Ring(Rearm(s, a, period))
<1>1. s \in AlarmLists
  BY DEF Ring
<1>2. CASE period = 0
  BY <1>2, StopRing DEF Rearm
<1>3. CASE period # 0
  <2> DEFINE t == Rearm(s, a, period)
  <2>1. t = Rearm(s, a, period)
    OBVIOUS
  <2> HIDE DEF t
  <2>2. t \in AlarmLists /\ t.next = s.next /\ t.prev = s.prev /\ t.live = s.live
    BY <1>1, <1>3, <2>1, RearmFields
  <2>3. QED
    BY <2>1, <2>2, SameRing
<1>4. QED
  BY <1>2, <1>3

LEMMA UnrolledRing ==
  ASSUME nticks \in 0..W - 1, NEW s, Ring(s), NEW a \in Alarms
  PROVE  Ring(Unrolled(s, a))
<1> DEFINE t == Unrolled(s, a)
<1>1. s \in AlarmLists /\ t = Unrolled(s, a)
  BY DEF Ring
<1> HIDE DEF t
<1>2. t \in AlarmLists /\ t.next = s.next /\ t.prev = s.prev /\ t.live = s.live
  BY <1>1, UnrolledFields
<1>3. QED
  BY <1>1, <1>2, SameRing

LEMMA CountFields ==
  ASSUME NEW s \in AlarmLists, NEW t,
         t = [s EXCEPT !.due = [a \in Alarms |-> IF a \in s.live THEN @[a] - 1 ELSE @[a]]]
  PROVE  /\ t \in AlarmLists
         /\ t.next = s.next /\ t.prev = s.prev /\ t.live = s.live
         /\ t.time = s.time /\ t.rollover = s.rollover
         /\ \A a \in s.live : t.due[a] = s.due[a] - 1
<1> DEFINE du == [a \in Alarms |-> IF a \in s.live THEN s.due[a] - 1 ELSE s.due[a]]
<1>1. s.due \in [Alarms -> Int] /\ s.live \subseteq Alarms
  BY DEF AlarmLists
<1>2. du \in [Alarms -> Int] /\ \A a \in s.live : du[a] = s.due[a] - 1
  BY <1>1
<1>3. t = [s EXCEPT !.due = du]
  OBVIOUS
<1> HIDE DEF du
<1>4. QED
  BY <1>2, <1>3 DEF AlarmLists

LEMMA RingInit == Init => RingInv
<1> SUFFICES ASSUME Init PROVE RingInv
  OBVIOUS
<1>1. /\ al.next = [n \in Nodes |-> n] /\ al.prev = [n \in Nodes |-> n]
      /\ al.live = {} /\ al \in AlarmLists /\ nticks \in 0..W - 1
  BY WAssumption DEF Init, AlarmLists
<1>2. Linked(al) /\ Detached(al) /\ OneRing(al)
  BY <1>1, HeadApart DEF Linked, Detached, OneRing, Members
<1>3. QED
  BY <1>1, <1>2 DEF RingInv, Ring

\* One step along the list is one of two things.
LEMMA WalkIs ==
  ASSUME Walk, NEW u, u = Unrolled(al, at)
  PROVE  /\ at \in Alarms /\ at' = al.next[at] /\ nticks' = nticks /\ UNCHANGED irqVars
         /\ Expired(u, at) => \E period \in Periods, e \in Effects(u, at) :
                                al' = Rearm(e, at, period)
         /\ ~Expired(u, at) => al' = u
  BY DEF Walk

LEMMA RingStep == RingInv /\ [Next]_vars => RingInv'
<1> SUFFICES ASSUME RingInv, [Next]_vars PROVE RingInv'
  OBVIOUS
<1>1. nticks \in 0..W - 1 /\ Ring(al) /\ al \in AlarmLists
  BY DEF RingInv, Ring
<1>2. CASE nticks' = nticks /\ al' = al
  BY <1>1, <1>2 DEF RingInv
<1>3. CASE BeginTick
  <2>1. nticks' \in 0..W - 1
    BY <1>1, <1>3, WAssumption, PlusOver DEF BeginTick
  <2>2. Ring(al')
    BY <1>1, <1>3, CountFields, SameRing DEF BeginTick
  <2>3. QED
    BY <2>1, <2>2 DEF RingInv
<1>4. CASE Walk
  <2> DEFINE u == Unrolled(al, at)
  <2>1. u = Unrolled(al, at)
    OBVIOUS
  <2> HIDE DEF u
  <2>2. at \in Alarms /\ nticks' = nticks
    BY <1>4, <2>1, WalkIs
  <2>3. Ring(u)
    BY <1>1, <2>1, <2>2, UnrolledRing
  <2>4. CASE Expired(u, at)
    <3>1. PICK period \in Periods, e \in Effects(u, at) : al' = Rearm(e, at, period)
      BY <1>4, <2>1, <2>4, WalkIs
    <3>2. Ring(e)
      BY <1>1, <2>2, <2>3, EffectsRing
    <3>3. QED
      BY <1>1, <2>2, <3>1, <3>2, RearmRing DEF RingInv
  <2>5. CASE ~Expired(u, at)
    BY <1>1, <1>4, <2>1, <2>2, <2>3, <2>5, WalkIs DEF RingInv
  <2>6. QED
    BY <2>4, <2>5
<1>5. CASE Program
  <2>1. PICK a \in Alarms : Start(a) \/ Stop(a)
    BY <1>5 DEF Program
  <2>2. nticks' = nticks
    BY <1>5 DEF Program
  <2>3. CASE Start(a)
    BY <1>1, <2>2, <2>3, StartRing DEF Start, RingInv
  <2>4. CASE Stop(a)
    BY <1>1, <2>2, <2>4, StopRing DEF Stop, RingInv
  <2>5. QED
    BY <2>1, <2>3, <2>4
<1>6. QED
  BY <1>2, <1>3, <1>4, <1>5 DEF Next, alt_tick, EndTick, Interrupts, vars

------------------------------------------------------------------------------
(* Following next from the head *)

N == Cardinality(Alarms)

LEMMA CountAlarms == N \in Nat /\ IsFiniteSet(Nodes) /\ Cardinality(Nodes) = N + 1
<1>1. IsFiniteSet(Alarms) /\ ListHead \notin Alarms
  BY AlarmsAssumption DEF ListHead
<1>2. QED
  BY <1>1, FS_CardinalityType, FS_AddElement DEF N, Nodes

Follows(g, m) == \A k \in 0..m : g[k] = IF k = 0 THEN al.next[ListHead] ELSE al.next[g[k - 1]]

\* The recursion of Nth has a solution.
LEMMA NthExists ==
  ASSUME Ring(al)
  PROVE  \A m \in Nat : \E g \in [0..m -> Nodes] : Follows(g, m)
<1> DEFINE S == {m \in Nat : \E g \in [0..m -> Nodes] : Follows(g, m)}
<1>1. al.next \in [Nodes -> Nodes] /\ ListHead \in Nodes
  BY HeadApart DEF Ring, AlarmLists
<1>2. 0 \in S
  <2> DEFINE g == [k \in 0..0 |-> al.next[ListHead]]
  <2>1. g \in [0..0 -> Nodes] /\ Follows(g, 0)
    BY <1>1 DEF Follows
  <2>2. QED
    BY <2>1
<1>3. ASSUME NEW m \in Nat, m \in S PROVE m + 1 \in S
  <2>1. PICK g \in [0..m -> Nodes] : Follows(g, m)
    BY <1>3
  <2> DEFINE h == [k \in 0..m + 1 |-> IF k = m + 1 THEN al.next[g[m]] ELSE g[k]]
  <2>2. /\ h \in [0..m + 1 -> Nodes] /\ h[m + 1] = al.next[g[m]]
        /\ \A k \in 0..m : h[k] = g[k]
    BY <1>1, <2>1
  <2> HIDE DEF h
  <2>3. ASSUME NEW k \in 0..m + 1
        PROVE  h[k] = IF k = 0 THEN al.next[ListHead] ELSE al.next[h[k - 1]]
    <3>1. CASE k = m + 1
      BY <2>2, <3>1
    <3>2. CASE k = 0
      BY <2>1, <2>2, <3>2 DEF Follows
    <3>3. CASE k # m + 1 /\ k # 0
      <4>1. k \in 0..m /\ k - 1 \in 0..m
        BY <3>3
      <4>2. QED
        BY <2>1, <2>2, <3>3, <4>1 DEF Follows
    <3>4. QED
      BY <3>1, <3>2, <3>3
  <2>4. Follows(h, m + 1)
    BY <2>3 DEF Follows
  <2>5. QED
    BY <2>2, <2>4
<1> HIDE DEF S
<1>4. \A m \in Nat : m \in S
  BY <1>2, <1>3, AllNumbers
<1>5. QED
  BY <1>4 DEF S

LEMMA NthIs == Ring(al) => Follows(Nth, N)
<1> SUFFICES ASSUME Ring(al) PROVE Follows(Nth, N)
  OBVIOUS
<1>1. PICK g \in [0..N -> Nodes] : Follows(g, N)
  BY NthExists, CountAlarms
<1>2. g = [k \in 0..N |-> IF k = 0 THEN al.next[ListHead] ELSE al.next[g[k - 1]]]
  BY <1>1 DEF Follows
<1>3. Nth = [k \in 0..N |-> IF k = 0 THEN al.next[ListHead] ELSE al.next[Nth[k - 1]]]
  BY <1>2, Zenon DEF Nth, N
<1>4. QED
  BY <1>3, Zenon DEF Follows

\* What is reached is the list: after at most N + 1 steps next leads back to the head.
LEMMA ReachedIsLive == Ring(al) => Reached = al.live
<1> SUFFICES ASSUME Ring(al) PROVE Reached = al.live
  OBVIOUS
<1>1. Follows(Nth, N) /\ N \in Nat
  BY NthIs, CountAlarms
<1>2. /\ al.next \in [Nodes -> Nodes] /\ Members(al) \subseteq Nodes /\ ListHead \in Members(al)
      /\ ListHead \notin al.live /\ al.live \subseteq Alarms
      /\ \A n \in Members(al) : al.next[n] \in Members(al)
  BY HeadApart DEF Ring, AlarmLists, Linked, Members
<1>3. \A k \in 0..N : Nth[k] \in Members(al)
  <2> DEFINE S == {k \in Nat : k \in 0..N => Nth[k] \in Members(al)}
  <2>1. 0 \in S
    BY <1>1, <1>2 DEF Follows
  <2>2. ASSUME NEW k \in Nat, k \in S PROVE k + 1 \in S
    <3>1. CASE k + 1 \in 0..N
      <4>1. k \in 0..N /\ k + 1 # 0 /\ (k + 1) - 1 = k
        BY <1>1, <3>1
      <4>2. Nth[k] \in Members(al)
        BY <2>2, <4>1
      <4>3. Nth[k + 1] = al.next[Nth[k]]
        BY <1>1, <3>1, <4>1 DEF Follows
      <4>4. QED
        BY <1>2, <4>2, <4>3
    <3>2. QED
      BY <3>1
  <2> HIDE DEF S
  <2>3. \A k \in Nat : k \in S
    BY <2>1, <2>2, AllNumbers
  <2>4. QED
    BY <1>1, <2>3 DEF S
<1>4. al.live \subseteq Reached
  <2> DEFINE h == [k \in 0..N + 1 |-> IF k = N + 1 THEN al.next[Nth[N]] ELSE Nth[k]]
  <2>1. /\ h \in [0..N + 1 -> Nodes] /\ \A k \in 0..N : h[k] = Nth[k]
        /\ \A k \in 0..N : h[k + 1] = al.next[h[k]]
    <3>1. h \in [0..N + 1 -> Nodes]
      BY <1>1, <1>2, <1>3
    <3>2. h[N + 1] = al.next[Nth[N]] /\ \A k \in 0..N : h[k] = Nth[k]
      BY <1>1
    <3> HIDE DEF h
    <3>3. ASSUME NEW k \in 0..N PROVE h[k + 1] = al.next[h[k]]
      <4>1. CASE k = N
        BY <1>1, <3>2, <4>1
      <4>2. CASE k # N
        <5>1. k + 1 \in 0..N /\ k + 1 # 0 /\ (k + 1) - 1 = k
          BY <1>1, <4>2
        <5>2. QED
          BY <1>1, <3>2, <5>1 DEF Follows
      <4>3. QED
        BY <4>1, <4>2
    <3>4. QED
      BY <3>1, <3>2, <3>3
  <2> HIDE DEF h
  <2>2. PICK i, j \in 0..N + 1 : i < j /\ h[i] = h[j]
    <3>1. IsFiniteSet(0..N + 1) /\ Cardinality(0..N + 1) = N + 2
      BY <1>1, FS_Interval
    <3>2. PICK x, y \in 0..N + 1 : x # y /\ h[x] = h[y]
      BY <1>1, <2>1, <3>1, CountAlarms, FS_PigeonHole
    <3>3. x < y \/ y < x
      BY <1>1, <3>2
    <3>4. QED
      BY <3>2, <3>3
  <2> DEFINE S == {h[k] : k \in 0..j - 1} \cup {ListHead}
  <2>3. ASSUME NEW n \in S PROVE al.next[n] \in S
    <3>1. CASE n = ListHead
      <4>1. h[0] = al.next[ListHead] /\ 0 \in 0..j - 1
        BY <1>1, <2>1, <2>2 DEF Follows
      <4>2. QED
        BY <3>1, <4>1
    <3>2. CASE n # ListHead
      <4>1. PICK k \in 0..j - 1 : n = h[k]
        BY <2>3, <3>2
      <4>2. k \in 0..N /\ al.next[n] = h[k + 1]
        BY <1>1, <2>1, <2>2, <4>1
      <4>3. CASE k = j - 1
        <5>1. al.next[n] = h[i] /\ i \in 0..j - 1
          BY <2>2, <4>2, <4>3
        <5>2. QED
          BY <5>1
      <4>4. CASE k # j - 1
        <5>1. k + 1 \in 0..j - 1
          BY <4>1, <4>4
        <5>2. QED
          BY <4>2, <5>1
      <4>5. QED
        BY <4>3, <4>4
    <3>3. QED
      BY <3>1, <3>2
  <2>4. S \in SUBSET Nodes
    <3>1. \A k \in 0..j - 1 : h[k] \in Nodes
      BY <1>1, <2>1, <2>2
    <3>2. QED
      BY <1>2, <3>1
  <2>5. Closed(al, S)
    BY <2>3 DEF Closed
  <2>6. al.live \subseteq S
    BY <2>4, <2>5 DEF Ring, OneRing
  <2>7. ASSUME NEW a \in al.live PROVE a \in Reached
    <3>1. PICK k \in 0..j - 1 : a = h[k]
      BY <1>2, <2>6, <2>7
    <3>2. k \in 0..N /\ a = Nth[k]
      BY <1>1, <2>1, <2>2, <3>1
    <3>3. QED
      BY <1>2, <2>7, <3>2 DEF Reached, N
  <2>8. QED
    BY <2>7
<1>5. Reached \subseteq al.live
  BY <1>3 DEF Reached, N, Members
<1>6. QED
  BY <1>4, <1>5

------------------------------------------------------------------------------
(* The walk of alt_tick() *)

\* The walk goes on to the next alarm; the one it leaves is visited.
LEMMA SegmentNext ==
  ASSUME NEW s, Ring(s), NEW A, NEW a, a # ListHead, Segment(s, A, a)
  PROVE  Segment(s, A \ {a}, s.next[a])
<1> DEFINE B == A \ {a}
           n == s.next[a]
<1>1. /\ A \subseteq s.live /\ a \in A /\ s.prev[a] \notin A
      /\ \A c \in A : s.next[c] \in A \cup {ListHead} /\ (c # a => s.prev[c] \in A)
  BY DEF Segment
<1>2. /\ \A c \in Members(s) : /\ s.prev[s.next[c]] = c /\ s.next[s.prev[c]] = c
                               /\ s.next[c] \in Members(s) /\ s.prev[c] \in Members(s)
      /\ s.live \subseteq Members(s) /\ Members(s) \subseteq Nodes /\ ListHead \notin s.live
      /\ ListHead \in Members(s)
  BY HeadApart DEF Ring, Linked, Members, AlarmLists
<1>3. n # a /\ s.prev[n] = a /\ (n # ListHead => n \in B)
  BY <1>1, <1>2
<1>4. ASSUME NEW c \in B
      PROVE  s.next[c] \in B \cup {ListHead} /\ (c # n => s.prev[c] \in B)
  BY <1>1, <1>2
<1>5. n = ListHead => B = {}
  <2> SUFFICES ASSUME n = ListHead PROVE B = {}
    OBVIOUS
  <2> DEFINE S == Members(s) \ B
  <2>1. ListHead \in S
    BY <1>1, <1>2
  <2>2. ASSUME NEW m \in S PROVE s.next[m] \in S
    <3>1. m \in Members(s) /\ s.next[m] \in Members(s) /\ s.prev[s.next[m]] = m
      BY <1>2
    <3>2. s.next[m] \in B => m \in B
      <4>1. s.next[m] \in B => s.next[m] # n
        BY <1>1, <1>2
      <4>2. QED
        BY <1>4, <3>1, <4>1
    <3>3. QED
      BY <3>1, <3>2
  <2>3. s.live \subseteq S
    BY <1>2, <2>1, <2>2 DEF Ring, OneRing, Closed
  <2>4. QED
    BY <1>1, <2>3
<1>6. QED
  BY <1>1, <1>3, <1>4, <1>5 DEF Segment

\* A tick begins with all of the list before it.
LEMMA SegmentAll ==
  ASSUME NEW s, Ring(s)
  PROVE  Segment(s, s.live, s.next[ListHead]) /\ s.next[ListHead] \in Nodes
<1>1. /\ \A c \in Members(s) : /\ s.prev[s.next[c]] = c /\ s.next[s.prev[c]] = c
                               /\ s.next[c] \in Members(s) /\ s.prev[c] \in Members(s)
      /\ Members(s) = s.live \cup {ListHead} /\ Members(s) \subseteq Nodes
      /\ ListHead \notin s.live
  BY HeadApart DEF Ring, Linked, Members, AlarmLists
<1>2. s.next[ListHead] = ListHead => s.live = {}
  <2> SUFFICES ASSUME s.next[ListHead] = ListHead PROVE s.live = {}
    OBVIOUS
  <2>1. Closed(s, {ListHead}) /\ {ListHead} \in SUBSET Nodes
    BY HeadApart DEF Closed
  <2>2. s.live \subseteq {ListHead}
    BY <2>1 DEF Ring, OneRing
  <2>3. QED
    BY <1>1, <2>2
<1>3. QED
  BY <1>1, <1>2 DEF Segment

\* Alarms put at the front, or taken off elsewhere, leave the rest of the list alone.
LEMMA SegmentInsert ==
  ASSUME NEW s, Ring(s), NEW A, NEW n, Segment(s, A, n), NEW b \in Alarms \ s.live,
         NEW t, t.live = s.live \cup {b},
         \A m \in Nodes : t.next[m] = IF m = ListHead THEN b
                                      ELSE IF m = b THEN s.next[ListHead] ELSE s.next[m],
         \A m \in Nodes : t.prev[m] = IF m = s.next[ListHead] THEN b
                                      ELSE IF m = b THEN ListHead ELSE s.prev[m]
  PROVE  Segment(t, A, n)
<1>1. /\ A \subseteq s.live /\ s.live \subseteq Alarms /\ ListHead \notin s.live /\ A \subseteq Nodes
      /\ s.prev[s.next[ListHead]] = ListHead
  BY HeadApart DEF Segment, Ring, AlarmLists, Linked, Members
<1>2. \A c \in A : t.next[c] = s.next[c]
  BY <1>1
<1>3. ASSUME NEW c \in A PROVE IF c = s.next[ListHead] THEN c = n /\ t.prev[c] = b
                               ELSE t.prev[c] = s.prev[c]
  BY <1>1 DEF Segment
<1>4. QED
  BY <1>1, <1>2, <1>3 DEF Segment

LEMMA SegmentRemove ==
  ASSUME NEW s, Ring(s), NEW A, NEW n, Segment(s, A, n), NEW b \in Alarms \ A,
         NEW t, t.live = s.live \ {b},
         \A m \in Nodes : t.next[m] = IF m = b THEN b
                                      ELSE IF m = s.prev[b] THEN s.next[b] ELSE s.next[m],
         \A m \in Nodes : t.prev[m] = IF m = b THEN b
                                      ELSE IF m = s.next[b] THEN s.prev[b] ELSE s.prev[m]
  PROVE  Segment(t, A, n)
<1>1. /\ A \subseteq s.live /\ s.live \subseteq Alarms /\ ListHead \notin s.live /\ A \subseteq Nodes
      /\ b # ListHead
  BY HeadApart DEF Segment, Ring, AlarmLists
<1>2. CASE b \in s.live
  <2>1. s.prev[s.next[b]] = b /\ s.next[s.prev[b]] = b
    BY <1>2 DEF Ring, Linked, Members
  <2>2. s.prev[b] \notin A
    BY <1>1, <2>1 DEF Segment
  <2>3. \A c \in A : t.next[c] = s.next[c]
    BY <1>1, <2>2
  <2>4. ASSUME NEW c \in A PROVE IF c = s.next[b] THEN c = n /\ t.prev[c] = s.prev[b]
                                 ELSE t.prev[c] = s.prev[c]
    BY <1>1, <2>1 DEF Segment
  <2>5. QED
    BY <1>1, <2>2, <2>3, <2>4 DEF Segment
<1>3. CASE b \notin s.live
  <2>1. s.next[b] = b /\ s.prev[b] = b
    BY <1>3 DEF Ring, Detached
  <2>2. \A c \in A : t.next[c] = s.next[c] /\ t.prev[c] = s.prev[c]
    BY <1>1, <2>1
  <2>3. A \subseteq t.live
    BY <1>1
  <2>4. QED
    BY <2>2, <2>3 DEF Segment
<1>4. QED
  BY <1>2, <1>3

\* An alarm fires in the tick that its count ends, and its flag is down by then.
LEMMA ExpiredDue ==
  ASSUME nticks \in 0..W - 1, NEW s \in AlarmLists, NEW a \in Alarms, Counted(s, a, nticks),
         NEW u, u = Unrolled(s, a)
  PROVE  /\ Expired(u, a) <=> s.due[a] = 0
         /\ u.rollover[a] <=> nticks + s.due[a] >= W
         /\ s.due[a] = 0 => u.time[a] = nticks
<1>1. s.due[a] \in 0..W - 2 /\ s.due[a] \in 0..W - 1 /\ W \in Nat /\ nticks \in Nat
  BY WAssumption DEF Counted
<1>2. /\ u.time[a] = s.time[a]
      /\ u.rollover[a] = IF nticks = 0 THEN FALSE ELSE s.rollover[a]
  <2>1. /\ u.time = s.time
        /\ u.rollover[a] = IF a = a /\ nticks = 0 THEN FALSE ELSE s.rollover[a]
    BY UnrolledFields
  <2>2. QED
    BY <2>1, Zenon
<1>3. s.time[a] = IF nticks + s.due[a] < W THEN nticks + s.due[a] ELSE nticks + s.due[a] - W
  BY <1>1, PlusOver DEF Counted
<1>4. s.rollover[a] <=> (nticks = 0 \/ nticks + s.due[a] >= W)
  BY DEF Counted
<1>5. u.rollover[a] <=> nticks + s.due[a] >= W
  <2>1. CASE nticks = 0
    <3>1. u.rollover[a] = FALSE
      BY <1>2, <2>1
    <3>2. ~(nticks + s.due[a] >= W)
      BY <1>1, <2>1
    <3>3. QED
      BY <3>1, <3>2
  <2>2. CASE nticks # 0
    <3>1. u.rollover[a] = s.rollover[a]
      BY <1>2, <2>2
    <3>2. QED
      BY <1>4, <2>2, <3>1
  <2>3. QED
    BY <2>1, <2>2
<1>6. s.time[a] <= nticks /\ ~(nticks + s.due[a] >= W) <=> s.due[a] = 0
  BY <1>1, <1>3
<1>7. Expired(u, a) <=> s.due[a] = 0
  BY <1>2, <1>5, <1>6 DEF Expired
<1>8. s.due[a] = 0 => u.time[a] = nticks
  BY <1>1, <1>2, <1>3
<1>9. QED
  BY <1>5, <1>7, <1>8

\* While the callback of alarm a runs: the others are as the tick left them.
Fired(s, A, a, n) ==
  /\ Ring(s) /\ Segment(s, A, n) /\ a \notin A
  /\ \A c \in A : Counted(s, c, nticks)
  /\ \A c \in s.live \ (A \cup {a}) : Done(s, c, nticks)
  /\ s.time[a] = nticks /\ ~s.rollover[a]

LEMMA FiredStop ==
  ASSUME NEW s, NEW A, NEW a \in Alarms, NEW n, Fired(s, A, a, n)
  PROVE  Fired(alt_alarm_stop(s, a), A, a, n)
<1> DEFINE t == alt_alarm_stop(s, a)
<1>1. s \in AlarmLists /\ t = alt_alarm_stop(s, a) /\ Ring(t)
  BY StopRing DEF Fired, Ring
<1> HIDE DEF t
<1>2. t.live = s.live \ {a} /\ t.time = s.time /\ t.rollover = s.rollover /\ t.due = s.due
  BY <1>1, StopFields
<1>3. Segment(t, A, n)
  BY <1>1, StopFields, SegmentRemove DEF Fired
<1>4. QED
  BY <1>1, <1>2, <1>3 DEF Fired, Counted, Done

LEMMA FiredStart ==
  ASSUME nticks \in 0..W - 1, NEW s, NEW A, NEW a \in Alarms, NEW n, Fired(s, A, a, n),
         NEW b \in Alarms \ (s.live \cup {a}), NEW p \in Periods
  PROVE  Fired(alt_alarm_start(s, b, p), A, a, n)
<1> DEFINE t == alt_alarm_start(s, b, p)
<1>1. s \in AlarmLists /\ t = alt_alarm_start(s, b, p) /\ Ring(t)
  BY StartRing DEF Fired, Ring
<1> HIDE DEF t
<1>2. /\ t.live = s.live \cup {b} /\ Done(t, b, nticks)
      /\ \A c \in Alarms \ {b} : /\ t.time[c] = s.time[c] /\ t.due[c] = s.due[c]
                                 /\ t.rollover[c] = s.rollover[c]
  BY <1>1, StartFields
<1>3. Segment(t, A, n)
  BY <1>1, StartFields, SegmentInsert DEF Fired
<1>4. A \subseteq s.live /\ s.live \subseteq Alarms /\ b \notin A
  BY <1>1 DEF Fired, Segment, AlarmLists
<1>5. \A c \in A : Counted(t, c, nticks)
  BY <1>2, <1>4 DEF Fired, Counted
<1>6. \A c \in t.live \ (A \cup {a}) : Done(t, c, nticks)
  BY <1>2, <1>4 DEF Fired, Done
<1>7. QED
  BY <1>1, <1>2, <1>3, <1>4, <1>5, <1>6 DEF Fired

LEMMA FiredEffects ==
  ASSUME ~StopsAny, nticks \in 0..W - 1, NEW s, NEW A, NEW a \in Alarms, NEW n,
         Fired(s, A, a, n), NEW e \in Effects(s, a)
  PROVE  Fired(e, A, a, n)
<1>1. PICK t \in Stopped(s, a) :
        \/ e = t
        \/ \E b \in Alarms \ (t.live \cup {a}), p \in Periods : e = alt_alarm_start(t, b, p)
  BY EffectsAre
<1>2. t = s \/ t = alt_alarm_stop(s, a)
  BY DEF Stopped
<1>3. Fired(t, A, a, n)
  BY <1>2, FiredStop
<1>4. QED
  BY <1>1, <1>3, FiredStart

\* After the callback every alarm is on time again, and the walk can go on.
LEMMA FiredRearm ==
  ASSUME nticks \in 0..W - 1, NEW s, NEW A, NEW a \in Alarms, NEW n, Fired(s, A, a, n),
         NEW period \in Periods, NEW t, t = Rearm(s, a, period)
  PROVE  Segment(t, A, n) /\ OnTime(t, A, nticks)
<1>1. s \in AlarmLists /\ A \subseteq s.live /\ s.live \subseteq Alarms
  BY DEF Fired, Ring, Segment, AlarmLists
<1>2. CASE period = 0
  <2>1. t = alt_alarm_stop(s, a)
    BY <1>2 DEF Rearm
  <2>2. Fired(t, A, a, n) /\ t.live = s.live \ {a}
    BY <1>1, <2>1, FiredStop, StopFields
  <2>3. t.live \ A = t.live \ (A \cup {a})
    BY <2>2
  <2>4. QED
    BY <2>2, <2>3 DEF Fired, OnTime
<1>3. CASE period # 0
  <2>1. /\ t.next = s.next /\ t.prev = s.prev /\ t.live = s.live
        /\ \A c \in Alarms \ {a} : /\ t.time[c] = s.time[c] /\ t.due[c] = s.due[c]
                                   /\ t.rollover[c] = s.rollover[c]
        /\ t.due[a] = period /\ t.time[a] = Plus(nticks, period)
        /\ t.rollover[a] <=> Wraps(t.time[a])
    BY <1>1, <1>3, RearmFields DEF Fired
  <2>2. period \in 1..W - 1 /\ period \in 0..W - 1
    BY <1>3, WAssumption, PeriodsAssumption
  <2>3. Wraps(t.time[a]) <=> nticks + period >= W
    <3>1. t.time[a] = IF nticks + period < W THEN nticks + period ELSE nticks + period - W
      BY <2>1, <2>2, PlusOver
    <3>2. QED
      BY <2>2, <3>1, WAssumption DEF Wraps
  <2>4. Done(t, a, nticks)
    BY <2>1, <2>2, <2>3 DEF Done
  <2>5. Segment(t, A, n)
    BY <2>1 DEF Fired, Segment
  <2>6. \A c \in A : Counted(t, c, nticks)
    BY <1>1, <2>1 DEF Fired, Counted
  <2>7. \A c \in t.live \ (A \cup {a}) : Done(t, c, nticks)
    BY <1>1, <2>1 DEF Fired, Done
  <2>8. QED
    BY <2>4, <2>5, <2>6, <2>7 DEF OnTime
<1>4. QED
  BY <1>2, <1>3

LEMMA WalkInit == Init => WalkInv
  BY HeadApart DEF Init, WalkInv, OnTime

\* Every alarm is one tick nearer; those of the whole list are still to be visited.
LEMMA BeginWalk ==
  ASSUME RingInv, WalkInv, BeginTick
  PROVE  WalkInv'
<1>1. /\ nticks \in 0..W - 1 /\ Ring(al) /\ al \in AlarmLists /\ al.live \subseteq Alarms
      /\ OnTime(al, {}, nticks)
  BY DEF RingInv, Ring, AlarmLists, BeginTick, WalkInv
<1>2. W \in Nat /\ W > 1
  BY WAssumption
<1>3. /\ nticks' = Plus(nticks, 1) /\ nticks' \in 0..W - 1
      /\ nticks' = IF nticks + 1 < W THEN nticks + 1 ELSE 0
  <2>1. 1 \in 0..W - 1
    BY <1>2
  <2>2. Plus(nticks, 1) \in 0..W - 1
        /\ Plus(nticks, 1) = (IF nticks + 1 < W THEN nticks + 1 ELSE nticks + 1 - W)
    BY <1>1, <2>1, PlusOver
  <2>3. QED
    BY <1>1, <1>2, <2>2 DEF BeginTick
<1>4. /\ al' \in AlarmLists /\ Ring(al')
      /\ al'.next = al.next /\ al'.live = al.live
      /\ al'.time = al.time /\ al'.rollover = al.rollover
      /\ \A a \in al.live : al'.due[a] = al.due[a] - 1
  BY <1>1, CountFields, SameRing DEF BeginTick
<1>5. Segment(al', al'.live, at') /\ at' \in Nodes
  BY <1>4, SegmentAll DEF BeginTick
<1>6. ASSUME NEW a \in al'.live PROVE Counted(al', a, nticks')
  <2>1. Done(al, a, nticks) /\ al'.due[a] = al.due[a] - 1
    BY <1>1, <1>4 DEF OnTime
  <2> DEFINE d == al.due[a]
  <2>2. d \in 1..W - 1 /\ d \in 0..W - 1 /\ d - 1 \in 0..W - 2 /\ d - 1 \in 0..W - 1
    BY <1>2, <2>1 DEF Done
  <2>3. Plus(nticks, d) = (IF nticks + d < W THEN nticks + d ELSE nticks + d - W)
    BY <1>1, <2>2, PlusOver
  <2>4. Plus(nticks', d - 1)
          = (IF nticks' + (d - 1) < W THEN nticks' + (d - 1) ELSE nticks' + (d - 1) - W)
    BY <1>3, <2>2, PlusOver
  <2>5. Plus(nticks', d - 1) = Plus(nticks, d)
    BY <1>1, <1>2, <1>3, <2>2, <2>3, <2>4
  <2>6. nticks + d >= W <=> nticks' = 0 \/ nticks' + (d - 1) >= W
    BY <1>1, <1>2, <1>3, <2>2
  <2>7. al'.due[a] \in 0..W - 2
    BY <2>1, <2>2
  <2>8. al'.time[a] = Plus(nticks', al'.due[a])
    BY <1>4, <2>1, <2>5 DEF Done
  <2>9. al'.rollover[a] <=> nticks' = 0 \/ nticks' + al'.due[a] >= W
    BY <1>4, <2>1, <2>6 DEF Done
  <2>10. QED
    BY <2>7, <2>8, <2>9 DEF Counted
<1>7. OnTime(al', al'.live, nticks')
  BY <1>6 DEF OnTime
<1>8. Running(Timer)'
  BY DEF BeginTick, irqVars, Running, Top
<1>9. at' # Idle
  BY <1>5, HeadApart
<1>10. QED
  BY <1>5, <1>7, <1>8, <1>9 DEF WalkInv

\* One alarm of the list is visited.
LEMMA WalkOn ==
  ASSUME ~StopsAny, RingInv, WalkInv, Walk
  PROVE  WalkInv'
<1>1. nticks \in 0..W - 1 /\ Ring(al) /\ al \in AlarmLists
  BY DEF RingInv, Ring
<1> DEFINE u == Unrolled(al, at)
<1>2. u = Unrolled(al, at)
  OBVIOUS
<1> HIDE DEF u
<1>3. /\ at \in Alarms /\ at # ListHead /\ at # Idle /\ at' = al.next[at]
      /\ nticks' = nticks /\ UNCHANGED irqVars
  BY <1>2, WalkIs, HeadApart DEF Nodes
<1>4. PICK A \in SUBSET al.live : Segment(al, A, at) /\ OnTime(al, A, nticks)
  BY <1>3 DEF WalkInv
<1> DEFINE B == A \ {at}
<1>5. at \in A /\ Counted(al, at, nticks) /\ Segment(al, B, at')
  BY <1>1, <1>3, <1>4, SegmentNext DEF Segment, OnTime
<1>6. /\ u \in AlarmLists /\ Ring(u)
      /\ u.next = al.next /\ u.prev = al.prev /\ u.live = al.live
      /\ u.time = al.time /\ u.due = al.due
      /\ \A b \in Alarms \ {at} : u.rollover[b] = al.rollover[b]
  <2>1. ASSUME NEW b \in Alarms \ {at} PROVE u.rollover[b] = al.rollover[b]
    <3>1. b \in Alarms /\ b # at
      OBVIOUS
    <3>2. QED
      BY <1>1, <1>2, <1>3, <3>1, UnrolledOther
  <2>2. /\ u \in AlarmLists
        /\ u.next = al.next /\ u.prev = al.prev /\ u.live = al.live
        /\ u.time = al.time /\ u.due = al.due
    BY <1>1, <1>2, <1>3, UnrolledFields
  <2>3. Ring(u)
    BY <1>1, <1>2, <1>3, UnrolledRing
  <2>4. QED
    BY <2>1, <2>2, <2>3
<1>7. Segment(u, B, at')
  BY <1>5, <1>6 DEF Segment
<1>8. /\ \A c \in B : Counted(u, c, nticks)
      /\ \A c \in u.live \ A : Done(u, c, nticks)
  <2>1. al.live \subseteq Alarms
    BY <1>1 DEF AlarmLists
  <2>2. \A c \in B : Counted(u, c, nticks)
    BY <1>4, <1>6, <2>1 DEF OnTime, Counted
  <2>3. \A c \in u.live \ A : Done(u, c, nticks)
    BY <1>4, <1>5, <1>6, <2>1 DEF OnTime, Done
  <2>4. QED
    BY <2>2, <2>3
<1>9. /\ Expired(u, at) <=> al.due[at] = 0
      /\ u.rollover[at] <=> nticks + al.due[at] >= W
      /\ al.due[at] = 0 => u.time[at] = nticks
  BY <1>1, <1>2, <1>3, <1>5, ExpiredDue
<1>10. \E C \in SUBSET al'.live : Segment(al', C, at') /\ OnTime(al', C, nticks)
  <2>1. CASE Expired(u, at)
    <3>1. PICK period \in Periods, e \in Effects(u, at) : al' = Rearm(e, at, period)
      BY <1>2, <2>1, WalkIs
    <3>2. ~u.rollover[at] /\ u.time[at] = nticks
      BY <1>1, <1>9, <2>1, WAssumption
    <3>3. u.live \ (B \cup {at}) = u.live \ A
      BY <1>5
    <3>4. Fired(u, B, at, at')
      BY <1>6, <1>7, <1>8, <3>2, <3>3 DEF Fired
    <3>5. Fired(e, B, at, at')
      BY <1>1, <1>3, <3>4, FiredEffects
    <3>6. Segment(al', B, at') /\ OnTime(al', B, nticks)
      BY <1>1, <1>3, <3>1, <3>5, FiredRearm
    <3>7. QED
      BY <3>6 DEF Segment
  <2>2. CASE ~Expired(u, at)
    <3>1. al' = u
      BY <1>2, <2>2, WalkIs
    <3>2. Done(u, at, nticks)
      BY <1>5, <1>6, <1>9, <2>2, WAssumption DEF Counted, Done
    <3>3. OnTime(u, B, nticks)
      BY <1>8, <3>2 DEF OnTime
    <3>4. QED
      BY <1>7, <3>1, <3>3 DEF Segment
  <2>3. QED
    BY <2>1, <2>2
<1>11. Running(Timer)'
  BY <1>3 DEF WalkInv, irqVars, Running, Top
<1>12. at' # Idle
  BY <1>1, <1>3, HeadApart DEF AlarmLists
<1>13. QED
  BY <1>3, <1>10, <1>11, <1>12 DEF WalkInv

\* The program runs between ticks only.
LEMMA ProgramOnTime ==
  ASSUME RingInv, WalkInv, Program
  PROVE  WalkInv'
<1>1. nticks \in 0..W - 1 /\ Ring(al) /\ al \in AlarmLists /\ al.live \subseteq Alarms
  BY DEF RingInv, Ring, AlarmLists
<1>2. PICK a \in Alarms : Start(a) \/ Stop(a)
  BY DEF Program
<1>3. at = Idle /\ at' = Idle /\ nticks' = nticks
  BY <1>2 DEF Program, Start, Stop, Thread, WalkInv, Running
<1>4. OnTime(al, {}, nticks)
  BY <1>3 DEF WalkInv
<1>5. OnTime(al', {}, nticks)
  <2>1. CASE Start(a)
    <3>1. PICK n \in Periods : al' = alt_alarm_start(al, a, n)
      BY <2>1 DEF Start
    <3>2. /\ al'.live = al.live \cup {a} /\ Done(al', a, nticks)
          /\ \A b \in Alarms \ {a} : /\ al'.time[b] = al.time[b] /\ al'.due[b] = al.due[b]
                                     /\ al'.rollover[b] = al.rollover[b]
      BY <1>1, <3>1, StartFields
    <3>3. QED
      BY <1>1, <1>4, <3>2 DEF OnTime, Done
  <2>2. CASE Stop(a)
    <3>1. /\ al'.live = al.live \ {a} /\ al'.time = al.time /\ al'.due = al.due
          /\ al'.rollover = al.rollover
      BY <1>1, <2>2, StopFields DEF Stop
    <3>2. QED
      BY <1>1, <1>4, <3>1 DEF OnTime, Done
  <2>3. QED
    BY <1>2, <2>1, <2>2
<1>6. QED
  BY <1>3, <1>5 DEF WalkInv

\* Nothing that may happen to the interrupts takes the processor from the timer's handler.
LEMMA TimerRuns ==
  ASSUME IrqInv, Running(Timer), Interrupts
  PROVE  Running(Timer)'
<1>1. stack # <<>> /\ Top.at = "run" /\ Top.irq = Timer /\ ~pie
  BY DEF Running, IrqInv
<1>2. ASSUME NEW i \in Irqs, Raise(i) \/ Configure(i) PROVE UNCHANGED stack
  BY <1>2 DEF Raise, Configure, alt_ic_isr_register, alt_ic_irq_enable, alt_ic_irq_disable, cpu
<1>3. UNCHANGED stack
  BY <1>1, <1>2 DEF Interrupts, alt_irq_interruptible, Serve, Running, Interrupt,
     alt_irq_handler, NullReturns, alt_irq_non_interruptible, alt_irq_disable_all,
     alt_irq_enable_all, Thread
<1>4. QED
  BY <1>1, <1>3 DEF Running, Top

LEMMA WalkStep ==
  ASSUME ~StopsAny, IrqInv, RingInv, WalkInv, [Next]_vars
  PROVE  WalkInv'
<1>1. CASE EndTick
  <2>1. at = ListHead /\ at # Idle /\ at' = Idle /\ nticks' = nticks /\ al' = al
    BY <1>1, HeadApart DEF EndTick
  <2>2. OnTime(al, {}, nticks)
    BY <2>1 DEF WalkInv, Segment
  <2>3. QED
    BY <2>1, <2>2 DEF WalkInv
<1>2. CASE Interrupts
  BY <1>2, TimerRuns DEF Interrupts, WalkInv
<1>3. CASE UNCHANGED vars
  BY <1>3 DEF vars, irqVars, WalkInv, Running, Top
<1>4. QED
  BY <1>1, <1>2, <1>3, BeginWalk, WalkOn, ProgramOnTime DEF Next, alt_tick

------------------------------------------------------------------------------
(* The theorems *)

\* The invariant holds in every reachable state.
THEOREM IrqInvariant == Spec => []IrqInv
  BY IrqInit, IrqStep, PTL DEF Spec

\* The dispatch loop calls through NULL only for lines that the program enabled by themselves
\* while they had no handler, whatever is registered, removed, enabled and disabled, from the
\* program and from handlers (alt_irq_handler.c:126-146, alt_iic_isr_register.c:71-97).
THEOREM HandlersExistAlways == Spec => []HandlersExist
<1>1. IrqInv => HandlersExist
  BY DEF IrqInv, Accounted
<1>2. QED
  BY <1>1, IrqInvariant, PTL

\* Handlers nest by urgency, to any depth, leave no mask behind, and critical sections of
\* the program hold (alt_irq.h:96-183, alt_legacy_irq.h:68-149).
THEOREM MasksHoldAlways == Spec => []MasksHold
<1>1. ASSUME IrqInv PROVE MasksHold
  <2>1. InnerIsMoreUrgent
    <3>1. stack \in Seq(Frames) /\ Len(stack) \in Nat
      BY LenProperties, <1>1 DEF IrqInv, IrqType
    <3>2. ASSUME NEW k \in 1..Len(stack) - 1
          PROVE  stack[k].at = "open" /\ stack[k + 1].irq < stack[k].irq
      <4>1. k \in 1..Len(stack) /\ k < Len(stack) /\ k + 1 \in 1..Len(stack) /\ k + 1 # 1 /\ k + 1 - 1 = k
        BY <3>1, <3>2
      <4>2. stack[k].at = "open" /\ stack[k + 1].irq \in MaskAt(stack, k + 1)
        BY <1>1, <4>1 DEF IrqInv, Nested
      <4>3. stack[k] \in Frames
        BY <3>1, <4>1, ElementOfSeq
      <4>4. QED
        BY <4>1, <4>2, <4>3 DEF MaskAt, Frames, Irqs
    <3>3. QED
      BY <3>2 DEF InnerIsMoreUrgent
  <2>2. MasksRestored /\ CriticalSectionsHold
    BY <1>1 DEF IrqInv, IrqType, MasksRestored, CriticalSectionsHold, Critical, MaskNow, Thread
  <2>3. QED
    BY <2>1, <2>2 DEF MasksHold
<1>2. QED
  BY <1>1, IrqInvariant, PTL

\* The list holds exactly the alarms that run, for any number of alarms, whatever callbacks
\* and the program start and stop, and even when a callback stops the alarm that is next
\* (alt_llist.h:90-117, alt_tick.c:96-148).
THEOREM ListIsLiveAlways == Spec => []ListIsLive
<1>1. RingInv => ListIsLive
  BY ReachedIsLive DEF RingInv, ListIsLive, Ring, Linked, Members
<1>2. QED
  BY <1>1, RingInit, RingStep, PTL DEF Spec

\* An alarm's callback runs in the tick it was set for and in no other, for any counter
\* width and any number of alarms, when no callback stops another alarm than its own
\* (alt_tick.c:96-141, alt_alarm_start.c:77-98).
THEOREM PunctualAlways == ~StopsAny => (Spec => []Punctual)
<1> SUFFICES ASSUME ~StopsAny PROVE Spec => []Punctual
  OBVIOUS
<1>1. RingInv /\ WalkInv => Punctual
  <2> SUFFICES ASSUME RingInv, WalkInv PROVE Punctual
    OBVIOUS
  <2>1. ASSUME NEW a \in Alarms, Fires(a) PROVE a \in al.live /\ al.due[a] = 0
    <3>1. at = a /\ at # Idle /\ at # ListHead
      BY <2>1, HeadApart DEF Fires, Nodes
    <3>2. PICK A \in SUBSET al.live : Segment(al, A, at) /\ OnTime(al, A, nticks)
      BY <3>1 DEF WalkInv
    <3>3. a \in A /\ Counted(al, a, nticks)
      BY <3>1, <3>2 DEF Segment, OnTime
    <3>4. QED
      BY <2>1, <3>3, ExpiredDue DEF Fires, RingInv, Ring
  <2>2. ASSUME at = Idle, NEW a \in al.live PROVE al.due[a] > 0
    BY <2>2, WAssumption DEF WalkInv, OnTime, Done
  <2>3. QED
    BY <2>1, <2>2 DEF Punctual, NeverEarly, NeverLate
<1>2. Init => RingInv /\ WalkInv
  BY RingInit, WalkInit
<1>3. IrqInv /\ RingInv /\ WalkInv /\ [Next]_vars => (RingInv /\ WalkInv)'
  BY RingStep, WalkStep
<1>4. QED
  BY <1>1, <1>2, <1>3, IrqInvariant, PTL DEF Spec
==============================================================================
