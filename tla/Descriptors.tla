----------------------------- MODULE Descriptors -----------------------------
(***************************************************************************)
(* What a program may expect of a table of file descriptors: open() hands  *)
(* out a number nobody uses, that number refers to the same device or file *)
(* system until it is closed, and the three standard streams are there     *)
(* from the first statement of the program to the last.  HalFiles, the     *)
(* table of the Nios II HAL, is shown to implement it.                     *)
(***************************************************************************)
EXTENDS Integers

CONSTANTS Devices,        \* what a descriptor may refer to
          MaxFd           \* the table has the descriptors 0 .. MaxFd - 1

VARIABLES refs,           \* descriptors in use |-> what they refer to
          running         \* code of the user runs (constructors, main, destructors)

Std == 0..2
vars == <<refs, running>>

Init == /\ running = FALSE
        /\ \E d \in Devices : refs = [f \in Std |-> d]

\* Before the program starts the standard streams are pointed at a device, the same for all.
Start == /\ ~running
         /\ refs' \in [Std -> Devices]
         /\ running' \in BOOLEAN
         /\ running' => \E d \in Devices : \A f \in Std : refs'[f] = d

Open(f, d) == /\ running
              /\ f \notin DOMAIN refs
              /\ refs' = [g \in DOMAIN refs \cup {f} |-> IF g = f THEN d ELSE refs[g]]
              /\ UNCHANGED running

\* The standard streams can be closed any number of times: they stay.
Close(f) == /\ running
            /\ f \in DOMAIN refs \ Std
            /\ refs' = [g \in DOMAIN refs \ {f} |-> refs[g]]
            /\ UNCHANGED running

Next == \/ Start
        \/ \E f \in 0..MaxFd - 1, d \in Devices : Open(f, d)
        \/ \E f \in 0..MaxFd - 1 : Close(f)

Spec == Init /\ [][Next]_vars
==============================================================================
