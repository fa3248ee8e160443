----------------------------- MODULE CharStream -----------------------------
(***************************************************************************)
(* What one direction of a character device promises: characters come out  *)
(* in the order in which they went in, each of them once.                  *)
(*                                                                         *)
(* The characters of a stream are numbered modulo K, which is more than    *)
(* can be under way.                                                       *)
(***************************************************************************)
EXTENDS Integers, Sequences

CONSTANT K

VARIABLES pending,    \* the characters under way, oldest first
          delivered   \* the characters that came out last

Newest == IF pending = <<>> THEN delivered[Len(delivered)]
                            ELSE pending[Len(pending)]

Init == pending = <<>> /\ delivered = <<K - 1>>

\* n more characters go in.
Accept(n) ==
    /\ pending' = pending \o [i \in 1..n |-> (Newest + i) % K]
    /\ UNCHANGED delivered

\* The n oldest characters come out.
Deliver(n) ==
    /\ n <= Len(pending)
    /\ delivered' = SubSeq(pending, 1, n)
    /\ pending' = SubSeq(pending, n + 1, Len(pending))

Next == \E n \in 1..(K - 1) : Accept(n) \/ Deliver(n)

Spec == Init /\ [][Next]_<<pending, delivered>>
=============================================================================
