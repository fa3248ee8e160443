----------------------------- MODULE HalTimeInv -----------------------------
(***************************************************************************)
(* The inductive invariants behind ListIsLive and Punctual of HalTime: the *)
(* ring of alarms, and what is left of a walk along it.  TLC finds no      *)
(* violation of them on the instance of HalTime.cfg; HalTimeProofs proves  *)
(* them.                                                                   *)
(***************************************************************************)
EXTENDS HalTime

AlarmLists == [next : [Nodes -> Nodes], prev : [Nodes -> Nodes],
               time : [Alarms -> 0..W - 1], rollover : [Alarms -> BOOLEAN],
               due : [Alarms -> Int], live : SUBSET Alarms]

-----------------------------------------------------------------------------
(* The ring                                                                *)

Members(s) == s.live \cup {ListHead}

\* next and prev are inverse to each other on the list.
Linked(s) == \A n \in Members(s) : /\ {s.next[n], s.prev[n]} \subseteq Members(s)
                                    /\ s.prev[s.next[n]] = n /\ s.next[s.prev[n]] = n

\* An alarm that is not on the list points to itself.
Detached(s) == \A a \in Alarms \ s.live : s.next[a] = a /\ s.prev[a] = a

\* There is one ring only: what next does not lead out of, starting at the head, is all of it.
Closed(s, S) == ListHead \in S /\ \A n \in S : s.next[n] \in S
OneRing(s) == \A S \in SUBSET Nodes : Closed(s, S) => s.live \subseteq S

Ring(s) == s \in AlarmLists /\ Linked(s) /\ Detached(s) /\ OneRing(s)

RingInv == nticks \in 0..W - 1 /\ Ring(al)

-----------------------------------------------------------------------------
(* The walk                                                                *)

\* ahead is the rest of the list that a walk at n has not visited.
Segment(s, ahead, n) ==
  /\ ahead \subseteq s.live
  /\ n = ListHead => ahead = {}
  /\ n # ListHead => n \in ahead /\ s.prev[n] \notin ahead
  /\ \A a \in ahead : /\ s.next[a] \in ahead \cup {ListHead}
                      /\ a # n => s.prev[a] \in ahead

\* An alarm that this tick is done with, or that was set in it.
Done(s, a, now) == /\ s.due[a] \in 1..W - 1
                   /\ s.time[a] = Plus(now, s.due[a])
                   /\ s.rollover[a] <=> now + s.due[a] >= W

\* An alarm that this tick has counted down, and not visited: a flag that fell due when
\* the counter wrapped is still up.
Counted(s, a, now) == /\ s.due[a] \in 0..W - 2
                      /\ s.time[a] = Plus(now, s.due[a])
                      /\ s.rollover[a] <=> now = 0 \/ now + s.due[a] >= W

OnTime(s, ahead, now) == /\ \A a \in ahead : Counted(s, a, now)
                         /\ \A a \in s.live \ ahead : Done(s, a, now)

\* When callbacks stop no alarm but their own.
WalkInv == /\ at = Idle => OnTime(al, {}, nticks)
           /\ at # Idle => /\ Running(Timer)
                          /\ \E ahead \in SUBSET al.live :
                               Segment(al, ahead, at) /\ OnTime(al, ahead, nticks)
=============================================================================
