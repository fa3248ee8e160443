--------------------------- MODULE DspSystemProofs ---------------------------
(***************************************************************************)
(* Theorems about DspSystem, for every device, every program of calls and  *)
(* every set of interrupts.                                                *)
(***************************************************************************)
EXTENDS DspSystemInv, SequenceTheorems, WellFoundedInduction, TLAPS

------------------------------------------------------------------------------
(* Lists *)

\* A sequence is a list.
LEMMA ListOf == ASSUME NEW S, NEW l \in Seq(S) PROVE IsList(l)
<1>1. l \in [1..Len(l) -> S] /\ Len(l) \in Nat
  OBVIOUS
<1>2. DOMAIN l = 1..Len(l)
  BY <1>1
<1> DEFINE T == {l[i] : i \in DOMAIN l}
<1>3. l \in [1..Len(l) -> T]
  BY <1>1, <1>2
<1>4. l \in Seq(T)
  BY <1>1, <1>3
<1>5. QED
  BY <1>4 DEF IsList

\* The indices of a list.
LEMMA ListLen == ASSUME NEW l, IsList(l)
                 PROVE  Len(l) \in Nat /\ DOMAIN l = 1..Len(l) /\ (l = <<>> <=> Len(l) = 0)
BY DEF IsList

\* No statement at all.
LEMMA EmptyList == IsList(<<>>) /\ Len(<<>>) = 0
<1>1. <<>> \in Seq({})
  BY EmptySeq
<1>2. QED
  BY <1>1, ListOf, EmptySeq

\* Two lists one after the other.
LEMMA Joined ==
    ASSUME NEW l, NEW m, IsList(l), IsList(m)
    PROVE  /\ IsList(l \o m) /\ Len(l \o m) = Len(l) + Len(m)
           /\ \A i \in 1..Len(l) : (l \o m)[i] = l[i]
           /\ \A i \in 1..Len(m) : (l \o m)[Len(l) + i] = m[i]
<1> DEFINE S == {l[i] : i \in DOMAIN l} \cup {m[i] : i \in DOMAIN m}
<1>1. l \in Seq(S) /\ m \in Seq(S)
  <2>1. /\ Len(l) \in Nat /\ DOMAIN l = 1..Len(l) /\ l \in [1..Len(l) -> {l[i] : i \in DOMAIN l}]
        /\ Len(m) \in Nat /\ DOMAIN m = 1..Len(m) /\ m \in [1..Len(m) -> {m[i] : i \in DOMAIN m}]
    BY DEF IsList
  <2>2. l \in [1..Len(l) -> S] /\ m \in [1..Len(m) -> S]
    BY <2>1
  <2>3. QED
    BY <2>1, <2>2
<1> HIDE DEF S
<1>2. /\ l \o m \in Seq(S) /\ Len(l \o m) = Len(l) + Len(m)
      /\ Len(l) \in Nat /\ Len(m) \in Nat
      /\ \A i \in 1..(Len(l) + Len(m)) :
            (l \o m)[i] = IF i <= Len(l) THEN l[i] ELSE m[i - Len(l)]
  BY <1>1, ConcatProperties
<1>3. IsList(l \o m)
  BY <1>2, ListOf
<1>4. \A i \in 1..Len(m) : (l \o m)[Len(l) + i] = m[i]
  <2> TAKE i \in 1..Len(m)
  <2>1. Len(l) + i \in 1..(Len(l) + Len(m)) /\ ~(Len(l) + i <= Len(l)) /\ (Len(l) + i) - Len(l) = i
    BY <1>2
  <2>2. QED
    BY <1>2, <2>1
<1>5. QED
  BY <1>2, <1>3, <1>4

\* What is left after the first statement.
LEMMA Rest ==
    ASSUME NEW l, IsList(l), Len(l) > 0
    PROVE  /\ Head(l) = l[1] /\ IsList(Tail(l)) /\ Len(Tail(l)) = Len(l) - 1
           /\ \A i \in 1..(Len(l) - 1) : Tail(l)[i] = l[i + 1]
<1> DEFINE S == {l[i] : i \in DOMAIN l}
<1>1. l \in Seq(S) /\ l # <<>>
  BY ListLen DEF IsList
<1> HIDE DEF S
<1>2. /\ Tail(l) \in Seq(S) /\ Len(Tail(l)) = Len(l) - 1
      /\ \A i \in 1..Len(Tail(l)) : Tail(l)[i] = l[i + 1]
  BY <1>1, HeadTailProperties
<1>3. IsList(Tail(l))
  BY <1>2, ListOf
<1>4. Head(l) = l[1]
  BY <1>1
<1>5. \A i \in 1..(Len(l) - 1) : Tail(l)[i] = l[i + 1]
  BY <1>2
<1>6. QED
  BY <1>2, <1>3, <1>4, <1>5

\* Lists with the same statements are the same.
LEMMA Equal ==
    ASSUME NEW l, NEW m, IsList(l), IsList(m), Len(l) = Len(m),
           \A i \in 1..Len(l) : l[i] = m[i]
    PROVE  l = m
<1> DEFINE S == {l[i] : i \in DOMAIN l}
           T == {m[i] : i \in DOMAIN m}
<1>1. l \in Seq(S) /\ m \in Seq(T)
  BY DEF IsList
<1>2. DOMAIN l = 1..Len(l) /\ DOMAIN m = 1..Len(l)
  BY <1>1
<1>3. S = T
  BY <1>2
<1> HIDE DEF S, T
<1>4. QED
  BY <1>1, <1>3, SeqEqual

\* A list of one statement.
LEMMA Single == ASSUME NEW s PROVE IsList(<<s>>) /\ Len(<<s>>) = 1 /\ <<s>>[1] = s
<1>1. <<s>> \in Seq({s})
  OBVIOUS
<1>2. QED
  BY <1>1, ListOf

\* A list is its first statement, followed by the rest.
LEMMA Cons ==
    ASSUME NEW l, NEW m, IsList(l), IsList(m), Len(l) = Len(m) + 1,
           \A i \in 1..Len(m) : l[i + 1] = m[i]
    PROVE  l = <<l[1]>> \o m
<1> DEFINE n == Len(m)
           s1 == l[1]
<1> HIDE DEF s1
<1>0. n \in Nat
  BY ListLen
<1>1. /\ IsList(<<s1>> \o m) /\ Len(<<s1>> \o m) = 1 + n /\ (<<s1>> \o m)[1] = s1
      /\ \A i \in 1..n : (<<s1>> \o m)[1 + i] = m[i]
  BY <1>0, Single, Joined
<1>2. ASSUME NEW i \in 1..Len(l) PROVE l[i] = (<<s1>> \o m)[i]
  <2>1. CASE i = 1
    BY <1>1, <2>1 DEF s1
  <2>2. CASE i # 1
    <3>1. i - 1 \in 1..n /\ i = (i - 1) + 1 /\ i = 1 + (i - 1)
      BY <1>0, <2>2
    <3>2. l[i] = m[i - 1] /\ (<<s1>> \o m)[i] = m[i - 1]
      BY <1>1, <3>1
    <3>3. QED
      BY <3>2
  <2>3. QED
    BY <2>1, <2>2
<1>3. Len(l) = Len(<<s1>> \o m)
  BY <1>0, <1>1
<1> DEFINE r == <<s1>> \o m
<1>4. IsList(r) /\ Len(l) = Len(r) /\ \A i \in 1..Len(l) : l[i] = r[i]
  BY <1>1, <1>2, <1>3
<1> HIDE DEF r
<1>5. l = r
  BY <1>4, Equal
<1>6. QED
  BY <1>5 DEF r, s1

\* A literal list begins with its first statement.
LEMMA Split2 ==
    ASSUME NEW s1, NEW s2
    PROVE  <<s1, s2>> = <<s1>> \o <<s2>>
<1> DEFINE l == <<s1, s2>>
           m == <<s2>>
           S == {s1, s2}
<1>1. l \in Seq(S) /\ m \in Seq(S)
  OBVIOUS
<1>2. /\ Len(l) = Len(m) + 1 /\ l[1] = s1
      /\ \A i \in 1..Len(m) : l[i + 1] = m[i]
  OBVIOUS
<1>3. IsList(l) /\ IsList(m)
  BY <1>1, ListOf
<1> HIDE DEF l, m
<1>4. l = <<s1>> \o m
  BY <1>2, <1>3, Cons
<1>5. QED
  BY <1>4 DEF l, m

\* The same for longer lists.
LEMMA Split3 ==
    ASSUME NEW s1, NEW s2, NEW s3
    PROVE  <<s1, s2, s3>> = <<s1>> \o <<s2, s3>>
<1> DEFINE l == <<s1, s2, s3>>
           m == <<s2, s3>>
           S == {s1, s2, s3}
<1>1. l \in Seq(S) /\ m \in Seq(S)
  OBVIOUS
<1>2. /\ Len(l) = Len(m) + 1 /\ l[1] = s1
      /\ \A i \in 1..Len(m) : l[i + 1] = m[i]
  OBVIOUS
<1>3. IsList(l) /\ IsList(m)
  BY <1>1, ListOf
<1> HIDE DEF l, m
<1>4. l = <<s1>> \o m
  BY <1>2, <1>3, Cons
<1>5. QED
  BY <1>4 DEF l, m

\* A list of four.
LEMMA Split4 ==
    ASSUME NEW s1, NEW s2, NEW s3, NEW s4
    PROVE  <<s1, s2, s3, s4>> = <<s1>> \o <<s2, s3, s4>>
<1> DEFINE l == <<s1, s2, s3, s4>>
           m == <<s2, s3, s4>>
           S == {s1, s2, s3, s4}
<1>1. l \in Seq(S) /\ m \in Seq(S)
  OBVIOUS
<1>2. /\ Len(l) = Len(m) + 1 /\ l[1] = s1
      /\ \A i \in 1..Len(m) : l[i + 1] = m[i]
  OBVIOUS
<1>3. IsList(l) /\ IsList(m)
  BY <1>1, ListOf
<1> HIDE DEF l, m
<1>4. l = <<s1>> \o m
  BY <1>2, <1>3, Cons
<1>5. QED
  BY <1>4 DEF l, m

\* A list of five.
LEMMA Split5 ==
    ASSUME NEW s1, NEW s2, NEW s3, NEW s4, NEW s5
    PROVE  <<s1, s2, s3, s4, s5>> = <<s1>> \o <<s2, s3, s4, s5>>
<1> DEFINE l == <<s1, s2, s3, s4, s5>>
           m == <<s2, s3, s4, s5>>
           S == {s1, s2, s3, s4, s5}
<1>1. l \in Seq(S) /\ m \in Seq(S)
  OBVIOUS
<1>2. /\ Len(l) = Len(m) + 1 /\ l[1] = s1
      /\ \A i \in 1..Len(m) : l[i + 1] = m[i]
  OBVIOUS
<1>3. IsList(l) /\ IsList(m)
  BY <1>1, ListOf
<1> HIDE DEF l, m
<1>4. l = <<s1>> \o m
  BY <1>2, <1>3, Cons
<1>5. QED
  BY <1>4 DEF l, m

\* A list of six.
LEMMA Split6 ==
    ASSUME NEW s1, NEW s2, NEW s3, NEW s4, NEW s5, NEW s6
    PROVE  <<s1, s2, s3, s4, s5, s6>> = <<s1>> \o <<s2, s3, s4, s5, s6>>
<1> DEFINE l == <<s1, s2, s3, s4, s5, s6>>
           m == <<s2, s3, s4, s5, s6>>
           S == {s1, s2, s3, s4, s5, s6}
<1>1. l \in Seq(S) /\ m \in Seq(S)
  OBVIOUS
<1>2. /\ Len(l) = Len(m) + 1 /\ l[1] = s1
      /\ \A i \in 1..Len(m) : l[i + 1] = m[i]
  OBVIOUS
<1>3. IsList(l) /\ IsList(m)
  BY <1>1, ListOf
<1> HIDE DEF l, m
<1>4. l = <<s1>> \o m
  BY <1>2, <1>3, Cons
<1>5. QED
  BY <1>4 DEF l, m

\* A list of seven.
LEMMA Split7 ==
    ASSUME NEW s1, NEW s2, NEW s3, NEW s4, NEW s5, NEW s6, NEW s7
    PROVE  <<s1, s2, s3, s4, s5, s6, s7>> = <<s1>> \o <<s2, s3, s4, s5, s6, s7>>
<1> DEFINE l == <<s1, s2, s3, s4, s5, s6, s7>>
           m == <<s2, s3, s4, s5, s6, s7>>
           S == {s1, s2, s3, s4, s5, s6, s7}
<1>1. l \in Seq(S) /\ m \in Seq(S)
  OBVIOUS
<1>2. /\ Len(l) = Len(m) + 1 /\ l[1] = s1
      /\ \A i \in 1..Len(m) : l[i + 1] = m[i]
  OBVIOUS
<1>3. IsList(l) /\ IsList(m)
  BY <1>1, ListOf
<1> HIDE DEF l, m
<1>4. l = <<s1>> \o m
  BY <1>2, <1>3, Cons
<1>5. QED
  BY <1>4 DEF l, m
------------------------------------------------------------------------------
(* Outlines *)

\* What a statement leaves known does not shrink when more is known before it.
LEMMA Monotone ==
    ASSUME NEW s, NEW a, NEW b, NEW c, NEW x, a \subseteq b, Legal(s, a, c, x)
    PROVE  Legal(s, b, c, x)
<1>1. Admits(s, b, x)
  BY DEF Legal, Admits, AdmitsWrite, AdmitsCall, AdmitsGate
<1>2. After(s, a, x) \subseteq After(s, b, x)
  <2>1. ASSUME NEW K, NEW v PROVE Given(K, v, a, x) \subseteq Given(K, v, b, x)
    <3>1. TrimsFit(v, a, x) => TrimsFit(v, b, x)
      BY DEF TrimsFit
    <3>2. GivenTrims(K, v, a, x) \subseteq GivenTrims(K, v, b, x)
      BY <3>1 DEF GivenTrims, When
    <3>3. QED
      BY <3>2 DEF Given
  <2>2. ASSUME NEW n PROVE AfterCall(n, a, x) \subseteq AfterCall(n, b, x)
    BY DEF AfterCall, Powered
  <2>3. ASSUME NEW n, NEW o PROVE AfterGate(n, o, a) \subseteq AfterGate(n, o, b)
    BY DEF AfterGate, Powered
  <2>4. ASSUME NEW n PROVE AfterSleep(n, a) \subseteq AfterSleep(n, b)
    BY DEF AfterSleep
  <2>5. QED
    BY <2>1, <2>2, <2>3, <2>4 DEF After
<1>3. QED
  BY <1>1, <1>2 DEF Legal

\* A list with nothing left to execute.
LEMMA Skip ==
    ASSUME NEW a, NEW c \in Safe, NEW x, c \subseteq a
    PROVE  Runs(<<>>, a, c, x)
<1> DEFINE k == [i \in 1..1 |-> c]
<1>1. k \in [1..1 -> Safe] /\ k[1] = c
  OBVIOUS
<1> HIDE DEF k
<1>2. Outline(k, <<>>, a, c, x)
  BY <1>1, EmptyList DEF Outline
<1>3. QED
  BY <1>1, <1>2, EmptyList DEF Runs

\* Outlines compose: two lists one after the other.
LEMMA Compose ==
    ASSUME NEW l, NEW m, NEW a, NEW b, NEW c, NEW x, Runs(l, a, b, x), Runs(m, b, c, x)
    PROVE  Runs(l \o m, a, c, x)
<1>1. PICK k \in [1..(Len(l) + 1) -> Safe] : Outline(k, l, a, b, x)
  BY DEF Runs
<1>2. PICK j \in [1..(Len(m) + 1) -> Safe] : Outline(j, m, b, c, x)
  BY DEF Runs
<1>3. /\ IsList(l) /\ IsList(m)
      /\ Len(l) \in Nat /\ Len(m) \in Nat
  BY ListLen DEF Runs
<1>4. /\ IsList(l \o m) /\ Len(l \o m) = Len(l) + Len(m)
      /\ \A i \in 1..Len(l) : (l \o m)[i] = l[i]
      /\ \A i \in 1..Len(m) : (l \o m)[Len(l) + i] = m[i]
  BY <1>3, Joined
<1> DEFINE n == Len(l)
           h == [i \in 1..(n + Len(m) + 1) |-> IF i <= n THEN k[i] ELSE j[i - n]]
<1>5. h \in [1..(Len(l \o m) + 1) -> Safe]
  BY <1>3, <1>4
<1>6. /\ k[1] \subseteq a /\ b \subseteq k[n + 1] /\ j[1] \subseteq b /\ c \subseteq j[Len(m) + 1]
      /\ \A i \in 1..n : Legal(l[i], k[i], k[i + 1], x)
      /\ \A i \in 1..Len(m) : Legal(m[i], j[i], j[i + 1], x)
  BY <1>1, <1>2 DEF Outline
<1>7. /\ \A i \in 1..n : h[i] = k[i]
      /\ \A i \in 1..(Len(m) + 1) : h[n + i] = j[i]
  BY <1>3
<1> HIDE DEF h
<1>8. h[1] \subseteq a
  <2>1. CASE n = 0
    BY <1>3, <1>6, <1>7, <2>1
  <2>2. CASE n # 0
    BY <1>3, <1>6, <1>7, <2>2
  <2>3. QED
    BY <2>1, <2>2
<1>9. c \subseteq h[Len(l \o m) + 1]
  BY <1>3, <1>4, <1>6, <1>7
<1>10. ASSUME NEW i \in 1..Len(l \o m)
       PROVE  Legal((l \o m)[i], h[i], h[i + 1], x)
  <2>1. CASE i < n
    BY <1>3, <1>4, <1>6, <1>7, <2>1
  <2>2. CASE i = n
    <3>1. h[i + 1] = j[1] /\ j[1] \subseteq k[i + 1]
      BY <1>3, <1>6, <1>7, <2>2
    <3>2. Legal(l[i], k[i], k[i + 1], x)
      BY <1>3, <1>4, <1>6, <2>2
    <3>3. Legal(l[i], k[i], j[1], x)
      BY <3>1, <3>2 DEF Legal
    <3>4. QED
      BY <1>3, <1>4, <1>7, <2>2, <3>1, <3>3
  <2>3. CASE i > n
    <3>1. PICK p \in 1..Len(m) : i = n + p
      BY <1>3, <1>4, <2>3
    <3>2. h[i] = j[p] /\ h[i + 1] = j[p + 1] /\ (l \o m)[i] = m[p]
      BY <1>3, <1>4, <1>7, <3>1
    <3>3. QED
      BY <1>6, <3>2
  <2>4. QED
    BY <1>3, <1>4, <2>1, <2>2, <2>3
<1>11. Outline(h, l \o m, a, c, x)
  BY <1>8, <1>9, <1>10 DEF Outline
<1>12. QED
  BY <1>4, <1>5, <1>11 DEF Runs

\* The first statement is executed.
LEMMA Execute ==
    ASSUME NEW l, NEW a, NEW c, NEW x, Runs(l, a, c, x), l # <<>>
    PROVE  \E b \in Safe : Legal(Head(l), a, b, x) /\ Runs(Tail(l), b, c, x)
<1>1. PICK k \in [1..(Len(l) + 1) -> Safe] : Outline(k, l, a, c, x)
  BY DEF Runs
<1>2. IsList(l) /\ Len(l) \in Nat /\ Len(l) > 0
  BY ListLen DEF Runs
<1>3. /\ Head(l) = l[1] /\ IsList(Tail(l)) /\ Len(Tail(l)) = Len(l) - 1
      /\ \A i \in 1..(Len(l) - 1) : Tail(l)[i] = l[i + 1]
  BY <1>2, Rest
<1> DEFINE n == Len(l) - 1
           j == [i \in 1..(n + 1) |-> k[i + 1]]
<1>4. j \in [1..(Len(Tail(l)) + 1) -> Safe]
  BY <1>2, <1>3
<1>5. /\ k[1] \subseteq a /\ c \subseteq k[Len(l) + 1]
      /\ \A i \in 1..Len(l) : Legal(l[i], k[i], k[i + 1], x)
  BY <1>1 DEF Outline
<1>6. \A i \in 1..(n + 1) : j[i] = k[i + 1]
  OBVIOUS
<1> HIDE DEF j
<1>7. k[2] \in Safe /\ j[1] = k[2]
  BY <1>2, <1>6
<1>8. Legal(Head(l), a, k[2], x)
  BY <1>2, <1>3, <1>5, Monotone
<1>9. ASSUME NEW i \in 1..n PROVE Legal(Tail(l)[i], j[i], j[i + 1], x)
  <2>1. Tail(l)[i] = l[i + 1] /\ j[i] = k[i + 1] /\ j[i + 1] = k[(i + 1) + 1] /\ i + 1 \in 1..Len(l)
    BY <1>2, <1>3, <1>6
  <2>2. QED
    BY <1>5, <2>1
<1>10. c \subseteq j[n + 1]
  BY <1>2, <1>5, <1>6
<1>11. Outline(j, Tail(l), k[2], c, x)
  BY <1>2, <1>3, <1>7, <1>9, <1>10 DEF Outline
<1>12. QED
  BY <1>3, <1>4, <1>7, <1>8, <1>11 DEF Runs

\* A list that leaves alone what is known.
Steady(l, a, x) == IsList(l) /\ \A i \in 1..Len(l) : Legal(l[i], a, a, x)

\* A list each of whose statements keeps what is known.
LEMMA SteadyRuns ==
    ASSUME NEW l, NEW a \in Safe, NEW x, Steady(l, a, x)
    PROVE  Runs(l, a, a, x)
<1> DEFINE k == [i \in 1..(Len(l) + 1) |-> a]
<1>1. Len(l) \in Nat
  BY ListLen DEF Steady
<1>2. k \in [1..(Len(l) + 1) -> Safe] /\ \A i \in 1..(Len(l) + 1) : k[i] = a
  OBVIOUS
<1> HIDE DEF k
<1>3. Outline(k, l, a, a, x)
  BY <1>1, <1>2 DEF Outline, Steady
<1>4. QED
  BY <1>2, <1>3 DEF Runs, Steady

\* Two such lists one after the other.
LEMMA SteadyJoined ==
    ASSUME NEW l, NEW m, NEW a, NEW x, Steady(l, a, x), Steady(m, a, x)
    PROVE  Steady(l \o m, a, x)
<1>1. IsList(l) /\ IsList(m) /\ Len(l) \in Nat /\ Len(m) \in Nat
  BY ListLen DEF Steady
<1>2. /\ IsList(l \o m) /\ Len(l \o m) = Len(l) + Len(m)
      /\ \A i \in 1..Len(l) : (l \o m)[i] = l[i]
      /\ \A i \in 1..Len(m) : (l \o m)[Len(l) + i] = m[i]
  BY <1>1, Joined
<1>3. ASSUME NEW i \in 1..Len(l \o m) PROVE Legal((l \o m)[i], a, a, x)
  <2>1. CASE i <= Len(l)
    BY <1>1, <1>2, <2>1 DEF Steady
  <2>2. CASE i > Len(l)
    <3>1. i - Len(l) \in 1..Len(m) /\ i = Len(l) + (i - Len(l))
      BY <1>1, <1>2, <2>2
    <3>2. (l \o m)[i] = m[i - Len(l)]
      BY <1>2, <3>1
    <3>3. QED
      BY <3>1, <3>2 DEF Steady
  <2>3. QED
    BY <1>1, <1>2, <2>1, <2>2
<1>4. QED
  BY <1>2, <1>3 DEF Steady

\* The empty list is one.
LEMMA SteadyEmpty == ASSUME NEW a, NEW x PROVE Steady(<<>>, a, x)
BY EmptyList DEF Steady

\* A list of one statement.
LEMMA One ==
    ASSUME NEW s, NEW a \in Safe, NEW b \in Safe, NEW x, Legal(s, a, b, x)
    PROVE  Runs(<<s>>, a, b, x)
<1> DEFINE k == [i \in 1..2 |-> IF i = 1 THEN a ELSE b]
<1>1. k \in [1..2 -> Safe] /\ k[1] = a /\ k[2] = b
  OBVIOUS
<1> HIDE DEF k
<1>2. IsList(<<s>>) /\ Len(<<s>>) = 1 /\ <<s>>[1] = s
  BY Single
<1>3. Outline(k, <<s>>, a, b, x)
  BY <1>1, <1>2 DEF Outline
<1>4. QED
  BY <1>1, <1>2, <1>3 DEF Runs

\* Literal lists of statements that leave alone what is known.
LEMMA Steady1 ==
    ASSUME NEW a, NEW x, NEW s, Legal(s, a, a, x) PROVE Steady(<<s>>, a, x)
BY Single DEF Steady

\* Lists of two to seven statements that keep what is known.
LEMMA Steady2 ==
    ASSUME NEW a, NEW x, NEW s1, NEW s2,
           Legal(s1, a, a, x), Legal(s2, a, a, x)
    PROVE  Steady(<<s1, s2>>, a, x)
BY Steady1, SteadyJoined, Split2

\* A list of three.
LEMMA Steady3 ==
    ASSUME NEW a, NEW x, NEW s1, NEW s2, NEW s3,
           Legal(s1, a, a, x), Legal(s2, a, a, x), Legal(s3, a, a, x)
    PROVE  Steady(<<s1, s2, s3>>, a, x)
<1>1. Steady(<<s1>>, a, x) /\ Steady(<<s2, s3>>, a, x)
  BY Steady1, Steady2
<1>2. Steady(<<s1>> \o <<s2, s3>>, a, x)
  BY <1>1, SteadyJoined
<1>3. <<s1, s2, s3>> = <<s1>> \o <<s2, s3>>
  BY Split3
<1>4. QED
  BY <1>2, <1>3

\* A list of four.
LEMMA Steady4 ==
    ASSUME NEW a, NEW x, NEW s1, NEW s2, NEW s3, NEW s4,
           Legal(s1, a, a, x), Legal(s2, a, a, x), Legal(s3, a, a, x), Legal(s4, a, a, x)
    PROVE  Steady(<<s1, s2, s3, s4>>, a, x)
<1>1. Steady(<<s1>>, a, x) /\ Steady(<<s2, s3, s4>>, a, x)
  BY Steady1, Steady3
<1>2. Steady(<<s1>> \o <<s2, s3, s4>>, a, x)
  BY <1>1, SteadyJoined
<1>3. <<s1, s2, s3, s4>> = <<s1>> \o <<s2, s3, s4>>
  BY Split4
<1>4. QED
  BY <1>2, <1>3

\* A list of five.
LEMMA Steady5 ==
    ASSUME NEW a, NEW x, NEW s1, NEW s2, NEW s3, NEW s4, NEW s5,
           Legal(s1, a, a, x), Legal(s2, a, a, x), Legal(s3, a, a, x), Legal(s4, a, a, x),
           Legal(s5, a, a, x)
    PROVE  Steady(<<s1, s2, s3, s4, s5>>, a, x)
<1>1. Steady(<<s1>>, a, x) /\ Steady(<<s2, s3, s4, s5>>, a, x)
  BY Steady1, Steady4
<1>2. Steady(<<s1>> \o <<s2, s3, s4, s5>>, a, x)
  BY <1>1, SteadyJoined
<1>3. <<s1, s2, s3, s4, s5>> = <<s1>> \o <<s2, s3, s4, s5>>
  BY Split5
<1>4. QED
  BY <1>2, <1>3

\* A list of six.
LEMMA Steady6 ==
    ASSUME NEW a, NEW x, NEW s1, NEW s2, NEW s3, NEW s4, NEW s5, NEW s6,
           Legal(s1, a, a, x), Legal(s2, a, a, x), Legal(s3, a, a, x), Legal(s4, a, a, x),
           Legal(s5, a, a, x), Legal(s6, a, a, x)
    PROVE  Steady(<<s1, s2, s3, s4, s5, s6>>, a, x)
<1>1. Steady(<<s1>>, a, x) /\ Steady(<<s2, s3, s4, s5, s6>>, a, x)
  BY Steady1, Steady5
<1>2. Steady(<<s1>> \o <<s2, s3, s4, s5, s6>>, a, x)
  BY <1>1, SteadyJoined
<1>3. <<s1, s2, s3, s4, s5, s6>> = <<s1>> \o <<s2, s3, s4, s5, s6>>
  BY Split6
<1>4. QED
  BY <1>2, <1>3

\* A list of seven.
LEMMA Steady7 ==
    ASSUME NEW a, NEW x, NEW s1, NEW s2, NEW s3, NEW s4, NEW s5, NEW s6, NEW s7,
           Legal(s1, a, a, x), Legal(s2, a, a, x), Legal(s3, a, a, x), Legal(s4, a, a, x),
           Legal(s5, a, a, x), Legal(s6, a, a, x), Legal(s7, a, a, x)
    PROVE  Steady(<<s1, s2, s3, s4, s5, s6, s7>>, a, x)
<1>1. Steady(<<s1>>, a, x) /\ Steady(<<s2, s3, s4, s5, s6, s7>>, a, x)
  BY Steady1, Steady6
<1>2. Steady(<<s1>> \o <<s2, s3, s4, s5, s6, s7>>, a, x)
  BY <1>1, SteadyJoined
<1>3. <<s1, s2, s3, s4, s5, s6, s7>> = <<s1>> \o <<s2, s3, s4, s5, s6, s7>>
  BY Split7
<1>4. QED
  BY <1>2, <1>3
------------------------------------------------------------------------------
(* Statements *)

\* The fields that some fact is about.
Special == Borrowed \cup {"SYSDBGCTL", "SYSPLLMULT", "PLLEN", "PLLCLKEN", "PLLSYSCLKDIV",
                          "ADCA_RESOLUTION", "ADCA_SIGNALMODE", "ADCA_INLTRIM_LOW", "ADCA_OFFTRIM"}

\* The fields that are borrowed, by name.
LEMMA BorrowedFields ==
    Borrowed = {"INTM", "DBGM", "WDDIS", "WDPS", "WDWCR", "WDENINT",
                "TMR2CLKSRCSEL", "TMR2CLKPRESCALE", "TSS", "TIE", "PRD", "TPR"}
BY DEF Borrowed, TimerFields

\* What a write needs, spoils and gives.
LEMMA Write ==
    ASSUME NEW K, NEW v, NEW unit, NEW a, NEW x
    PROVE  /\ After(Of(unit, K, v), a, x) = (a \ Spoiled(K)) \cup Given(K, v, a, x)
           /\ Admits(Of(unit, K, v), a, x) <=> AdmitsWrite(K, v, unit, a, x)
<1> DEFINE s == Of(unit, K, v)
<1>1. s.kind = "reg" /\ s.keys = K /\ s.val = v /\ s.unit = unit
  BY DEF Of
<1> HIDE DEF s
<1>2. After(s, a, x) = (a \ Spoiled(K)) \cup Given(K, v, a, x)
  BY <1>1 DEF After
<1>3. Admits(s, a, x) <=> AdmitsWrite(K, v, unit, a, x)
  BY <1>1 DEF Admits
<1>4. QED
  BY <1>2, <1>3 DEF s

\* A write that no fact is about.
LEMMA PlainWrite ==
    ASSUME NEW K, NEW v, NEW unit, NEW a, NEW x, K \cap Special = {},
           K \subseteq Unprotected \/ "open" \in a,
           unit = {} \/ (unit \subseteq Peripherals /\ "powered" \in a /\ K \cap Fields = {})
    PROVE  Legal(Of(unit, K, v), a, a, x)
<1>1. Spoiled(K) = {}
  BY BorrowedFields DEF Spoiled, Touched, Special
<1>2. AdmitsWrite(K, v, unit, a, x)
  BY BorrowedFields DEF AdmitsWrite, Special, Clocked
<1>3. QED
  BY <1>1, <1>2, Write DEF Legal

\* Pins are configured under EALLOW.
LEMMA PinWrite ==
    ASSUME NEW p, NEW f, NEW v, NEW a, NEW x, "open" \in a
    PROVE  Legal(Pin(p, f, v), a, a, x)
<1> DEFINE s == Pin(p, f, v)
<1>1. s.kind = "pin"
  BY DEF Pin
<1> HIDE DEF s
<1>2. Legal(s, a, a, x)
  BY <1>1 DEF Legal, Admits, After
<1>3. QED
  BY <1>2 DEF s

\* Statements that nothing is known of.
LEMMA Other ==
    ASSUME NEW s, NEW a, NEW x, s.kind \in {"data", "seize", "pie", "flags", "ack"}
    PROVE  Legal(s, a, a, x)
BY DEF Legal, Admits, After

\* EALLOW and EDIS.
LEMMA Allowed ==
    ASSUME NEW a, NEW x
    PROVE  /\ Legal(EALLOW, a, a \cup {"open"}, x)
           /\ Legal(EDIS, a, a \ {"open"}, x)
<1>1. /\ EALLOW.kind = "protect" /\ EALLOW.on = FALSE
      /\ EDIS.kind = "protect" /\ EDIS.on = TRUE
  BY DEF EALLOW, EDIS
<1> HIDE DEF EALLOW, EDIS
<1>2. QED
  BY <1>1 DEF Legal, Admits, After

\* Whether EALLOW is set does not matter to a routine.
LEMMA Stays ==
    ASSUME NEW a \in Safe
    PROVE  a \cup {"open"} \in Safe /\ a \ {"open"} \in Safe
BY DEF Safe, ForRoutine, Facts

\* A list between EALLOW and EDIS.
LEMMA Guarded ==
    ASSUME NEW l, NEW a \in Safe, NEW b \in Safe, NEW x, Runs(l, a \cup {"open"}, b, x)
    PROVE  Runs(Protected(l), a, b \ {"open"}, x)
<1>1. Runs(<<EALLOW>>, a, a \cup {"open"}, x)
  BY Stays, Allowed, One
<1>2. Runs(<<EDIS>>, b, b \ {"open"}, x)
  BY Stays, Allowed, One
<1>3. Runs(<<EALLOW>> \o l, a, b, x)
  BY <1>1, Compose
<1>4. QED
  BY <1>2, <1>3, Compose DEF Protected

\* Such a list, of statements that keep what is known.
LEMMA GuardedSteady ==
    ASSUME NEW l, NEW a \in Safe, NEW x, "open" \notin a, Steady(l, a \cup {"open"}, x)
    PROVE  Runs(Protected(l), a, a, x)
<1>1. Runs(l, a \cup {"open"}, a \cup {"open"}, x)
  BY Stays, SteadyRuns
<1>2. (a \cup {"open"}) \ {"open"} = a
  OBVIOUS
<1>3. QED
  BY <1>1, <1>2, Stays, Guarded

------------------------------------------------------------------------------
(* The functions that leave alone what is known *)

\* A write that no fact is about, under EALLOW.
LEMMA PlainSet ==
    ASSUME NEW K, NEW v, NEW a, NEW x, K \cap Special = {}
    PROVE  Legal(Set(K, v), a \cup {"open"}, a \cup {"open"}, x)
<1> DEFINE b == a \cup {"open"}
<1>1. "open" \in b
  OBVIOUS
<1> HIDE DEF b
<1>2. Legal(Set(K, v), b, b, x)
  BY <1>1, PlainWrite DEF Set
<1>3. QED
  BY <1>2 DEF b

\* One and two statements between EALLOW and EDIS.
LEMMA Guarded1 ==
    ASSUME NEW s1, NEW a \in Safe, NEW x, "open" \notin a, Legal(s1, a \cup {"open"}, a \cup {"open"}, x)
    PROVE  Runs(Protected(<<s1>>), a, a, x)
BY Steady1, GuardedSteady

\* Two statements.
LEMMA Guarded2 ==
    ASSUME NEW s1, NEW s2, NEW a \in Safe, NEW x, "open" \notin a,
           Legal(s1, a \cup {"open"}, a \cup {"open"}, x),
           Legal(s2, a \cup {"open"}, a \cup {"open"}, x)
    PROVE  Runs(Protected(<<s1, s2>>), a, a, x)
BY Steady2, GuardedSteady

\* The clock sources of both PLLs (SysCtrl.c).
LEMMA ClockSources ==
    ASSUME NEW a \in Safe, NEW x, "open" \notin a
    PROVE  /\ Runs(SysIntOsc1Sel, a, a, x) /\ Runs(SysIntOsc2Sel, a, a, x)
           /\ Runs(SysXtalOscSel, a, a, x)
           /\ Runs(AuxIntOsc2Sel, a, a, x) /\ Runs(AuxXtalOscSel, a, a, x)
           /\ Runs(AuxAuxClkSel, a, a, x)
<1>1. /\ {"INTOSC2OFF"} \cap Special = {} /\ {"XTALOFF"} \cap Special = {}
      /\ {"OSCCLKSRCSEL"} \cap Special = {} /\ {"AUXOSCCLKSRCSEL"} \cap Special = {}
  BY BorrowedFields DEF Special
<1>2. Runs(SysIntOsc1Sel, a, a, x) /\ Runs(AuxAuxClkSel, a, a, x)
  BY <1>1, PlainSet, Guarded1 DEF SysIntOsc1Sel, AuxAuxClkSel
<1>3. Runs(SysIntOsc2Sel, a, a, x) /\ Runs(SysXtalOscSel, a, a, x)
  BY <1>1, PlainSet, Guarded2 DEF SysIntOsc2Sel, SysXtalOscSel
<1>4. Runs(AuxIntOsc2Sel, a, a, x) /\ Runs(AuxXtalOscSel, a, a, x)
  BY <1>1, PlainSet, Guarded2 DEF AuxIntOsc2Sel, AuxXtalOscSel
<1>5. QED
  BY <1>2, <1>3, <1>4

\* The registers of the flash banks are in no fact.
LEMMA FlashFields ==
    \A b \in {Flash0CtrlRegs, Flash1CtrlRegs} :
      /\ b.VREADST \cap Special = {} /\ b.PMPPWR \cap Special = {} /\ b.BNKPWR \cap Special = {}
      /\ b.RWAIT \cap Special = {} /\ b.FRD_INTF_CTRL \cap Special = {}
      /\ b.ECC_ENABLE \cap Special = {}
BY BorrowedFields DEF Flash0CtrlRegs, Flash1CtrlRegs, Special

\* The flash banks: set up, and turned off.
LEMMA FlashRuns ==
    ASSUME NEW a \in Safe, NEW x, "open" \notin a
    PROVE  /\ Runs(InitFlash_Bank0, a, a, x) /\ Runs(InitFlash_Bank1, a, a, x)
           /\ Runs(FlashOff_Bank0, a, a, x) /\ Runs(FlashOff_Bank1, a, a, x)
<1>1. ASSUME NEW b, b \in {Flash0CtrlRegs, Flash1CtrlRegs}
      PROVE  Runs(InitFlash(b), a, a, x) /\ Runs(FlashOff(b), a, a, x)
  <2> DEFINE s(K, v) == Set(K, v)
             L(K, v) == Legal(Set(K, v), a \cup {"open"}, a \cup {"open"}, x)
  <2>1. /\ L(b.VREADST, 20) /\ L(b.PMPPWR, 1) /\ L(b.BNKPWR, 3) /\ L(b.FRD_INTF_CTRL, 0)
        /\ L(b.RWAIT, 3) /\ L(b.FRD_INTF_CTRL, 1) /\ L(b.ECC_ENABLE, 10)
        /\ L(b.BNKPWR, 0) /\ L(b.PMPPWR, 0)
    BY <1>1, FlashFields, PlainSet
  <2>2. Steady(<<Set(b.VREADST, 20), Set(b.PMPPWR, 1), Set(b.BNKPWR, 3), Set(b.FRD_INTF_CTRL, 0),
                 Set(b.RWAIT, 3), Set(b.FRD_INTF_CTRL, 1), Set(b.ECC_ENABLE, 10)>>, a \cup {"open"}, x)
    BY <2>1, Steady7
  <2>3. Steady(<<Set(b.VREADST, 20), Set(b.BNKPWR, 0), Set(b.PMPPWR, 0)>>, a \cup {"open"}, x)
    BY <2>1, Steady3
  <2>4. QED
    BY <2>2, <2>3, GuardedSteady DEF InitFlash, FlashOff
<1>2. QED
  BY <1>1 DEF InitFlash_Bank0, InitFlash_Bank1, FlashOff_Bank0, FlashOff_Bank1

\* The watchdog: serviced, and disabled.
LEMMA DogRuns ==
    ASSUME NEW a \in Safe, NEW x, "open" \notin a
    PROVE  /\ Runs(ServiceDog, a, a, x)
           /\ "WDDIS" \notin a => Runs(DisableDog, a, a, x)
<1>1. {"WDKEY"} \cap Special = {}
  BY BorrowedFields DEF Special
<1>2. Runs(ServiceDog, a, a, x)
  BY <1>1, PlainSet, Guarded1 DEF ServiceDog
<1>3. ASSUME "WDDIS" \notin a PROVE Runs(DisableDog, a, a, x)
  <2> DEFINE b == a \cup {"open"}
  <2>1. Spoiled({"WDDIS"}) = {"WDDIS"}
    BY BorrowedFields DEF Spoiled, Touched
  <2>2. AdmitsWrite({"WDDIS"}, 1, {}, b, x)
    BY DEF AdmitsWrite, Clocked
  <2>3. Legal(Set({"WDDIS"}, 1), b, b, x)
    BY <1>3, <2>1, <2>2, Write DEF Legal, Set
  <2>4. QED
    BY <2>3, Guarded1 DEF DisableDog
<1>4. QED
  BY <1>2, <1>3

\* The flash pump and the passwords.
LEMMA PumpRuns ==
    ASSUME NEW a \in Safe, NEW x, "open" \notin a
    PROVE  /\ Runs(SeizeFlashPump_Bank0, a, a, x) /\ Runs(SeizeFlashPump_Bank1, a, a, x)
           /\ Runs(ReleaseFlashPump, a, a, x) /\ Runs(CsmUnlock, a, a, x)
<1>1. /\ {"PUMP_OWNERSHIP"} \cap Special = {}
      /\ {"Z1_CSMKEY0", "Z1_CSMKEY1", "Z1_CSMKEY2", "Z1_CSMKEY3"} \cap Special = {}
      /\ {"Z2_CSMKEY0", "Z2_CSMKEY1", "Z2_CSMKEY2", "Z2_CSMKEY3"} \cap Special = {}
  BY BorrowedFields DEF Special
<1>2. ASSUME NEW n PROVE Runs(Protected(<<[kind |-> "seize", owner |-> n]>>), a, a, x)
  <2> DEFINE s == [kind |-> "seize", owner |-> n]
  <2>1. s.kind = "seize"
    OBVIOUS
  <2> HIDE DEF s
  <2>2. Legal(s, a \cup {"open"}, a \cup {"open"}, x)
    BY <2>1, Other
  <2>3. Runs(Protected(<<s>>), a, a, x)
    BY <2>2, Guarded1
  <2>4. QED
    BY <2>3 DEF s
<1>3. Runs(ReleaseFlashPump, a, a, x)
  BY <1>1, PlainSet, Guarded1 DEF ReleaseFlashPump
<1>4. Runs(CsmUnlock, a, a, x)
  <2>1. ASSUME NEW K, NEW M, K \cap Special = {}, M \cap Special = {}
        PROVE  Runs(Protected(<<Set(K, -1), Set(M, -1)>>), a, a, x)
    <3>1. Legal(Set(K, -1), a \cup {"open"}, a \cup {"open"}, x)
      BY <2>1, PlainSet
    <3>2. Legal(Set(M, -1), a \cup {"open"}, a \cup {"open"}, x)
      BY <2>1, PlainSet
    <3>3. QED
      BY <3>1, <3>2, Guarded2
  <2>2. QED
    BY <1>1, <2>1 DEF CsmUnlock
<1>5. QED
  BY <1>2, <1>3, <1>4 DEF SeizeFlashPump_Bank0, SeizeFlashPump_Bank1

\* The clocks of the peripherals.
LEMMA GateLegal ==
    ASSUME NEW K, NEW on, NEW a, NEW x, AdmitsGate(K, on, a, x)
    PROVE  Legal(Gate(K, on), a, AfterGate(K, on, a), x)
<1> DEFINE s == Gate(K, on)
<1>1. s.kind = "gate" /\ s.keys = K /\ s.on = on
  BY DEF Gate
<1> HIDE DEF s
<1>2. Admits(s, a, x) /\ After(s, a, x) = AfterGate(K, on, a)
  BY <1>1 DEF Admits, After
<1>3. QED
  BY <1>2 DEF Legal, s

\* They are turned on, and off when the trims of the ADC fit, which nothing can change then.
LEMMA ClocksRun ==
    ASSUME NEW a \in Safe, NEW x, "open" \notin a
    PROVE  /\ Powered(a) \in Safe /\ "open" \notin Powered(a)
           /\ Runs(InitPeripheralClocks, a, Powered(a), x)
           /\ "matched" \in a /\ "ungated" \notin a => Runs(DisablePeripheralClocks, a, a, x)
<1> DEFINE b == a \cup {"open"}
           G(on, c) == Legal(Gate(Peripherals, on), b, c, x)
<1>1. b \in Safe /\ Powered(b) \in Safe /\ Powered(a) \in Safe
  BY Stays DEF Safe, ForRoutine, Facts, TrimFacts, Powered
<1>2. Powered(b) \ {"open"} = Powered(a) /\ b \ {"open"} = a /\ "open" \notin Powered(a) /\ "open" \in b
  BY DEF Powered, TrimFacts
<1>3. G(TRUE, Powered(b))
  <2> HIDE DEF b
  <2>1. AdmitsGate(Peripherals, TRUE, b, x)
    BY <1>2 DEF AdmitsGate
  <2>2. AfterGate(Peripherals, TRUE, b) = Powered(b)
    BY DEF AfterGate
  <2>3. QED
    BY <2>1, <2>2, GateLegal
<1>4. ASSUME "matched" \in a, "ungated" \notin a PROVE G(FALSE, b)
  <2>1. "matched" \in b /\ b \ {"ungated"} = b
    BY <1>4
  <2> HIDE DEF b
  <2>2. AdmitsGate(Peripherals, FALSE, b, x)
    BY <1>2, <2>1 DEF AdmitsGate
  <2>3. AfterGate(Peripherals, FALSE, b) = b
    BY <2>1 DEF AfterGate
  <2>4. QED
    BY <2>2, <2>3, GateLegal
<1>5. Runs(<<Gate(Peripherals, TRUE)>>, b, Powered(b), x)
  BY <1>1, <1>3, One
<1>6. ASSUME "matched" \in a, "ungated" \notin a PROVE Runs(<<Gate(Peripherals, FALSE)>>, b, b, x)
  BY <1>1, <1>4, <1>6, One
<1>7. Runs(InitPeripheralClocks, a, Powered(b) \ {"open"}, x)
  BY <1>1, <1>5, Guarded DEF InitPeripheralClocks
<1>8. ASSUME "matched" \in a, "ungated" \notin a
      PROVE  Runs(DisablePeripheralClocks, a, b \ {"open"}, x)
  BY <1>1, <1>6, <1>8, Guarded DEF DisablePeripheralClocks
<1>9. QED
  BY <1>1, <1>2, <1>7, <1>8

\* The modules whose clock is looked at are among the peripherals.
LEMMA UnitsPowered ==
    /\ SPIA \subseteq Peripherals /\ SPIB \subseteq Peripherals /\ Converters \subseteq Peripherals
    /\ AdcaRegs.unit \subseteq Peripherals /\ AdcaRegs.unit = {<<"ADC", "A">>}
BY DEF SPIA, SPIB, Peripherals, Converters, Units, AdcaRegs

\* InitSpi() needs the clock of the SPI.
LEMMA SpiRuns ==
    ASSUME NEW a \in Safe, NEW x, "powered" \in a
    PROVE  Runs(InitSpi, a, a, x)
<1>1. /\ {"SPIA_SPISWRESET", "SPIA_CLKPOLARITY"} \cap Special = {}
      /\ {"SPIA_SPICHAR"} \cap Special = {}
      /\ {"SPIA_SPILBK", "SPIA_MASTER_SLAVE", "SPIA_TALK"} \cap Special = {}
      /\ {"SPIA_CLK_PHASE", "SPIA_SPIINTENA"} \cap Special = {}
      /\ {"SPIA_SPI_BIT_RATE"} \cap Special = {} /\ {"SPIA_FREE"} \cap Special = {}
      /\ {"SPIA_SPISWRESET"} \cap Special = {}
  BY BorrowedFields DEF Special
<1>2. /\ {"SPIA_SPISWRESET", "SPIA_CLKPOLARITY"} \subseteq Unprotected
      /\ {"SPIA_SPICHAR"} \subseteq Unprotected
      /\ {"SPIA_SPILBK", "SPIA_MASTER_SLAVE", "SPIA_TALK"} \subseteq Unprotected
      /\ {"SPIA_CLK_PHASE", "SPIA_SPIINTENA"} \subseteq Unprotected
      /\ {"SPIA_SPI_BIT_RATE"} \subseteq Unprotected /\ {"SPIA_FREE"} \subseteq Unprotected
      /\ {"SPIA_SPISWRESET"} \subseteq Unprotected
  BY DEF Unprotected
<1> DEFINE L(K, v) == Legal(Of(SPIA, K, v), a, a, x)
<1>3. ASSUME NEW K, NEW v, K \cap Special = {}, K \subseteq Unprotected, K \cap Fields = {} PROVE L(K, v)
  BY <1>3, UnitsPowered, PlainWrite
<1>4. /\ L({"SPIA_SPISWRESET", "SPIA_CLKPOLARITY"}, 0) /\ L({"SPIA_SPICHAR"}, 15)
      /\ L({"SPIA_SPILBK", "SPIA_MASTER_SLAVE", "SPIA_TALK"}, 1)
      /\ L({"SPIA_CLK_PHASE", "SPIA_SPIINTENA"}, 0)
      /\ L({"SPIA_SPI_BIT_RATE"}, 99) /\ L({"SPIA_FREE"}, 1) /\ L({"SPIA_SPISWRESET"}, 1)
  <2>1. /\ {"SPIA_SPISWRESET", "SPIA_CLKPOLARITY"} \cap Fields = {}
        /\ {"SPIA_SPICHAR"} \cap Fields = {}
        /\ {"SPIA_SPILBK", "SPIA_MASTER_SLAVE", "SPIA_TALK"} \cap Fields = {}
        /\ {"SPIA_CLK_PHASE", "SPIA_SPIINTENA"} \cap Fields = {}
        /\ {"SPIA_SPI_BIT_RATE"} \cap Fields = {} /\ {"SPIA_FREE"} \cap Fields = {}
        /\ {"SPIA_SPISWRESET"} \cap Fields = {}
    BY DEF Fields, TimerFields, References
  <2>2. QED
    BY <1>1, <1>2, <1>3, <2>1
<1>5. Steady(InitSpi, a, x)
  BY <1>4, Steady7 DEF InitSpi
<1>6. QED
  BY <1>5, SteadyRuns

------------------------------------------------------------------------------
(* Lists along a chain of facts *)

\* A list needs no more than it needs and promises no more than it keeps.
LEMMA Weaken ==
    ASSUME NEW l, NEW a, NEW b, NEW c, NEW d, NEW x, Runs(l, a, c, x), a \subseteq b, d \subseteq c
    PROVE  Runs(l, b, d, x)
BY DEF Runs, Outline

\* Lists of two to six statements that change what is known.
LEMMA Chain2 ==
    ASSUME NEW a \in Safe, NEW b \in Safe, NEW c \in Safe, NEW x, NEW s1, NEW s2,
           Legal(s1, a, b, x), Legal(s2, b, c, x)
    PROVE  Runs(<<s1, s2>>, a, c, x)
<1>1. Runs(<<s1>>, a, b, x) /\ Runs(<<s2>>, b, c, x)
  BY One
<1>2. Runs(<<s1>> \o <<s2>>, a, c, x)
  BY <1>1, Compose
<1>3. <<s1, s2>> = <<s1>> \o <<s2>>
  BY Split2
<1>4. QED
  BY <1>2, <1>3

\* A list of three.
LEMMA Chain3 ==
    ASSUME NEW a \in Safe, NEW b \in Safe, NEW c \in Safe, NEW d \in Safe, NEW x, NEW s1,
           NEW s2, NEW s3,
           Legal(s1, a, b, x), Legal(s2, b, c, x), Legal(s3, c, d, x)
    PROVE  Runs(<<s1, s2, s3>>, a, d, x)
<1>1. Runs(<<s1>>, a, b, x) /\ Runs(<<s2, s3>>, b, d, x)
  BY One, Chain2
<1>2. Runs(<<s1>> \o <<s2, s3>>, a, d, x)
  BY <1>1, Compose
<1>3. <<s1, s2, s3>> = <<s1>> \o <<s2, s3>>
  BY Split3
<1>4. QED
  BY <1>2, <1>3

\* A list of four.
LEMMA Chain4 ==
    ASSUME NEW a \in Safe, NEW b \in Safe, NEW c \in Safe, NEW d \in Safe, NEW e \in Safe,
           NEW x, NEW s1, NEW s2, NEW s3, NEW s4,
           Legal(s1, a, b, x), Legal(s2, b, c, x), Legal(s3, c, d, x), Legal(s4, d, e, x)
    PROVE  Runs(<<s1, s2, s3, s4>>, a, e, x)
<1>1. Runs(<<s1>>, a, b, x) /\ Runs(<<s2, s3, s4>>, b, e, x)
  BY One, Chain3
<1>2. Runs(<<s1>> \o <<s2, s3, s4>>, a, e, x)
  BY <1>1, Compose
<1>3. <<s1, s2, s3, s4>> = <<s1>> \o <<s2, s3, s4>>
  BY Split4
<1>4. QED
  BY <1>2, <1>3

\* A list of five.
LEMMA Chain5 ==
    ASSUME NEW a \in Safe, NEW b \in Safe, NEW c \in Safe, NEW d \in Safe, NEW e \in Safe,
           NEW f \in Safe, NEW x, NEW s1, NEW s2, NEW s3, NEW s4, NEW s5,
           Legal(s1, a, b, x), Legal(s2, b, c, x), Legal(s3, c, d, x), Legal(s4, d, e, x),
           Legal(s5, e, f, x)
    PROVE  Runs(<<s1, s2, s3, s4, s5>>, a, f, x)
<1>1. Runs(<<s1>>, a, b, x) /\ Runs(<<s2, s3, s4, s5>>, b, f, x)
  BY One, Chain4
<1>2. Runs(<<s1>> \o <<s2, s3, s4, s5>>, a, f, x)
  BY <1>1, Compose
<1>3. <<s1, s2, s3, s4, s5>> = <<s1>> \o <<s2, s3, s4, s5>>
  BY Split5
<1>4. QED
  BY <1>2, <1>3

\* A list of six.
LEMMA Chain6 ==
    ASSUME NEW a \in Safe, NEW b \in Safe, NEW c \in Safe, NEW d \in Safe, NEW e \in Safe,
           NEW f \in Safe, NEW g \in Safe, NEW x, NEW s1, NEW s2, NEW s3, NEW s4, NEW s5, NEW s6,
           Legal(s1, a, b, x), Legal(s2, b, c, x), Legal(s3, c, d, x), Legal(s4, d, e, x),
           Legal(s5, e, f, x), Legal(s6, f, g, x)
    PROVE  Runs(<<s1, s2, s3, s4, s5, s6>>, a, g, x)
<1>1. Runs(<<s1>>, a, b, x) /\ Runs(<<s2, s3, s4, s5, s6>>, b, g, x)
  BY One, Chain5
<1>2. Runs(<<s1>> \o <<s2, s3, s4, s5, s6>>, a, g, x)
  BY <1>1, Compose
<1>3. <<s1, s2, s3, s4, s5, s6>> = <<s1>> \o <<s2, s3, s4, s5, s6>>
  BY Split6
<1>4. QED
  BY <1>2, <1>3

------------------------------------------------------------------------------
(* Writes to the registers that facts are about *)

\* A write to registers that need no clock.
LEMMA WriteLegal ==
    ASSUME NEW K, NEW v, NEW a, NEW b, NEW x, AdmitsWrite(K, v, {}, a, x),
           b \subseteq (a \ Spoiled(K)) \cup Given(K, v, a, x)
    PROVE  Legal(Set(K, v), a, b, x)
BY Write DEF Legal, Set

\* What writes to the system PLL spoil.
LEMMA PllSpoiled ==
    /\ Spoiled({"PLLCLKEN"}) = {"off"} /\ Spoiled({"PLLEN"}) = {"ready"}
    /\ Spoiled({"SYSPLLMULT"}) = {"fresh", "ready"} /\ Spoiled({"PLLSYSCLKDIV"}) = {"slow"}
    /\ Spoiled({"SYSDBGCTL"}) = {"marked", "clear"}
BY BorrowedFields DEF Spoiled, Touched

\* What they need and give.
LEMMA PllWrites ==
    ASSUME NEW a, NEW x, NEW v, "open" \in a
    PROVE  /\ Legal(Set({"PLLCLKEN"}, 0), a, a \cup {"off"}, x)
           /\ {"marked", "ready", "slow"} \subseteq a
                 => Legal(Set({"PLLCLKEN"}, 1), a, a \ {"off"}, x)
           /\ "off" \in a => /\ Legal(Set({"PLLEN"}, 0), a, a \ {"ready"}, x)
                             /\ Legal(Set({"SYSPLLMULT"}, v), a, a \ {"fresh", "ready"}, x)
           /\ Legal(Set({"PLLSYSCLKDIV"}, v), a, a \ {"slow"}, x)
           /\ Legal(Set({"PLLSYSCLKDIV"}, Slower(x.div)), a, a \cup {"slow"}, x)
           /\ Legal(Set({"SYSDBGCTL"}, 1), a, (a \ {"clear"}) \cup {"marked"}, x)
           /\ Legal(Set({"SYSDBGCTL"}, 0), a, (a \ {"marked"}) \cup {"clear"}, x)
<1>1. Legal(Set({"PLLCLKEN"}, 0), a, a \cup {"off"}, x)
  BY PllSpoiled, WriteLegal DEF AdmitsWrite, Clocked, Given, GivenPll, When
<1>2. ASSUME {"marked", "ready", "slow"} \subseteq a
      PROVE  Legal(Set({"PLLCLKEN"}, 1), a, a \ {"off"}, x)
  BY <1>2, PllSpoiled, WriteLegal DEF AdmitsWrite, Clocked
<1>3. ASSUME "off" \in a
      PROVE  /\ Legal(Set({"PLLEN"}, 0), a, a \ {"ready"}, x)
             /\ Legal(Set({"SYSPLLMULT"}, v), a, a \ {"fresh", "ready"}, x)
  <2>1. AdmitsWrite({"PLLEN"}, 0, {}, a, x) /\ AdmitsWrite({"SYSPLLMULT"}, v, {}, a, x)
    BY <1>3 DEF AdmitsWrite, Clocked
  <2>2. QED
    BY <2>1, PllSpoiled, WriteLegal
<1>4. Legal(Set({"PLLSYSCLKDIV"}, v), a, a \ {"slow"}, x)
  BY PllSpoiled, WriteLegal DEF AdmitsWrite, Clocked
<1>5. Legal(Set({"PLLSYSCLKDIV"}, Slower(x.div)), a, a \cup {"slow"}, x)
  BY PllSpoiled, WriteLegal DEF AdmitsWrite, Clocked, Given, GivenPll, When
<1>6. Legal(Set({"SYSDBGCTL"}, 1), a, (a \ {"clear"}) \cup {"marked"}, x)
  BY PllSpoiled, WriteLegal DEF AdmitsWrite, Clocked, Given, GivenPll, When
<1>7. Legal(Set({"SYSDBGCTL"}, 0), a, (a \ {"marked"}) \cup {"clear"}, x)
  BY PllSpoiled, WriteLegal DEF AdmitsWrite, Clocked, Given, GivenPll, When
<1>8. QED
  BY <1>1, <1>2, <1>3, <1>4, <1>5, <1>6, <1>7

\* Waiting for a lock.
LEMMA AwaitLegal ==
    ASSUME NEW a, NEW x
    PROVE  /\ Legal(Await("LOCKS"), a, a \cup {"ready"}, x)
           /\ \A what : Legal(Await(what), a, a, x)
<1>1. ASSUME NEW what
      PROVE  /\ Admits(Await(what), a, x)
             /\ After(Await(what), a, x) = a \cup When(what = "LOCKS", {"ready"})
  <2> DEFINE s == Await(what)
  <2>1. s.kind = "await" /\ s.what = what
    BY DEF Await
  <2> HIDE DEF s
  <2>2. Admits(s, a, x) /\ After(s, a, x) = a \cup When(what = "LOCKS", {"ready"})
    BY <2>1 DEF Admits, After
  <2>3. QED
    BY <2>2 DEF s
<1>2. QED
  BY <1>1 DEF Legal, When

\* A low-power mode.
LEMMA SleepLegal ==
    ASSUME NEW mode, NEW a, NEW x
    PROVE  Legal(Sleep(mode), a, AfterSleep(mode, a), x)
<1> DEFINE s == Sleep(mode)
<1>1. s.kind = "sleep" /\ s.mode = mode
  BY DEF Sleep
<1> HIDE DEF s
<1>2. Admits(s, a, x) /\ After(s, a, x) = AfterSleep(mode, a)
  BY <1>1 DEF Admits, After
<1>3. QED
  BY <1>2 DEF Legal, s

\* The PLL is bypassed and turned off, for HALT and HIB.
LEMMA PllOffRuns ==
    ASSUME NEW a \in Safe, NEW x, "open" \in a
    PROVE  Runs(PllOff, a, a \ {"ready"}, x)
<1> DEFINE b == a \cup {"off"}
<1>1. b \in Safe /\ a \ {"ready"} \in Safe
  BY DEF Safe, ForRoutine, Facts
<1>2. "open" \in b /\ "off" \in b /\ a \ {"ready"} \subseteq b \ {"ready"}
  OBVIOUS
<1>3. Legal(Set({"PLLCLKEN"}, 0), a, b, x)
  BY PllWrites
<1> HIDE DEF b
<1>4. Legal(Set({"PLLEN"}, 0), b, b \ {"ready"}, x)
  BY <1>2, PllWrites
<1>5. Legal(Set({"PLLEN"}, 0), b, a \ {"ready"}, x)
  BY <1>2, <1>4 DEF Legal
<1>6. QED
  BY <1>1, <1>3, <1>5, Chain2 DEF PllOff

\* The modes of sleep: HIB is left only by a reset, so that nothing is known after it.
LEMMA SleepRuns ==
    ASSUME NEW a \in Safe, NEW x, "open" \notin a
    PROVE  /\ Runs(IDLE, a, a, x) /\ Runs(STANDBY, a, a, x) /\ Runs(HALT, a, a, x)
           /\ "matched" \in a /\ "ungated" \notin a => Runs(HIB, a, a, x)
<1>1. {"LPM"} \cap Special = {}
  BY BorrowedFields DEF Special
<1>2. ASSUME NEW v, NEW mode \in {"IDLE", "STANDBY"}
      PROVE  Runs(Protected(<<Set({"LPM"}, v)>>) \o <<Sleep(mode)>>, a, a, x)
  <2>1. Runs(Protected(<<Set({"LPM"}, v)>>), a, a, x)
    BY <1>1, PlainSet, Guarded1
  <2>2. AfterSleep(mode, a) = a
    BY DEF AfterSleep
  <2>3. Runs(<<Sleep(mode)>>, a, a, x)
    BY <2>2, SleepLegal, One
  <2>4. QED
    BY <2>1, <2>3, Compose
<1> DEFINE b == a \cup {"open"}
<1>3. b \in Safe /\ a \ {"ready"} \in Safe /\ b \ {"ready"} \in Safe
  BY Stays DEF Safe, ForRoutine, Facts
<1>4. (b \ {"ready"}) \ {"open"} = a \ {"ready"} /\ "open" \in b
  OBVIOUS
<1>5. Runs(HALT, a, a, x)
  <2>1. Legal(Set({"LPM"}, 2), b, b, x)
    BY <1>1, PlainSet
  <2>2. Runs(<<Set({"LPM"}, 2)>>, b, b, x)
    BY <1>3, <2>1, One
  <2> HIDE DEF b
  <2>3. Runs(<<Set({"LPM"}, 2)>> \o PllOff, b, b \ {"ready"}, x)
    BY <1>3, <1>4, <2>2, PllOffRuns, Compose
  <2>4. Runs(Protected(<<Set({"LPM"}, 2)>> \o PllOff), a, a \ {"ready"}, x)
    BY <1>3, <1>4, <2>3, Guarded DEF b
  <2>5. a \subseteq AfterSleep("HALT", a \ {"ready"})
    BY DEF AfterSleep
  <2>6. Runs(<<Sleep("HALT")>>, a \ {"ready"}, a, x)
    BY <1>3, <2>5, SleepLegal, One DEF Legal
  <2>7. QED
    BY <2>4, <2>6, Compose DEF HALT
<1>6. ASSUME "matched" \in a, "ungated" \notin a PROVE Runs(HIB, a, a, x)
  <2>1. Runs(Protected(<<Set({"LPM"}, 3)>>), a, a, x)
    BY <1>1, PlainSet, Guarded1
  <2>2. Runs(DisablePeripheralClocks, a, a, x)
    BY <1>6, ClocksRun
  <2>3. Runs(Protected(PllOff), a, a \ {"ready"}, x)
    <3> HIDE DEF b
    <3>1. Runs(PllOff, b, b \ {"ready"}, x)
      BY <1>3, <1>4, PllOffRuns
    <3>2. QED
      BY <1>3, <1>4, <3>1, Guarded DEF b
  <2>4. a \subseteq AfterSleep("HIB", a \ {"ready"})
    BY DEF AfterSleep, Safe
  <2>5. Runs(<<Sleep("HIB")>>, a \ {"ready"}, a, x)
    BY <1>3, <2>4, SleepLegal, One DEF Legal
  <2>6. Runs(Protected(<<Set({"LPM"}, 3)>>) \o DisablePeripheralClocks, a, a, x)
    BY <2>1, <2>2, Compose
  <2>7. Runs(Protected(<<Set({"LPM"}, 3)>>) \o DisablePeripheralClocks \o Protected(PllOff),
             a, a \ {"ready"}, x)
    BY <2>3, <2>6, Compose
  <2>8. QED
    BY <2>5, <2>7, Compose DEF HIB
<1>7. QED
  BY <1>2, <1>5, <1>6 DEF IDLE, STANDBY

------------------------------------------------------------------------------
(* Pins *)

\* The pins of the PWM modules.
LEMMA PwmRuns ==
    ASSUME NEW a \in Safe, NEW x, "open" \notin a
    PROVE  /\ \A p, q : Runs(PwmPins(p, q), a, a, x)
           /\ Runs(InitEPwmGpio, a, a, x) /\ Runs(InitEPwm9Gpio, a, a, x)
<1>1. ASSUME NEW p, NEW q PROVE Runs(PwmPins(p, q), a, a, x)
  <2> DEFINE b == a \cup {"open"}
  <2>1. "open" \in b
    OBVIOUS
  <2>2. Legal(Pin({p, q}, "pud", 1), b, b, x) /\ Legal(Pin({p, q}, "mux", 1), b, b, x)
    <3> HIDE DEF b
    <3>1. QED
      BY <2>1, PinWrite
  <2>3. QED
    BY <2>2, Guarded2 DEF PwmPins
<1>2. /\ Runs(InitEPwm1Gpio, a, a, x) /\ Runs(InitEPwm2Gpio, a, a, x) /\ Runs(InitEPwm3Gpio, a, a, x)
      /\ Runs(InitEPwm4Gpio, a, a, x) /\ Runs(InitEPwm5Gpio, a, a, x) /\ Runs(InitEPwm6Gpio, a, a, x)
      /\ Runs(InitEPwm7Gpio, a, a, x) /\ Runs(InitEPwm8Gpio, a, a, x) /\ Runs(InitEPwm9Gpio, a, a, x)
      /\ Runs(InitEPwm10Gpio, a, a, x) /\ Runs(InitEPwm11Gpio, a, a, x)
      /\ Runs(InitEPwm12Gpio, a, a, x)
  BY <1>1 DEF InitEPwm1Gpio, InitEPwm2Gpio, InitEPwm3Gpio, InitEPwm4Gpio, InitEPwm5Gpio, InitEPwm6Gpio,
              InitEPwm7Gpio, InitEPwm8Gpio, InitEPwm9Gpio, InitEPwm10Gpio, InitEPwm11Gpio, InitEPwm12Gpio
<1>3. Runs(InitEPwm1Gpio \o InitEPwm2Gpio \o InitEPwm3Gpio \o InitEPwm4Gpio, a, a, x)
  BY <1>2, Compose
<1>4. Runs(InitEPwm1Gpio \o InitEPwm2Gpio \o InitEPwm3Gpio \o InitEPwm4Gpio
             \o InitEPwm5Gpio \o InitEPwm6Gpio \o InitEPwm7Gpio \o InitEPwm8Gpio, a, a, x)
  BY <1>2, <1>3, Compose
<1>5. Runs(InitEPwmGpio, a, a, x)
  BY <1>2, <1>4, Compose DEF InitEPwmGpio
<1>6. QED
  BY <1>1, <1>2, <1>5

\* InitGpio().
LEMMA GpioRuns ==
    ASSUME NEW a \in Safe, NEW x, "open" \notin a
    PROVE  Runs(InitGpio, a, a, x)
<1> DEFINE b == a \cup {"open"}
           P(i) == Pin(Zeroed(i), PortFields[i], 0)
           l == [i \in 1..32 |-> P(i)]
           d == [kind |-> "data", keys |-> Pins, val |-> 0]
<1>1. "open" \in b
  OBVIOUS
<1>2. Steady(<<d>>, b, x)
  <2>1. d.kind = "data"
    OBVIOUS
  <2> HIDE DEF b, d
  <2>2. QED
    BY <2>1, Other, Steady1
<1> HIDE DEF b, d
<1>3. Steady(<<Pin(Pins, "lock", 0)>>, b, x)
  BY <1>1, PinWrite, Steady1
<1>4. Steady(l, b, x)
  <2>1. ASSUME NEW i \in 1..32 PROVE Legal(P(i), b, b, x)
    BY <1>1, PinWrite
  <2> DEFINE S == {P(i) : i \in 1..32}
  <2> HIDE DEF P
  <2>2. l \in [1..32 -> S]
    OBVIOUS
  <2>3. l \in Seq(S) /\ Len(l) = 32
    BY <2>2
  <2>4. IsList(l)
    <3> HIDE DEF l, S
    <3>1. QED
      BY <2>3, ListOf
  <2>5. QED
    BY <2>1, <2>3, <2>4 DEF Steady
<1> HIDE DEF l
<1>5. Steady(<<Pin(Pins, "lock", 0)>> \o l, b, x)
  BY <1>3, <1>4, SteadyJoined
<1>6. Steady(<<Pin(Pins, "lock", 0)>> \o l \o <<d>>, b, x)
  BY <1>2, <1>5, SteadyJoined
<1>7. Runs(Protected(<<Pin(Pins, "lock", 0)>> \o l \o <<d>>), a, a, x)
  BY <1>6, GuardedSteady DEF b
<1>8. QED
  BY <1>7 DEF InitGpio, l, d

\* The other functions that configure pins.
LEMMA PinRuns ==
    ASSUME NEW a \in Safe, NEW x, "open" \notin a, NEW p
    PROVE  /\ Runs(InitSpiGpio, a, a, x)
           /\ \A v : Runs(GPIO_WritePin(p, v), a, a, x)
           /\ \A core, n : Runs(GPIO_SetupPinMux(p, core, n), a, a, x)
           /\ \A output, flags : Runs(GPIO_SetupPinOptions(p, output, flags), a, a, x)
           /\ \A lock : Runs(GPIO_SetupLock(p, lock), a, a, x)
           /\ Runs(GPIO_SetupXINT1Gpio(p), a, a, x) /\ Runs(GPIO_SetupXINT2Gpio(p), a, a, x)
           /\ Runs(GPIO_SetupXINT3Gpio(p), a, a, x) /\ Runs(GPIO_SetupXINT4Gpio(p), a, a, x)
           /\ Runs(GPIO_SetupXINT5Gpio(p), a, a, x)
<1> DEFINE b == a \cup {"open"}
<1>1. "open" \in b
  OBVIOUS
<1> HIDE DEF b
<1>2. \A q, f, v : Legal(Pin(q, f, v), b, b, x)
  BY <1>1, PinWrite
<1>3. ASSUME NEW l, Steady(l, b, x) PROVE Runs(Protected(l), a, a, x)
  BY <1>3, GuardedSteady DEF b
<1>4. Runs(InitSpiGpio, a, a, x)
  BY <1>2, <1>3, Steady3 DEF InitSpiGpio, InitSpiaGpio
<1>5. ASSUME NEW v PROVE Runs(GPIO_WritePin(p, v), a, a, x)
  <2> DEFINE d == [kind |-> "data", keys |-> {p}, val |-> v]
  <2>1. d.kind = "data"
    OBVIOUS
  <2> HIDE DEF d
  <2>2. Runs(<<d>>, a, a, x)
    BY <2>1, Other, One
  <2>3. QED
    BY <2>2 DEF GPIO_WritePin, d
<1>6. ASSUME NEW core, NEW n PROVE Runs(GPIO_SetupPinMux(p, core, n), a, a, x)
  <2>1. Steady(<<Pin({p}, "mux", 0), Pin({p}, "gmux", 0),
                 Pin({p}, "gmux", n \div 4), Pin({p}, "mux", n % 4),
                 Pin({p}, "csel", 0), Pin({p}, "csel", core)>>, b, x)
    BY <1>2, Steady6
  <2>2. QED
    BY <1>3, <2>1, Skip DEF GPIO_SetupPinMux, If
<1>7. ASSUME NEW output, NEW flags PROVE Runs(GPIO_SetupPinOptions(p, output, flags), a, a, x)
  <2> DEFINE out == <<Pin({p}, "dir", 1), Pin({p}, "odr", Flag("OPENDRAIN" \in flags)),
                      Pin({p}, "pud", Flag(flags \cap {"OPENDRAIN", "PULLUP"} = {}))>>
             in == <<Pin({p}, "dir", 0), Pin({p}, "pud", Flag("PULLUP" \notin flags)),
                     Pin({p}, "inv", Flag("INVERT" \in flags))>>
             q == <<Pin({p}, "qsel", 0), Pin({p}, "qsel", Qualification(flags))>>
  <2>1. Steady(out, b, x) /\ Steady(in, b, x)
    BY <1>2, Steady3
  <2>2. Steady(q, b, x) /\ Steady(<<Pin({p}, "dir", 0)>>, b, x)
    BY <1>2, Steady1, Steady2
  <2> HIDE DEF out, in, q
  <2>3. Steady(IF output THEN out ELSE in, b, x)
    BY <2>1
  <2>4. Steady(<<Pin({p}, "dir", 0)>> \o (IF output THEN out ELSE in) \o q, b, x)
    BY <2>2, <2>3, SteadyJoined
  <2>5. QED
    BY <1>3, <2>4 DEF GPIO_SetupPinOptions, out, in, q
<1>8. ASSUME NEW lock PROVE Runs(GPIO_SetupLock(p, lock), a, a, x)
  BY <1>2, <1>3, Steady1 DEF GPIO_SetupLock
<1>9. ASSUME NEW input, {input} \cap Special = {} PROVE Runs(Xint(input, p), a, a, x)
  BY <1>9, PlainSet, Guarded1 DEF Xint
<1>10. /\ {"INPUT4SELECT"} \cap Special = {} /\ {"INPUT5SELECT"} \cap Special = {}
       /\ {"INPUT6SELECT"} \cap Special = {} /\ {"INPUT13SELECT"} \cap Special = {}
       /\ {"INPUT14SELECT"} \cap Special = {}
  BY BorrowedFields DEF Special
<1>11. /\ Runs(GPIO_SetupXINT1Gpio(p), a, a, x) /\ Runs(GPIO_SetupXINT2Gpio(p), a, a, x)
       /\ Runs(GPIO_SetupXINT3Gpio(p), a, a, x) /\ Runs(GPIO_SetupXINT4Gpio(p), a, a, x)
       /\ Runs(GPIO_SetupXINT5Gpio(p), a, a, x)
  BY <1>9, <1>10 DEF GPIO_SetupXINT1Gpio, GPIO_SetupXINT2Gpio, GPIO_SetupXINT3Gpio,
                     GPIO_SetupXINT4Gpio, GPIO_SetupXINT5Gpio
<1>12. QED
  BY <1>4, <1>5, <1>6, <1>7, <1>8, <1>11

\* GPIO_EnableUnbondedIOPullups() executes EDIS on the parts that have unbonded pins.
LEMMA PullupRuns ==
    ASSUME NEW a \in Safe, NEW x, "open" \in a, NEW d
    PROVE  Runs(GPIO_EnableUnbondedIOPullups(d), a, IF d.package \in {5, 6} THEN a \ {"open"} ELSE a, x)
<1> DEFINE c == a \ {"open"}
<1>1. c \in Safe /\ "open" \notin c /\ c \cup {"open"} = a /\ c \subseteq a
  BY Stays
<1> HIDE DEF c
<1>2. ASSUME NEW port, NEW unbonded PROVE Steady(Pullups(port, unbonded), a, x)
  BY PinWrite, Steady2 DEF Pullups
<1>3. ASSUME NEW l, Steady(l, a, x) PROVE Runs(Protected(l), a, c, x)
  <2>1. Runs(Protected(l), c, c, x)
    BY <1>1, <1>3, GuardedSteady
  <2>2. QED
    BY <1>1, <2>1, Weaken
<1>4. Runs(GPIO_EnableUnbondedIOPullupsFor176Pin, a, c, x)
  BY <1>2, <1>3, SteadyJoined DEF GPIO_EnableUnbondedIOPullupsFor176Pin
<1>5. Runs(GPIO_EnableUnbondedIOPullupsFor100Pin, a, c, x)
  BY <1>2, <1>3, SteadyJoined DEF GPIO_EnableUnbondedIOPullupsFor100Pin
<1>6. CASE d.package = 5
  BY <1>5, <1>6 DEF GPIO_EnableUnbondedIOPullups, c
<1>7. CASE d.package = 6
  BY <1>4, <1>7 DEF GPIO_EnableUnbondedIOPullups, c
<1>8. CASE d.package \notin {5, 6}
  <2>1. Runs(<<>>, a, a, x)
    BY Skip
  <2>2. QED
    BY <1>8, <2>1 DEF GPIO_EnableUnbondedIOPullups
<1>9. QED
  BY <1>6, <1>7, <1>8

------------------------------------------------------------------------------
(* Peripherals *)

\* spi_init() of main().
LEMMA SpibRuns ==
    ASSUME NEW a \in Safe, NEW x, "open" \notin a, "powered" \in a
    PROVE  Runs(spi_init, a, a, x)
<1> DEFINE b == a \cup {"open"}
<1>1. "open" \in b /\ "powered" \in b
  OBVIOUS
<1> HIDE DEF b
<1>2. ASSUME NEW p, NEW u, NEW n PROVE Steady(SpibPin(p, u, n), b, x)
  BY <1>1, PinWrite, Steady5 DEF SpibPin
<1>3. ASSUME NEW K, NEW v, K \cap Special = {}, K \cap Fields = {} PROVE Legal(Of(SPIB, K, v), b, b, x)
  BY <1>1, <1>3, UnitsPowered, PlainWrite
<1> DEFINE K1 == {"SPIB_SPISWRESET", "SPIB_CLKPOLARITY", "SPIB_HS_MODE", "SPIB_SPILBK"}
           K3 == {"SPIB_OVERRUNINTENA", "SPIB_CLK_PHASE", "SPIB_MASTER_SLAVE"}
           K7 == {"SPIB_FREE", "SPIB_STEINV", "SPIB_SPISWRESET"}
<1>4. /\ K1 \cap Special = {} /\ {"SPIB_SPICHAR"} \cap Special = {} /\ K3 \cap Special = {}
      /\ {"SPIB_TALK"} \cap Special = {} /\ {"SPIB_SPIINTENA"} \cap Special = {}
      /\ {"SPIB_SPI_BIT_RATE"} \cap Special = {} /\ K7 \cap Special = {}
      /\ K1 \cap Fields = {} /\ {"SPIB_SPICHAR"} \cap Fields = {} /\ K3 \cap Fields = {}
      /\ {"SPIB_TALK"} \cap Fields = {} /\ {"SPIB_SPIINTENA"} \cap Fields = {}
      /\ {"SPIB_SPI_BIT_RATE"} \cap Fields = {} /\ K7 \cap Fields = {}
  BY BorrowedFields DEF Special, Fields, TimerFields, References
<1> HIDE DEF K1, K3, K7
<1>5. Steady(<<Of(SPIB, K1, 0), Of(SPIB, {"SPIB_SPICHAR"}, 15), Of(SPIB, K3, 0), Of(SPIB, {"SPIB_TALK"}, 1),
               Of(SPIB, {"SPIB_SPIINTENA"}, 0), Of(SPIB, {"SPIB_SPI_BIT_RATE"}, 39),
               Of(SPIB, K7, 1)>>, b, x)
  BY <1>3, <1>4, Steady7
<1>6. Steady(SpibPin(22, 1, 0) \o SpibPin(23, 0, 0) \o SpibPin(24, 1, 0) \o SpibPin(25, 0, 1)
               \o <<Of(SPIB, K1, 0), Of(SPIB, {"SPIB_SPICHAR"}, 15), Of(SPIB, K3, 0),
                    Of(SPIB, {"SPIB_TALK"}, 1), Of(SPIB, {"SPIB_SPIINTENA"}, 0),
                    Of(SPIB, {"SPIB_SPI_BIT_RATE"}, 39), Of(SPIB, K7, 1)>>, b, x)
  BY <1>2, <1>5, SteadyJoined
<1>7. QED
  BY <1>6, GuardedSteady DEF spi_init, b, K1, K3, K7

\* The registers of ADC A, by name.
LEMMA AdcNames ==
    /\ AdcaRegs.unit = {<<"ADC", "A">>} /\ AdcaRegs.PRESCALE = "ADCA_PRESCALE"
    /\ AdcaRegs.RESOLUTION = "ADCA_RESOLUTION" /\ AdcaRegs.SIGNALMODE = "ADCA_SIGNALMODE"
    /\ AdcaRegs.OFFTRIM = "ADCA_OFFTRIM" /\ AdcaRegs.INLTRIM_HIGH = "ADCA_INLTRIM_HIGH"
    /\ AdcaRegs.INLTRIM_LOW = "ADCA_INLTRIM_LOW" /\ AdcaRegs.INTPULSEPOS = "ADCA_INTPULSEPOS"
    /\ AdcaRegs.INT1SEL = "ADCA_INT1SEL" /\ AdcaRegs.INT1E = "ADCA_INT1E"
    /\ AdcaRegs.INTFLGCLR = "ADCAINTFLGCLR" /\ AdcaRegs.ADCPWDNZ = "ADCA_ADCPWDNZ"
    /\ AdcaRegs.CHSEL = "ADCA_CHSEL" /\ AdcaRegs.ACQPS = "ADCA_ACQPS"
    /\ AdcaRegs.TRIGSEL = "ADCA_TRIGSEL"
BY DEF AdcaRegs

\* A write to a register of the ADC that no fact is about.
LEMMA PlainAdc ==
    ASSUME NEW f, NEW v, NEW a, NEW x, f \notin Special, f \notin Fields, "open" \in a, "powered" \in a
    PROVE  Legal(InAdc(AdcaRegs, f, v), a, a, x)
<1>1. {f} \cap Special = {} /\ {f} \cap Fields = {} /\ AdcaRegs.unit \subseteq Peripherals
  BY UnitsPowered
<1>2. QED
  BY <1>1, PlainWrite DEF InAdc

\* A write to the mode or the trims of the ADC.
LEMMA AdcLegal ==
    ASSUME NEW f, NEW v, NEW a, NEW b, NEW x, "open" \in a, "powered" \in a,
           f \in {"ADCA_RESOLUTION", "ADCA_SIGNALMODE", "ADCA_OFFTRIM", "ADCA_INLTRIM_LOW"},
           b \subseteq (a \ Spoiled({f})) \cup Given({f}, v, a, x)
    PROVE  Legal(InAdc(AdcaRegs, f, v), a, b, x)
<1>1. AdcaRegs.unit \subseteq Peripherals /\ AdcaRegs.unit # {}
  BY UnitsPowered
<1>2. AdmitsWrite({f}, v, AdcaRegs.unit, a, x)
  BY <1>1 DEF AdmitsWrite, Clocked
<1>3. QED
  BY <1>2, Write DEF Legal, InAdc

\* What such a write spoils.
LEMMA AdcSpoiled ==
    /\ Spoiled({"ADCA_RESOLUTION"}) = {"res0", "res1", "matched"}
    /\ Spoiled({"ADCA_SIGNALMODE"}) = {"sig0", "sig1", "matched"}
    /\ Spoiled({"ADCA_INLTRIM_LOW"}) = {"linear", "matched"}
    /\ Spoiled({"ADCA_OFFTRIM"}) = {"matched"}
BY BorrowedFields DEF Spoiled, Touched

\* The facts about trims have no part in what makes a set safe.
LEMMA TrimsSafe ==
    ASSUME NEW a \in Safe, NEW t \in SUBSET TrimFacts
    PROVE  (a \ TrimFacts) \cup t \in Safe
BY DEF Safe, ForRoutine, TrimFacts, Facts

\* What AdcSetMode() achieves, in each of the four modes, with and without trims in OTP.
LEMMA SetModeRuns ==
    ASSUME NEW a \in Safe, NEW x, "open" \in a, "powered" \in a,
           NEW r \in {0, 1}, NEW s \in {0, 1}, NEW otp \in BOOLEAN, otp = x.device.otp
    PROVE  Runs(AdcSetMode(AdcaRegs, r, s, otp), a, (a \ TrimFacts) \cup {"matched"}, x)
<1> DEFINE With(t) == (a \ TrimFacts) \cup t
           lin == IF otp THEN {"linear"} ELSE {}
           res == IF r = 0 THEN {"res0"} ELSE {"res1"}
           sig == IF s = 0 THEN {"sig0"} ELSE {"sig1"}
           v == OffsetTrim(AdcaRegs, r, s, otp)
<1>1. \A t \in SUBSET TrimFacts : With(t) \in Safe /\ "open" \in With(t) /\ "powered" \in With(t)
  BY TrimsSafe DEF TrimFacts
<1>2. /\ lin \in SUBSET TrimFacts /\ lin \cup res \in SUBSET TrimFacts
      /\ lin \cup res \cup sig \in SUBSET TrimFacts
      /\ lin \cup res \cup sig \cup {"matched"} \in SUBSET TrimFacts
      /\ {} \in SUBSET TrimFacts /\ {"matched"} \in SUBSET TrimFacts
  BY DEF TrimFacts
<1>3. Runs(CalAdcINL(AdcaRegs, otp), With({}), With(lin), x)
  <2>1. CASE otp = FALSE
    <3>1. With(lin) = With({})
      BY <2>1
    <3> HIDE DEF With
    <3>2. Runs(<<>>, With({}), With(lin), x)
      BY <1>1, <1>2, <3>1, Skip
    <3>3. QED
      BY <2>1, <3>2 DEF CalAdcINL, If
  <2>2. CASE otp = TRUE
    <3>1. Legal(InAdc(AdcaRegs, "ADCA_INLTRIM_HIGH", INLTRIM), With({}), With({}), x)
      <4>1. "ADCA_INLTRIM_HIGH" \notin Special \cup Fields
        BY BorrowedFields DEF Special, Fields, TimerFields, References
      <4> HIDE DEF With
      <4>2. QED
        BY <1>1, <1>2, <4>1, PlainAdc
    <3>2. With({"linear"}) \subseteq (With({}) \ Spoiled({"ADCA_INLTRIM_LOW"}))
                             \cup Given({"ADCA_INLTRIM_LOW"}, INLTRIM, With({}), x)
      BY AdcSpoiled DEF Given, GivenTrims, When, TrimFacts
    <3>3. Legal(InAdc(AdcaRegs, "ADCA_INLTRIM_LOW", INLTRIM), With({}), With({"linear"}), x)
      <4> HIDE DEF With
      <4>1. QED
        BY <1>1, <1>2, <3>2, AdcLegal
    <3>4. lin = {"linear"}
      BY <2>2
    <3> HIDE DEF With
    <3>5. Runs(<<InAdc(AdcaRegs, "ADCA_INLTRIM_HIGH", INLTRIM), InAdc(AdcaRegs, "ADCA_INLTRIM_LOW", INLTRIM)>>,
               With({}), With({"linear"}), x)
      BY <1>1, <1>2, <3>1, <3>3, <3>4, Chain2
    <3>6. QED
      BY <2>2, <3>4, <3>5, AdcNames DEF CalAdcINL, If
  <2>3. QED
    BY <2>1, <2>2
<1>4. Legal(InAdc(AdcaRegs, "ADCA_RESOLUTION", r), With(lin), With(lin \cup res), x)
  <2>1. With(lin \cup res) \subseteq (With(lin) \ Spoiled({"ADCA_RESOLUTION"}))
                                 \cup Given({"ADCA_RESOLUTION"}, r, With(lin), x)
    BY AdcSpoiled DEF Given, GivenTrims, When, TrimFacts
  <2> HIDE DEF With, lin, res
  <2>2. QED
    BY <1>1, <1>2, <2>1, AdcLegal
<1>5. Legal(InAdc(AdcaRegs, "ADCA_SIGNALMODE", s), With(lin \cup res), With(lin \cup res \cup sig), x)
  <2>1. With(lin \cup res \cup sig)
           \subseteq (With(lin \cup res) \ Spoiled({"ADCA_SIGNALMODE"}))
                        \cup Given({"ADCA_SIGNALMODE"}, s, With(lin \cup res), x)
    BY AdcSpoiled DEF Given, GivenTrims, When, TrimFacts
  <2> HIDE DEF With, lin, res, sig
  <2>2. QED
    BY <1>1, <1>2, <2>1, AdcLegal
<1>6. Legal(InAdc(AdcaRegs, "ADCA_OFFTRIM", v), With(lin \cup res \cup sig),
            With(lin \cup res \cup sig \cup {"matched"}), x)
  <2>1. TrimsFit(v, With(lin \cup res \cup sig), x)
    <3>1. /\ (IF r = 0 THEN "res0" ELSE "res1") \in With(lin \cup res \cup sig)
          /\ (IF s = 0 THEN "sig0" ELSE "sig1") \in With(lin \cup res \cup sig)
          /\ r = 0 \/ x.device.otp = FALSE \/ "linear" \in With(lin \cup res \cup sig)
      OBVIOUS
    <3>2. v = OffsetTrim(AdcaRegs, r, s, x.device.otp)
      OBVIOUS
    <3> HIDE DEF With, v
    <3>3. QED
      BY <3>1, <3>2 DEF TrimsFit
  <2>2. With(lin \cup res \cup sig \cup {"matched"})
           \subseteq (With(lin \cup res \cup sig) \ Spoiled({"ADCA_OFFTRIM"}))
                        \cup Given({"ADCA_OFFTRIM"}, v, With(lin \cup res \cup sig), x)
    <3> HIDE DEF v
    <3>1. "matched" \in Given({"ADCA_OFFTRIM"}, v, With(lin \cup res \cup sig), x)
      <4> HIDE DEF With, lin, res, sig
      <4>1. QED
        BY <2>1 DEF Given, GivenTrims, When
    <3>2. "matched" \notin lin \cup res \cup sig
      OBVIOUS
    <3> HIDE DEF lin, res, sig
    <3>3. QED
      BY <3>1, <3>2, AdcSpoiled DEF TrimFacts
  <2> HIDE DEF With, lin, res, sig, v
  <2>3. QED
    BY <1>1, <1>2, <2>2, AdcLegal
<1>7. Runs(<<InAdc(AdcaRegs, "ADCA_RESOLUTION", r), InAdc(AdcaRegs, "ADCA_SIGNALMODE", s),
             InAdc(AdcaRegs, "ADCA_OFFTRIM", v)>>,
           With(lin), With(lin \cup res \cup sig \cup {"matched"}), x)
  <2> HIDE DEF With, lin, res, sig, v
  <2>1. QED
    BY <1>1, <1>2, <1>4, <1>5, <1>6, Chain3
<1>8. Runs(If(r = 0, <<InAdc(AdcaRegs, "ADCA_INLTRIM_LOW", 0)>>),
           With(lin \cup res \cup sig \cup {"matched"}), With({"matched"}), x)
  <2>1. CASE r = 0
    <3>1. With({"matched"})
             \subseteq (With(lin \cup res \cup sig \cup {"matched"}) \ Spoiled({"ADCA_INLTRIM_LOW"}))
                          \cup Given({"ADCA_INLTRIM_LOW"}, 0, With(lin \cup res \cup sig \cup {"matched"}), x)
      BY <2>1, AdcSpoiled DEF Given, GivenTrims, When, TrimFacts
    <3> HIDE DEF With, lin, res, sig
    <3>2. Legal(InAdc(AdcaRegs, "ADCA_INLTRIM_LOW", 0), With(lin \cup res \cup sig \cup {"matched"}),
                With({"matched"}), x)
      BY <1>1, <1>2, <3>1, AdcLegal
    <3>3. QED
      BY <2>1, <1>1, <1>2, <3>2, One DEF If
  <2>2. CASE r # 0
    <3>1. With({"matched"}) \subseteq With(lin \cup res \cup sig \cup {"matched"})
      OBVIOUS
    <3> HIDE DEF With, lin, res, sig
    <3>2. QED
      BY <2>2, <1>1, <1>2, <3>1, Skip DEF If
  <2>3. QED
    BY <2>1, <2>2
<1>9. Runs(SetMode(AdcaRegs, r, s, otp), With(lin), With({"matched"}), x)
  <2> HIDE DEF With, lin, res, sig
  <2>1. QED
    BY <1>7, <1>8, Compose, AdcNames DEF SetMode
<1>10. Runs(AdcSetMode(AdcaRegs, r, s, otp), With({}), With({"matched"}), x)
  <2> HIDE DEF With, lin
  <2>1. QED
    BY <1>3, <1>9, Compose DEF AdcSetMode
<1>11. With({}) \subseteq a
  OBVIOUS
<1>12. QED
  <2>1. Runs(AdcSetMode(AdcaRegs, r, s, otp), a, With({"matched"}), x)
    <3> HIDE DEF With
    <3>1. QED
      BY <1>10, <1>11, Weaken
  <2>2. QED
    BY <2>1

\* AdcSetMode() in a program, and the whole set-up of the ADC in main().
LEMMA ModeRuns ==
    ASSUME NEW a \in Safe, NEW x, "open" \notin a, "powered" \in a,
           NEW otp \in BOOLEAN, otp = x.device.otp
    PROVE  /\ \A r, s \in {0, 1} : Runs(Protected(AdcSetMode(AdcaRegs, r, s, otp)), a,
                                       (a \ TrimFacts) \cup {"matched"}, x)
           /\ Runs(adc_config(otp), a, (a \ TrimFacts) \cup {"matched"}, x)
           /\ (a \ TrimFacts) \cup {"matched"} \in Safe
<1> DEFINE b == a \cup {"open"}
           c == (b \ TrimFacts) \cup {"matched"}
           d == (a \ TrimFacts) \cup {"matched"}
<1>1. b \in Safe /\ c \in Safe /\ d \in Safe /\ c \ {"open"} = d
  BY Stays, TrimsSafe DEF TrimFacts
<1>2. "open" \in b /\ "powered" \in b /\ "open" \in c /\ "powered" \in c
  BY DEF TrimFacts
<1> HIDE DEF b
<1>3. \A r, s \in {0, 1} : Runs(AdcSetMode(AdcaRegs, r, s, otp), b, c, x)
  BY <1>1, <1>2, SetModeRuns
<1> HIDE DEF c, d
<1>4. ASSUME NEW l, Runs(l, b, c, x) PROVE Runs(Protected(l), a, d, x)
  BY <1>1, <1>4, Guarded DEF b
<1>5. \A r, s \in {0, 1} : Runs(Protected(AdcSetMode(AdcaRegs, r, s, otp)), a, d, x)
  BY <1>3, <1>4
<1>6. {"ADCA_PRESCALE", "ADCA_INTPULSEPOS", "ADCA_INT1SEL", "ADCA_INT1E", "ADCAINTFLGCLR",
       "ADCA_ADCPWDNZ"} \cap (Special \cup Fields) = {}
  BY BorrowedFields DEF Special, Fields, TimerFields, References
<1>7. Runs(<<InAdc(AdcaRegs, AdcaRegs.PRESCALE, 6)>>, b, b, x)
  BY <1>1, <1>2, <1>6, AdcNames, PlainAdc, One
<1>8. Runs(<<InAdc(AdcaRegs, AdcaRegs.INTPULSEPOS, 1), InAdc(AdcaRegs, AdcaRegs.INT1SEL, 0),
             InAdc(AdcaRegs, AdcaRegs.INT1E, 1), InAdc(AdcaRegs, AdcaRegs.INTFLGCLR, 1),
             InAdc(AdcaRegs, AdcaRegs.ADCPWDNZ, 1)>>, c, c, x)
  <2>1. /\ Legal(InAdc(AdcaRegs, AdcaRegs.INTPULSEPOS, 1), c, c, x)
        /\ Legal(InAdc(AdcaRegs, AdcaRegs.INT1SEL, 0), c, c, x)
        /\ Legal(InAdc(AdcaRegs, AdcaRegs.INT1E, 1), c, c, x)
        /\ Legal(InAdc(AdcaRegs, AdcaRegs.INTFLGCLR, 1), c, c, x)
        /\ Legal(InAdc(AdcaRegs, AdcaRegs.ADCPWDNZ, 1), c, c, x)
    BY <1>1, <1>2, <1>6, AdcNames, PlainAdc
  <2>2. QED
    BY <1>1, <2>1, Chain5
<1>9. Runs(<<InAdc(AdcaRegs, AdcaRegs.PRESCALE, 6)>> \o AdcSetMode(AdcaRegs, 0, 0, otp), b, c, x)
  BY <1>3, <1>7, Compose
<1>10. Runs(adc_config(otp), a, d, x)
  BY <1>4, <1>8, <1>9, Compose DEF adc_config
<1>11. QED
  BY <1>1, <1>5, <1>10 DEF d

\* SetupADCSoftwareSync().
LEMMA SyncRuns ==
    ASSUME NEW a \in Safe, NEW x, NEW r, "powered" \in a
    PROVE  Runs(SetupADCSoftwareSync(r), a, a \ {"open"}, x)
<1> DEFINE b == a \ {"open"}
<1>1. b \in Safe /\ "open" \notin b /\ "powered" \in b /\ b \subseteq a
  BY Stays
<1> HIDE DEF b
<1>2. {"ADCA_CHSEL", "ADCA_ACQPS", "ADCA_TRIGSEL"} \cap (Special \cup Fields) = {}
  BY BorrowedFields DEF Special, Fields, TimerFields, References
<1>3. ASSUME NEW f, NEW v, f \notin Special \cup Fields
      PROVE  Legal(InAdc(AdcaRegs, f, v), b \cup {"open"}, b \cup {"open"}, x)
  <2> DEFINE c == b \cup {"open"}
  <2>1. "open" \in c /\ "powered" \in c
    BY <1>1
  <2> HIDE DEF c
  <2>2. Legal(InAdc(AdcaRegs, f, v), c, c, x)
    BY <1>3, <2>1, PlainAdc
  <2>3. QED
    BY <2>2 DEF c
<1>4. Steady(<<InAdc(AdcaRegs, AdcaRegs.CHSEL, 2),
               InAdc(AdcaRegs, AdcaRegs.ACQPS, IF r[AdcaRegs.RESOLUTION] = 0 THEN 14 ELSE 63),
               InAdc(AdcaRegs, AdcaRegs.TRIGSEL, 4)>>, b \cup {"open"}, x)
  <2>1. {AdcaRegs.CHSEL, AdcaRegs.ACQPS, AdcaRegs.TRIGSEL} \cap (Special \cup Fields) = {}
    BY <1>2, AdcNames
  <2>2. QED
    BY <2>1, <1>3, Steady3
<1>5. Runs(SetupADCSoftwareSync(r), b, b, x)
  BY <1>1, <1>4, GuardedSteady DEF SetupADCSoftwareSync
<1>6. QED
  BY <1>1, <1>5, Weaken DEF b
------------------------------------------------------------------------------
(* Interrupts *)

\* INTM needs no EALLOW.  Without it a routine may come, for which all must be ready.
LEMMA MaskLegal ==
    ASSUME NEW a, NEW x
    PROVE  /\ "INTM" \notin a => Legal(Set({"INTM"}, 1), a, a \cup {"masked"}, x)
           /\ "INTM" \notin a => Legal(Set({"INTM"}, 0), a, a \ {"masked"}, x)
           /\ "DBGM" \notin a => Legal(Set({"DBGM"}, 0), a, a, x)
<1>1. Spoiled({"INTM"}) = {"INTM", "masked"} /\ Spoiled({"DBGM"}) = {"DBGM"}
  BY BorrowedFields DEF Spoiled, Touched
<1>2. AdmitsWrite({"INTM"}, 0, {}, a, x) /\ AdmitsWrite({"INTM"}, 1, {}, a, x)
  BY DEF AdmitsWrite, Clocked, Unprotected
<1>3. AdmitsWrite({"DBGM"}, 0, {}, a, x)
  BY DEF AdmitsWrite, Clocked, Unprotected
<1>4. ASSUME "INTM" \notin a PROVE Legal(Set({"INTM"}, 1), a, a \cup {"masked"}, x)
  BY <1>1, <1>2, <1>4, WriteLegal DEF Given, GivenBorrowed, When
<1>5. ASSUME "INTM" \notin a PROVE Legal(Set({"INTM"}, 0), a, a \ {"masked"}, x)
  BY <1>1, <1>2, <1>5, WriteLegal
<1>6. ASSUME "DBGM" \notin a PROVE Legal(Set({"DBGM"}, 0), a, a, x)
  BY <1>1, <1>3, <1>6, WriteLegal
<1>7. QED
  BY <1>4, <1>5, <1>6

\* Registers of the CPU, which EALLOW does not protect.
LEMMA FreeWrite ==
    ASSUME NEW f \in {"IER", "IFR", "ENPIE", "XBARFLG2", "Vbus", "ramfuncs"}, NEW v, NEW a, NEW x
    PROVE  Legal(Set({f}, v), a, a, x)
<1>1. {f} \cap Special = {} /\ {f} \subseteq Unprotected
  BY BorrowedFields DEF Special, Unprotected
<1>2. QED
  BY <1>1, PlainWrite DEF Set

\* The PIE and its vector table.
LEMMA PieLegal ==
    ASSUME NEW a, NEW x
    PROVE  /\ \A e : Legal([kind |-> "pie", enabled |-> e], a, a, x)
           /\ \A g : Legal([kind |-> "ack", groups |-> g], a, a, x)
           /\ Legal([kind |-> "flags"], a, a, x)
           /\ "open" \in a => Legal([kind |-> "vectors"], a, (a \ {"routed"}) \cup {"copied"}, x)
           /\ "open" \in a => Legal([kind |-> "vector", chan |-> ADCA1, routine |-> ADCA1_ISR],
                                   a, a \cup {"routed"}, x)
<1>1. ASSUME NEW e PROVE Legal([kind |-> "pie", enabled |-> e], a, a, x)
  <2> DEFINE s == [kind |-> "pie", enabled |-> e]
  <2>1. s.kind = "pie"
    OBVIOUS
  <2> HIDE DEF s
  <2>2. Legal(s, a, a, x)
    BY <2>1, Other
  <2>3. QED
    BY <2>2 DEF s
<1>2. ASSUME NEW g PROVE Legal([kind |-> "ack", groups |-> g], a, a, x)
  <2> DEFINE s == [kind |-> "ack", groups |-> g]
  <2>1. s.kind = "ack"
    OBVIOUS
  <2> HIDE DEF s
  <2>2. Legal(s, a, a, x)
    BY <2>1, Other
  <2>3. QED
    BY <2>2 DEF s
<1>3. Legal([kind |-> "flags"], a, a, x)
  <2> DEFINE s == [kind |-> "flags"]
  <2>1. s.kind = "flags"
    OBVIOUS
  <2> HIDE DEF s
  <2>2. Legal(s, a, a, x)
    BY <2>1, Other
  <2>3. QED
    BY <2>2 DEF s
<1>4. ASSUME "open" \in a PROVE Legal([kind |-> "vectors"], a, (a \ {"routed"}) \cup {"copied"}, x)
  <2> DEFINE s == [kind |-> "vectors"]
  <2>1. s.kind = "vectors"
    OBVIOUS
  <2> HIDE DEF s
  <2>2. Legal(s, a, (a \ {"routed"}) \cup {"copied"}, x)
    BY <1>4, <2>1 DEF Legal, Admits, After
  <2>3. QED
    BY <2>2 DEF s
<1>5. ASSUME "open" \in a
      PROVE  Legal([kind |-> "vector", chan |-> ADCA1, routine |-> ADCA1_ISR], a, a \cup {"routed"}, x)
  <2> DEFINE s == [kind |-> "vector", chan |-> ADCA1, routine |-> ADCA1_ISR]
  <2>1. s.kind = "vector" /\ s.routine = ADCA1_ISR
    OBVIOUS
  <2> HIDE DEF s
  <2>2. Legal(s, a, a \cup {"routed"}, x)
    BY <1>5, <2>1 DEF Legal, Admits, After
  <2>3. QED
    BY <2>2 DEF s
<1>6. QED
  BY <1>1, <1>2, <1>3, <1>4, <1>5

\* Interrupts are enabled once everything a routine needs is there.
LEMMA EnableRuns ==
    ASSUME NEW a \in Safe, NEW x, {"INTM", "masked"} \cap a = {}
    PROVE  /\ Runs(EnableInterrupts, a, a, x)
           /\ \A c : Runs(<<[kind |-> "pie", enabled |-> {c}], Set({"IER"}, {1, c[1]})>>, a, a, x)
<1>1. a \ {"masked"} = a
  OBVIOUS
<1>2. Legal(Set({"ENPIE"}, 1), a, a, x) /\ Legal(Set({"INTM"}, 0), a, a, x)
  BY <1>1, FreeWrite, MaskLegal
<1>3. Steady(EnableInterrupts, a, x)
  BY <1>2, PieLegal, Steady3 DEF EnableInterrupts
<1>4. ASSUME NEW c PROVE Runs(<<[kind |-> "pie", enabled |-> {c}], Set({"IER"}, {1, c[1]})>>, a, a, x)
  <2>1. Legal([kind |-> "pie", enabled |-> {c}], a, a, x)
    BY PieLegal
  <2>2. Legal(Set({"IER"}, {1, c[1]}), a, a, x)
    BY FreeWrite
  <2>3. QED
    BY <2>1, <2>2, Chain2
<1>5. QED
  BY <1>3, <1>4, SteadyRuns

\* The PIE is cleared.
LEMMA ClearRuns ==
    ASSUME NEW a \in Safe, NEW x, "INTM" \notin a
    PROVE  Runs(InitPieCtrl, a, a, x)
<1>1. Legal(Set({"INTM"}, 1), a, a \cup {"masked"}, x) /\ Legal(Set({"ENPIE"}, 0), a, a, x)
  BY FreeWrite, MaskLegal
<1>2. Legal(Set({"INTM"}, 1), a, a, x)
  BY <1>1 DEF Legal
<1>3. Legal([kind |-> "pie", enabled |-> {}], a, a, x) /\ Legal([kind |-> "flags"], a, a, x)
  BY PieLegal
<1>4. QED
  BY <1>1, <1>2, <1>3, Chain4 DEF InitPieCtrl

\* Its table is filled, and an entry is replaced, before interrupts are unmasked.
LEMMA PieRuns ==
    ASSUME NEW a \in Safe, NEW x, {"INTM", "open"} \cap a = {}, "masked" \in a
    PROVE  /\ "routed" \notin a => Runs(InitPieVectTable, a, a \cup {"copied"}, x)
           /\ a \cup {"copied"} \in Safe
           /\ Runs(Protected(<<[kind |-> "vector", chan |-> ADCA1, routine |-> ADCA1_ISR]>>),
                   a, a \cup {"routed"}, x)
           /\ a \cup {"routed"} \in Safe
<1>1. a \cup {"copied"} \in Safe /\ a \cup {"routed"} \in Safe
  BY DEF Safe, Facts
<1> DEFINE b == a \cup {"open"}
<1>2. b \in Safe /\ "open" \in b
  BY Stays
<1>3. "routed" \notin a => "routed" \notin b
  OBVIOUS
<1>4. ASSUME "routed" \notin a PROVE Runs(InitPieVectTable, a, a \cup {"copied"}, x)
  <2> DEFINE c == b \cup {"copied"}
  <2>1. c \in Safe /\ c \ {"open"} = a \cup {"copied"}
    BY <1>2 DEF Safe, Facts, ForRoutine
  <2>2. Legal(EALLOW, a, b, x)
    BY Allowed
  <2>9. (b \ {"routed"}) \cup {"copied"} = c
    BY <1>3, <1>4
  <2> HIDE DEF b, c
  <2>3. Legal([kind |-> "vectors"], b, c, x)
    BY <1>2, <2>9, PieLegal
  <2>4. Legal(Set({"ENPIE"}, 1), a \cup {"copied"}, a \cup {"copied"}, x)
    BY FreeWrite
  <2>5. Legal(EDIS, c, c \ {"open"}, x)
    BY Allowed
  <2>6. Legal(EDIS, c, a \cup {"copied"}, x)
    BY <2>1, <2>5
  <2>7. QED
    BY <1>1, <1>2, <2>1, <2>2, <2>3, <2>4, <2>6, Chain4 DEF InitPieVectTable
<1>5. Runs(Protected(<<[kind |-> "vector", chan |-> ADCA1, routine |-> ADCA1_ISR]>>),
           a, a \cup {"routed"}, x)
  <2> DEFINE c == b \cup {"routed"}
  <2>1. c \in Safe /\ c \ {"open"} = a \cup {"routed"}
    BY <1>2 DEF Safe, Facts, ForRoutine
  <2>2. Runs(<<[kind |-> "vector", chan |-> ADCA1, routine |-> ADCA1_ISR]>>, b, c, x)
    <3> HIDE DEF b
    <3>1. Legal([kind |-> "vector", chan |-> ADCA1, routine |-> ADCA1_ISR], b, c, x)
      BY <1>2, PieLegal
    <3> HIDE DEF c
    <3>2. QED
      BY <1>2, <2>1, <3>1, One
  <2> HIDE DEF c
  <2>3. QED
    BY <2>1, <2>2, Guarded
<1>6. QED
  BY <1>1, <1>4, <1>5

------------------------------------------------------------------------------
(* The system PLL *)

\* The statements of a list of three that is executed five times.
LEMMA FiveTimes ==
    ASSUME NEW s1, NEW s2, NEW s3, NEW T, T = Times(5, <<s1, s2, s3>>)
    PROVE  /\ IsList(T) /\ Len(T) = 15 /\ T[15] = s3
           /\ \A i \in 1..15 : T[i] \in {s1, s2, s3}
<1> DEFINE l == <<s1, s2, s3>>
<1>1. Len(l) = 3 /\ l[1] = s1 /\ l[2] = s2 /\ l[3] = s3
  OBVIOUS
<1> HIDE DEF l
<1>2. T = [i \in 1..15 |-> l[((i - 1) % 3) + 1]]
  BY <1>1 DEF Times, l
<1>3. ASSUME NEW i \in 1..15 PROVE T[i] \in {s1, s2, s3}
  <2>1. ((i - 1) % 3) + 1 \in 1..3
    OBVIOUS
  <2>2. QED
    BY <1>1, <1>2, <2>1
<1>4. T \in [1..15 -> {s1, s2, s3}]
  BY <1>2, <1>3
<1>5. T \in Seq({s1, s2, s3}) /\ Len(T) = 15
  <2>1. ASSUME NEW S, NEW U, NEW n \in Nat, U \in [1..n -> S] PROVE U \in Seq(S) /\ Len(U) = n
    BY <2>1
  <2>2. QED
    BY <1>4, <2>1
<1>6. ((15 - 1) % 3) + 1 = 3
  OBVIOUS
<1>7. T[15] = s3
  BY <1>1, <1>2, <1>6
<1>8. QED
  BY <1>3, <1>5, <1>7, ListOf

\* The PLL stays off until it has locked for the last time.
LEMMA RelockRuns ==
    ASSUME NEW a \in Safe, NEW x, "open" \in a, NEW mult
    PROVE  /\ Runs(Relock(mult), a, (a \ {"fresh", "slow"}) \cup {"ready"}, x)
           /\ (a \ {"fresh", "slow"}) \cup {"ready"} \in Safe
<1> DEFINE b == a \cup {"off"}
           j == b \ {"fresh", "ready", "slow"}
           c == j \cup {"ready"}
           s1 == Set({"PLLEN"}, 0)
           s2 == Set({"SYSPLLMULT"}, mult)
           s3 == Await("LOCKS")
           T == Times(5, <<s1, s2, s3>>)
<1>1. b \in Safe /\ j \in Safe /\ c \in Safe /\ (a \ {"fresh", "slow"}) \cup {"ready"} \in Safe
  BY DEF Safe, ForRoutine, Facts
<1>2. /\ "open" \in b /\ "open" \in j /\ "off" \in j /\ j \subseteq b \ {"slow"}
      /\ j \ {"ready"} = j /\ j \ {"fresh", "ready"} = j
      /\ (a \ {"fresh", "slow"}) \cup {"ready"} \subseteq c
  OBVIOUS
<1>3. Legal(Set({"PLLCLKEN"}, 0), a, b, x)
  BY PllWrites
<1>4. Legal(Set({"PLLSYSCLKDIV"}, 0), b, j, x)
  <2> HIDE DEF b, j
  <2>1. Legal(Set({"PLLSYSCLKDIV"}, 0), b, b \ {"slow"}, x)
    BY <1>2, PllWrites
  <2>2. QED
    BY <1>2, <2>1 DEF Legal
<1>5. Legal(s1, j, j, x) /\ Legal(s2, j, j, x) /\ Legal(s3, j, j, x) /\ Legal(s3, j, c, x)
  <2> HIDE DEF j, b
  <2>1. Legal(s1, j, j \ {"ready"}, x) /\ Legal(s2, j, j \ {"fresh", "ready"}, x)
    BY <1>2, PllWrites
  <2>2. Legal(s3, j, j, x) /\ Legal(s3, j, c, x)
    BY AwaitLegal
  <2>3. QED
    BY <1>2, <2>1, <2>2
<1> HIDE DEF s1, s2, s3
<1>6. /\ IsList(T) /\ Len(T) = 15 /\ T[15] = s3
      /\ \A i \in 1..15 : T[i] \in {s1, s2, s3}
  BY FiveTimes
<1> HIDE DEF T
<1>7. Runs(T, j, c, x)
  <2> HIDE DEF j, c
  <2> DEFINE k == [i \in 1..16 |-> IF i = 16 THEN c ELSE j]
  <2>1. k \in [1..16 -> Safe] /\ (\A i \in 1..15 : k[i] = j) /\ k[16] = c
    BY <1>1
  <2> HIDE DEF k
  <2>2. ASSUME NEW i \in 1..15 PROVE Legal(T[i], k[i], k[i + 1], x)
    <3>1. CASE i = 15
      BY <1>5, <1>6, <2>1, <3>1
    <3>2. CASE i # 15
      <4>1. k[i + 1] = j /\ k[i] = j
        BY <2>1, <3>2
      <4>2. QED
        BY <1>5, <1>6, <4>1
    <3>3. QED
      BY <3>1, <3>2
  <2>3. Outline(k, T, j, c, x)
    BY <1>6, <2>1, <2>2 DEF Outline
  <2>4. QED
    BY <1>6, <2>1, <2>3 DEF Runs
<1>8. Runs(<<Set({"PLLCLKEN"}, 0), Set({"PLLSYSCLKDIV"}, 0)>>, a, j, x)
  <2> HIDE DEF b, j
  <2>1. QED
    BY <1>1, <1>3, <1>4, Chain2
<1>9. Runs(Relock(mult), a, c, x)
  <2> HIDE DEF b, j, c
  <2>1. Runs(<<Set({"PLLCLKEN"}, 0), Set({"PLLSYSCLKDIV"}, 0)>> \o T, a, c, x)
    BY <1>7, <1>8, Compose
  <2>2. QED
    BY <2>1 DEF Relock, T, s1, s2, s3
<1> HIDE DEF c
<1>10. QED
  BY <1>1, <1>2, <1>9, Weaken

\* The watchdog's and the timer's fields, and the masks.
LEMMA BorrowedWrite ==
    ASSUME NEW f \in Borrowed \ {"INTM", "DBGM"}, NEW v, NEW a, NEW x, "open" \in a
    PROVE  /\ Legal(Set({f}, v), a, a \ {f}, x)
           /\ v = x.before[f] => Legal(Set({f}, v), a, a \cup {f}, x)
<1>1. /\ {f} \cap {"INTM", "DBGM"} = {} /\ {f} \cap {"PLLEN", "SYSPLLMULT"} = {}
      /\ "PLLCLKEN" \notin {f}
  BY BorrowedFields
<1>2. AdmitsWrite({f}, v, {}, a, x)
  BY <1>1 DEF AdmitsWrite, Clocked
<1>3. Spoiled({f}) = {f}
  <2>1. /\ {f} \cap Borrowed = {f} /\ {f} \cap {"INTM"} = {} /\ {f} \cap {"SYSDBGCTL"} = {}
        /\ {f} \cap {"SYSPLLMULT"} = {} /\ {f} \cap {"SYSPLLMULT", "PLLEN"} = {}
        /\ {f} \cap {"PLLCLKEN"} = {} /\ {f} \cap {"PLLSYSCLKDIV"} = {}
        /\ {f} \cap {"ADCA_RESOLUTION"} = {} /\ {f} \cap {"ADCA_SIGNALMODE"} = {}
        /\ {f} \cap {"ADCA_INLTRIM_LOW"} = {} /\ {f} \cap {"ADCA_OFFTRIM"} = {}
    BY BorrowedFields
  <2>2. QED
    BY <2>1 DEF Spoiled, Touched
<1>4. Legal(Set({f}, v), a, a \ {f}, x)
  BY <1>2, <1>3, WriteLegal
<1>5. ASSUME v = x.before[f] PROVE Legal(Set({f}, v), a, a \cup {f}, x)
  <2>1. f \in Given({f}, v, a, x)
    BY <1>5 DEF Given, GivenBorrowed
  <2>2. QED
    BY <1>2, <1>3, <2>1, WriteLegal
<1>6. QED
  BY <1>4, <1>5

\* Both masks are set; what was set already is as it was.
LEMMA MaskBoth ==
    ASSUME NEW a, NEW x, "open" \in a, {"INTM", "DBGM"} \cap a = {}
    PROVE  Legal(Set({"INTM", "DBGM"}, 1), a,
                 a \cup {"masked"} \cup {f \in {"INTM", "DBGM"} : x.before[f] = 1}, x)
<1> DEFINE m == {f \in {"INTM", "DBGM"} : x.before[f] = 1}
<1>1. Spoiled({"INTM", "DBGM"}) = {"INTM", "DBGM", "masked"}
  BY BorrowedFields DEF Spoiled, Touched
<1>2. AdmitsWrite({"INTM", "DBGM"}, 1, {}, a, x)
  BY DEF AdmitsWrite, Clocked
<1>3. "masked" \in Given({"INTM", "DBGM"}, 1, a, x)
  BY DEF Given, GivenBorrowed, When
<1>4. m \subseteq Given({"INTM", "DBGM"}, 1, a, x)
  BY BorrowedFields DEF Given, GivenBorrowed
<1> HIDE DEF m
<1>5. a \cup {"masked"} \cup m \subseteq (a \ Spoiled({"INTM", "DBGM"})) \cup Given({"INTM", "DBGM"}, 1, a, x)
  BY <1>1, <1>3, <1>4
<1>6. QED
  BY <1>2, <1>5, WriteLegal DEF m

Dog == {"WDDIS", "WDPS", "WDWCR", "WDENINT"}

\* The watchdog is made to watch the change of the clock.
LEMMA WatchRuns ==
    ASSUME NEW a \in Safe, NEW x, "open" \in a, (Dog \cup {"INTM", "DBGM"}) \cap a = {},
           NEW m, m = {f \in {"INTM", "DBGM"} : x.before[f] = 1}
    PROVE  Runs(Watch, a, a \cup {"masked"} \cup m, x) /\ a \cup {"masked"} \cup m \in Safe
<1> DEFINE b == a \cup {"masked"} \cup m
<1>1. m \subseteq {"INTM", "DBGM"}
  OBVIOUS
<1>2. b \in Safe /\ "open" \in b /\ {"WDWCR", "WDENINT", "WDDIS", "WDPS"} \cap b = {}
  BY <1>1, BorrowedFields DEF Safe, Facts, Dog
<1>3. a \cup {"open"} = a /\ b \cup {"open"} = b /\ a \ {"WDWCR"} = a /\ b \ {"WDENINT"} = b
  BY <1>2, BorrowedFields DEF Dog
<1>4. Legal(Set({"INTM", "DBGM"}, 1), a, b, x)
  BY MaskBoth, BorrowedFields
<1> HIDE DEF b
<1>5. {"WDKEY"} \cap Special = {} /\ "WDWCR" \in Borrowed \ {"INTM", "DBGM"}
      /\ "WDENINT" \in Borrowed \ {"INTM", "DBGM"}
  BY BorrowedFields DEF Special
<1>6. Legal(EALLOW, a, a \cup {"open"}, x) /\ Legal(Set({"WDKEY"}, 0), a \cup {"open"}, a \cup {"open"}, x)
  BY <1>5, Allowed, PlainSet
<1>7. Legal(Set({"WDWCR"}, 0), a, a \ {"WDWCR"}, x) /\ Legal(Set({"WDENINT"}, 0), b, b \ {"WDENINT"}, x)
  BY <1>2, <1>5, BorrowedWrite
<1>8. /\ Legal(EALLOW, a, a, x) /\ Legal(Set({"WDKEY"}, 0), a, a, x)
      /\ Legal(Set({"WDWCR"}, 0), a, a, x) /\ Legal(Set({"WDENINT"}, 0), b, b, x)
  BY <1>3, <1>6, <1>7
<1>9. Legal(Set({"WDDIS", "WDPS"}, 0), b, b, x)
  <2>1. Spoiled({"WDDIS", "WDPS"}) = {"WDDIS", "WDPS"}
    BY BorrowedFields DEF Spoiled, Touched
  <2>2. AdmitsWrite({"WDDIS", "WDPS"}, 0, {}, b, x)
    BY <1>2 DEF AdmitsWrite, Clocked
  <2>3. b \subseteq b \ {"WDDIS", "WDPS"}
    BY <1>2
  <2>4. QED
    BY <2>1, <2>2, <2>3, WriteLegal
<1>10. Runs(Watch, a, b, x)
  BY <1>2, <1>4, <1>8, <1>9, Chain6 DEF Watch
<1>11. QED
  BY <1>2, <1>10 DEF b

\* The change itself, from a marked SYSDBGCTL to a clear one.
LEMMA TakeOverRuns ==
    ASSUME NEW a \in Safe, NEW x, {"open", "masked", "ready", "slow"} \subseteq a,
           {"off", "marked"} \cap a = {}
    PROVE  Runs(TakeOver, a, a \cup {"clear"}, x) /\ a \cup {"clear"} \in Safe
<1> DEFINE b == (a \ {"clear"}) \cup {"marked"}
<1>1. b \in Safe /\ a \cup {"clear"} \in Safe
  BY DEF Safe, Facts
<1>2. /\ {"open", "marked", "ready", "slow"} \subseteq b /\ b \ {"off"} = b
      /\ (b \ {"marked"}) \cup {"clear"} = a \cup {"clear"}
  OBVIOUS
<1>3. Legal(Set({"SYSDBGCTL"}, 1), a, b, x)
  BY PllWrites
<1> HIDE DEF b
<1>4. Legal(Set({"PLLCLKEN"}, 1), b, b \ {"off"}, x)
      /\ Legal(Set({"SYSDBGCTL"}, 0), b, (b \ {"marked"}) \cup {"clear"}, x)
  BY <1>2, PllWrites
<1>5. Legal(Set({"PLLCLKEN"}, 1), b, b, x) /\ Legal(Set({"SYSDBGCTL"}, 0), b, a \cup {"clear"}, x)
  BY <1>2, <1>4
<1>6. QED
  BY <1>1, <1>3, <1>5, Chain3 DEF TakeOver

\* What is restored: r are the registers when the function was called.
LEMMA RestoreRuns ==
    ASSUME NEW a \in Safe, NEW x, NEW r, "open" \in a, ForRoutine \subseteq a,
           \A f \in Borrowed : r[f] = x.before[f], {r["INTM"], r["DBGM"]} \subseteq {0, 1},
           {f \in {"INTM", "DBGM"} : x.before[f] = 1} \subseteq a
    PROVE  /\ Runs(Restore(r), a, (a \ {"masked"}) \cup Dog \cup {"INTM", "DBGM"}, x)
           /\ (a \ {"masked"}) \cup Dog \cup {"INTM", "DBGM"} \in Safe
<1> DEFINE b1 == a \cup {"WDDIS"}
           b2 == b1 \cup {"WDPS"}
           b3 == b2 \cup {"WDWCR"}
           b4 == b3 \cup {"WDENINT"}
           c  == (b4 \ {"masked"}) \cup {"INTM"}
           d  == c \cup {"DBGM"}
           INTM == If(r["INTM"] = 0, <<Set({"INTM"}, 0)>>)
           DBGM == If(r["DBGM"] = 0, <<Set({"DBGM"}, 0)>>)
<1>1. b1 \in Safe /\ b2 \in Safe /\ b3 \in Safe
  BY BorrowedFields DEF Safe, Facts, ForRoutine
<1>2. b4 \in Safe /\ c \in Safe /\ d \in Safe
  BY BorrowedFields DEF Safe, Facts, ForRoutine
<1>3. d = (a \ {"masked"}) \cup Dog \cup {"INTM", "DBGM"}
  BY DEF Dog
<1>4. "open" \in b1 /\ "open" \in b2 /\ "open" \in b3 /\ "open" \in b4 /\ "open" \in c
  OBVIOUS
<1>5. Legal(Set({"WDKEY"}, 0), a, a, x)
  <2>1. {"WDKEY"} \cap Special = {}
    BY BorrowedFields DEF Special
  <2>2. a \cup {"open"} = a
    OBVIOUS
  <2>3. Legal(Set({"WDKEY"}, 0), a \cup {"open"}, a \cup {"open"}, x)
    BY <2>1, PlainSet
  <2>4. QED
    BY <2>2, <2>3
<1>6. \A f \in Dog : f \in Borrowed \ {"INTM", "DBGM"} /\ r[f] = x.before[f]
  BY BorrowedFields DEF Dog
<1>7. ASSUME NEW f \in Dog, NEW e, "open" \in e
      PROVE  Legal(Set({f}, r[f]), e, e \cup {f}, x)
  BY <1>6, <1>7, BorrowedWrite
<1>8. /\ Legal(Set({"WDDIS"}, r["WDDIS"]), a, b1, x) /\ Legal(Set({"WDPS"}, r["WDPS"]), b1, b2, x)
      /\ Legal(Set({"WDWCR"}, r["WDWCR"]), b2, b3, x) /\ Legal(Set({"WDENINT"}, r["WDENINT"]), b3, b4, x)
  <2>1. "WDDIS" \in Dog /\ "WDPS" \in Dog /\ "WDWCR" \in Dog /\ "WDENINT" \in Dog
    BY DEF Dog
  <2>2. Legal(Set({"WDDIS"}, r["WDDIS"]), a, b1, x)
    BY <1>7, <2>1
  <2>3. Legal(Set({"WDPS"}, r["WDPS"]), b1, b2, x)
    BY <1>4, <1>7, <2>1
  <2>4. Legal(Set({"WDWCR"}, r["WDWCR"]), b2, b3, x)
    BY <1>4, <1>7, <2>1
  <2>5. Legal(Set({"WDENINT"}, r["WDENINT"]), b3, b4, x)
    BY <1>4, <1>7, <2>1
  <2>6. QED
    BY <2>2, <2>3, <2>4, <2>5
<1>9. Runs(<<Set({"WDKEY"}, 0), Set({"WDDIS"}, r["WDDIS"]), Set({"WDPS"}, r["WDPS"]),
             Set({"WDWCR"}, r["WDWCR"]), Set({"WDENINT"}, r["WDENINT"])>>, a, b4, x)
  <2> HIDE DEF b1, b2, b3, b4
  <2>1. QED
    BY <1>1, <1>2, <1>5, <1>8, Chain5
<1>10. Runs(INTM, b4, c, x)
  <2>1. CASE r["INTM"] = 0
    <3>1. Spoiled({"INTM"}) = {"INTM", "masked"} /\ AdmitsWrite({"INTM"}, 0, {}, b4, x)
      BY BorrowedFields DEF Spoiled, Touched, AdmitsWrite, Clocked, Unprotected
    <3>2. "INTM" \in Given({"INTM"}, 0, b4, x)
      BY <2>1, BorrowedFields DEF Given, GivenBorrowed
    <3>3. c \subseteq (b4 \ Spoiled({"INTM"})) \cup Given({"INTM"}, 0, b4, x)
      BY <3>1, <3>2
    <3> HIDE DEF b4, c
    <3>4. Legal(Set({"INTM"}, 0), b4, c, x)
      BY <3>1, <3>3, WriteLegal
    <3>5. INTM = <<Set({"INTM"}, 0)>>
      BY <2>1 DEF If
    <3>6. QED
      BY <1>2, <3>4, <3>5, One
  <2>2. CASE r["INTM"] = 1
    <3>1. "INTM" \in a
      BY <2>2, BorrowedFields
    <3>2. c \subseteq b4
      BY <3>1
    <3>3. INTM = <<>>
      BY <2>2 DEF If
    <3> HIDE DEF b4, c
    <3>4. QED
      BY <1>2, <3>2, <3>3, Skip
  <2>3. QED
    BY <2>1, <2>2
<1>11. Runs(DBGM, c, d, x)
  <2>1. CASE r["DBGM"] = 0
    <3>1. Spoiled({"DBGM"}) = {"DBGM"} /\ AdmitsWrite({"DBGM"}, 0, {}, c, x)
      BY BorrowedFields DEF Spoiled, Touched, AdmitsWrite, Clocked, Unprotected
    <3>2. "DBGM" \in Given({"DBGM"}, 0, c, x)
      BY <2>1, BorrowedFields DEF Given, GivenBorrowed
    <3> HIDE DEF c
    <3>3. d \subseteq (c \ Spoiled({"DBGM"})) \cup Given({"DBGM"}, 0, c, x)
      BY <3>1, <3>2
    <3> HIDE DEF d
    <3>4. Legal(Set({"DBGM"}, 0), c, d, x)
      BY <3>1, <3>3, WriteLegal
    <3>5. DBGM = <<Set({"DBGM"}, 0)>>
      BY <2>1 DEF If
    <3>6. QED
      BY <1>2, <3>4, <3>5, One
  <2>2. CASE r["DBGM"] = 1
    <3>1. "DBGM" \in a
      BY <2>2, BorrowedFields
    <3>2. d \subseteq c
      BY <3>1
    <3>3. DBGM = <<>>
      BY <2>2 DEF If
    <3> HIDE DEF c, d
    <3>4. QED
      BY <1>2, <3>2, <3>3, Skip
  <2>3. QED
    BY <2>1, <2>2
<1>12. Runs(Restore(r), a, d, x)
  <2> HIDE DEF b4, c, d, INTM, DBGM
  <2>1. Runs(<<Set({"WDKEY"}, 0), Set({"WDDIS"}, r["WDDIS"]), Set({"WDPS"}, r["WDPS"]),
               Set({"WDWCR"}, r["WDWCR"]), Set({"WDENINT"}, r["WDENINT"])>> \o INTM, a, c, x)
    BY <1>9, <1>10, Compose
  <2>2. QED
    BY <1>11, <2>1, Compose DEF Restore, INTM, DBGM
<1>13. QED
  BY <1>2, <1>3, <1>12

\* After a reset the masks are set, and nothing is known of what they were before.
LEMMA RestoreAtBoot ==
    ASSUME NEW a \in Safe, NEW x, NEW r, "open" \in a, Borrowed \cap a = {}, r["INTM"] = 1
    PROVE  Runs(Restore(r), a, a, x)
<1>1. ASSUME NEW f \in Dog, NEW v PROVE Legal(Set({f}, v), a, a, x)
  <2>1. f \in Borrowed \ {"INTM", "DBGM"} /\ a \ {f} = a
    BY BorrowedFields DEF Dog
  <2>2. Legal(Set({f}, v), a, a \ {f}, x)
    BY <2>1, BorrowedWrite
  <2>3. QED
    BY <2>1, <2>2
<1>2. Legal(Set({"WDKEY"}, 0), a, a, x)
  <2>1. {"WDKEY"} \cap Special = {}
    BY BorrowedFields DEF Special
  <2>2. a \cup {"open"} = a
    OBVIOUS
  <2>3. Legal(Set({"WDKEY"}, 0), a \cup {"open"}, a \cup {"open"}, x)
    BY <2>1, PlainSet
  <2>4. QED
    BY <2>2, <2>3
<1>3. Steady(<<Set({"WDKEY"}, 0), Set({"WDDIS"}, r["WDDIS"]), Set({"WDPS"}, r["WDPS"]),
               Set({"WDWCR"}, r["WDWCR"]), Set({"WDENINT"}, r["WDENINT"])>>, a, x)
  <2>1. "WDDIS" \in Dog /\ "WDPS" \in Dog /\ "WDWCR" \in Dog /\ "WDENINT" \in Dog
    BY DEF Dog
  <2>2. /\ Legal(Set({"WDDIS"}, r["WDDIS"]), a, a, x) /\ Legal(Set({"WDPS"}, r["WDPS"]), a, a, x)
        /\ Legal(Set({"WDWCR"}, r["WDWCR"]), a, a, x) /\ Legal(Set({"WDENINT"}, r["WDENINT"]), a, a, x)
    BY <1>1, <2>1
  <2>3. QED
    BY <1>2, <2>2, Steady5
<1>4. If(r["INTM"] = 0, <<Set({"INTM"}, 0)>>) = <<>>
  BY DEF If
<1>5. Steady(If(r["DBGM"] = 0, <<Set({"DBGM"}, 0)>>), a, x)
  <2>1. "DBGM" \notin a
    BY BorrowedFields
  <2>2. Steady(<<Set({"DBGM"}, 0)>>, a, x)
    BY <2>1, MaskLegal, Steady1
  <2>3. QED
    BY <2>2, SteadyEmpty DEF If
<1>6. Steady(Restore(r), a, x)
  <2>1. Steady(<<Set({"WDKEY"}, 0), Set({"WDDIS"}, r["WDDIS"]), Set({"WDPS"}, r["WDPS"]),
                 Set({"WDWCR"}, r["WDWCR"]), Set({"WDENINT"}, r["WDENINT"])>> \o <<>>, a, x)
    BY <1>3, SteadyEmpty, SteadyJoined
  <2>2. QED
    BY <1>4, <1>5, <2>1, SteadyJoined DEF Restore
<1>7. QED
  BY <1>6, SteadyRuns

\* The clock source, when it changes.
LEMMA SelectRuns ==
    ASSUME NEW a \in Safe, NEW x, "open" \notin a, NEW source, NEW current
    PROVE  Runs(Select(source, current), a, a, x)
BY ClockSources, Skip DEF Select, If

\* The divider that was asked for, at last.
LEMMA LastDivider ==
    ASSUME NEW a \in Safe, NEW x, "open" \in a, NEW div
    PROVE  Runs(<<Set({"PLLSYSCLKDIV"}, div), EDIS>>, a, a \ {"slow", "open"}, x)
<1> DEFINE b == a \ {"slow"}
<1>1. b \in Safe /\ b \ {"open"} \in Safe /\ b \ {"open"} = a \ {"slow", "open"}
  BY DEF Safe, ForRoutine
<1>2. Legal(Set({"PLLSYSCLKDIV"}, div), a, b, x)
  BY PllWrites
<1> HIDE DEF b
<1>3. Legal(EDIS, b, b \ {"open"}, x)
  BY Allowed
<1>4. Runs(<<Set({"PLLSYSCLKDIV"}, div), EDIS>>, a, b \ {"open"}, x)
  BY <1>1, <1>2, <1>3, Chain2
<1>5. QED
  BY <1>1, <1>4

\* InitSysPll() called by the program: all that it borrows is returned.
LEMMA SysPllRuns ==
    ASSUME NEW a \in Safe, NEW x, NEW r, NEW source, NEW mult, NEW div, div = x.div,
           ForRoutine \cup {"ready"} \cup Borrowed \subseteq a,
           {"open", "masked", "slow", "off", "fresh", "marked"} \cap a = {},
           \A f \in Borrowed : r[f] = x.before[f], {r["INTM"], r["DBGM"]} \subseteq {0, 1}
    PROVE  Runs(InitSysPll(r, source, mult, div), a, a, x)
<1> DEFINE b == a \cup {"open"}
           c == b \cup {"slow"}
           d == c \ (Dog \cup {"INTM", "DBGM"})
           m == {f \in {"INTM", "DBGM"} : x.before[f] = 1}
           e == d \cup {"masked"} \cup m
           g == (e \ {"masked"}) \cup Dog \cup {"INTM", "DBGM"}
<1>1. b \in Safe /\ c \in Safe /\ d \in Safe
  BY Stays, BorrowedFields DEF Safe, Facts, ForRoutine, Dog
<1>2. /\ (b \ {"fresh", "slow"}) \cup {"ready"} = b /\ d \subseteq c
      /\ a = g \ {"slow", "open"} /\ "open" \in b
      /\ (Dog \cup {"INTM", "DBGM"}) \cap d = {}
  BY BorrowedFields DEF Dog
<1>3. /\ "open" \in d /\ ForRoutine \subseteq d /\ {"ready", "slow"} \subseteq d
      /\ {"off", "marked"} \cap d = {}
  BY BorrowedFields DEF ForRoutine, Dog
<1>4. /\ {"open", "masked", "ready", "slow"} \subseteq e /\ {"off", "marked"} \cap e = {}
      /\ ForRoutine \subseteq e /\ e \cup {"clear"} = e /\ m \subseteq e /\ "open" \in g
  BY <1>3 DEF ForRoutine
<1>5. Legal(Set({"PLLSYSCLKDIV"}, Slower(div)), b, c, x)
  BY PllWrites
<1>6. Legal(EALLOW, a, b, x)
  BY Allowed
<1> HIDE DEF b, c
<1>7. Runs(Watch, d, e, x) /\ e \in Safe
  <2>1. d \in Safe /\ "open" \in d /\ (Dog \cup {"INTM", "DBGM"}) \cap d = {}
    BY <1>1, <1>2, <1>3
  <2> HIDE DEF d
  <2>2. Runs(Watch, d, d \cup {"masked"} \cup m, x) /\ d \cup {"masked"} \cup m \in Safe
    BY <2>1, WatchRuns
  <2>3. QED
    BY <2>2
<1>8. Runs(TakeOver, e, e, x) /\ Runs(Restore(r), e, g, x) /\ g \in Safe
  <2>1. {f \in {"INTM", "DBGM"} : x.before[f] = 1} \subseteq e
    OBVIOUS
  <2> HIDE DEF e, m
  <2>2. Runs(TakeOver, e, e, x)
    BY <1>4, <1>7, TakeOverRuns
  <2>3. Runs(Restore(r), e, g, x) /\ g \in Safe
    BY <1>4, <1>7, <2>1, RestoreRuns
  <2>4. QED
    BY <2>2, <2>3
<1>9. Runs(Select(source, r["OSCCLKSRCSEL"]), a, a, x)
  BY SelectRuns
<1>10. Runs(If(mult # r["SYSPLLMULT"], Relock(mult)), b, b, x)
  <2>1. Runs(Relock(mult), b, b, x)
    BY <1>1, <1>2, RelockRuns
  <2>2. QED
    BY <1>1, <2>1, Skip DEF If
<1>11. Runs(<<Set({"PLLSYSCLKDIV"}, Slower(div))>>, b, d, x)
  <2>1. Runs(<<Set({"PLLSYSCLKDIV"}, Slower(div))>>, b, c, x)
    BY <1>1, <1>5, One
  <2> HIDE DEF d
  <2>2. QED
    BY <1>2, <2>1, Weaken
<1>12. Runs(<<Set({"PLLSYSCLKDIV"}, div), EDIS>>, g, a, x)
  <2>1. g \in Safe /\ "open" \in g /\ a = g \ {"slow", "open"}
    BY <1>2, <1>4, <1>8
  <2> HIDE DEF g
  <2>2. Runs(<<Set({"PLLSYSCLKDIV"}, div), EDIS>>, g, g \ {"slow", "open"}, x)
    BY <2>1, LastDivider
  <2>3. QED
    BY <2>1, <2>2
<1> DEFINE l1 == Select(source, r["OSCCLKSRCSEL"])
           l3 == If(mult # r["SYSPLLMULT"], Relock(mult))
           l4 == <<Set({"PLLSYSCLKDIV"}, Slower(div))>>
           l5 == <<Set({"PLLSYSCLKDIV"}, div), EDIS>>
<1> HIDE DEF d, e, g, l1, l3, l4, l5
<1>13. Runs(<<EALLOW>>, a, b, x)
  BY <1>1, <1>6, One
<1>14. Runs(l1 \o <<EALLOW>>, a, b, x)
  BY <1>9, <1>13, Compose DEF l1
<1>15. Runs(l1 \o <<EALLOW>> \o l3, a, b, x)
  BY <1>10, <1>14, Compose DEF l3
<1>16. Runs(l1 \o <<EALLOW>> \o l3 \o l4, a, d, x)
  BY <1>11, <1>15, Compose DEF l4
<1>17. Runs(l1 \o <<EALLOW>> \o l3 \o l4 \o Watch, a, e, x)
  BY <1>7, <1>16, Compose
<1>18. Runs(l1 \o <<EALLOW>> \o l3 \o l4 \o Watch \o TakeOver, a, e, x)
  BY <1>8, <1>17, Compose
<1>19. Runs(l1 \o <<EALLOW>> \o l3 \o l4 \o Watch \o TakeOver \o Restore(r), a, g, x)
  BY <1>8, <1>18, Compose
<1>20. Runs(l1 \o <<EALLOW>> \o l3 \o l4 \o Watch \o TakeOver \o Restore(r) \o l5, a, a, x)
  BY <1>12, <1>19, Compose DEF l5
<1>21. QED
  BY <1>20, Skip DEF InitSysPll, If, l1, l3, l4, l5

\* InitSysPll() called by main().
LEMMA SysPllAtBoot ==
    ASSUME NEW a \in Safe, NEW x, NEW r, {"masked", "fresh", "off"} \subseteq a,
           x.div = 1, r["INTM"] = 1, r["SYSPLLMULT"] = 0
    PROVE  /\ Runs(InitSysPll(r, 0, 20, 1), a, AfterCall("InitSysPll", a, x), x)
           /\ AfterCall("InitSysPll", a, x) \in Safe
<1> DEFINE kept == a \cap {"powered", "copied", "routed"}
           a0 == {"masked", "fresh", "off"} \cup kept
           b == a0 \cup {"open"}
           c == (b \ {"fresh", "slow"}) \cup {"ready"}
           d == {"masked", "ready", "open", "slow"} \cup kept
           e == d \cup {"clear"}
           g == {"masked", "clear", "ready"} \cup kept
<1>1. a0 \in Safe /\ b \in Safe /\ c \in Safe /\ d \in Safe /\ e \in Safe /\ g \in Safe
  BY DEF Safe, Facts
<1>2. /\ "open" \notin a0 /\ a0 \subseteq a /\ "open" \in b /\ "open" \in c
      /\ d \subseteq c \cup {"slow"} /\ c \cup {"slow"} \in Safe
  BY DEF Safe, Facts
<1>3. /\ "open" \in d /\ (Dog \cup {"INTM", "DBGM"}) \cap d = {} /\ {"off", "marked"} \cap d = {}
      /\ {"open", "masked", "ready", "slow"} \subseteq d
      /\ "open" \in e /\ Borrowed \cap e = {} /\ g = e \ {"slow", "open"}
  BY BorrowedFields DEF Dog
<1>4. AfterCall("InitSysPll", a, x) = g
  BY DEF AfterCall
<1>5. Legal(EALLOW, a0, b, x)
  BY Allowed
<1>6. Runs(Relock(20), b, c, x)
  <2> HIDE DEF b
  <2>1. QED
    BY <1>1, <1>2, RelockRuns
<1>7. Legal(Set({"PLLSYSCLKDIV"}, Slower(1)), c, c \cup {"slow"}, x)
  <2> HIDE DEF c
  <2>1. QED
    BY <1>2, PllWrites
<1>8. Legal(Set({"PLLSYSCLKDIV"}, Slower(1)), c, d, x)
  <2> HIDE DEF c, d
  <2>1. QED
    BY <1>2, <1>7 DEF Legal
<1>9. Runs(Watch, d, d, x)
  <2> HIDE DEF d
  <2> DEFINE m == {f \in {"INTM", "DBGM"} : x.before[f] = 1}
  <2>1. d \subseteq d \cup {"masked"} \cup m
    OBVIOUS
  <2>2. Runs(Watch, d, d \cup {"masked"} \cup m, x)
    BY <1>1, <1>3, WatchRuns
  <2> HIDE DEF m
  <2>3. QED
    BY <2>1, <2>2, Weaken
<1>10. Runs(TakeOver, d, e, x)
  <2> HIDE DEF d
  <2>1. QED
    BY <1>1, <1>3, TakeOverRuns
<1>11. Runs(Restore(r), e, e, x)
  <2> HIDE DEF e
  <2>1. QED
    BY <1>1, <1>3, RestoreAtBoot
<1>12. Runs(<<Set({"PLLSYSCLKDIV"}, 1), EDIS>>, e, g, x)
  <2> HIDE DEF e, g
  <2>1. Runs(<<Set({"PLLSYSCLKDIV"}, 1), EDIS>>, e, e \ {"slow", "open"}, x)
    BY <1>1, <1>3, LastDivider
  <2>2. QED
    BY <1>3, <2>1
<1> DEFINE l1 == Select(0, r["OSCCLKSRCSEL"])
           l3 == If(20 # r["SYSPLLMULT"], Relock(20))
           l4 == <<Set({"PLLSYSCLKDIV"}, Slower(1))>>
           l5 == <<Set({"PLLSYSCLKDIV"}, 1), EDIS>>
<1>13. l3 = Relock(20)
  BY DEF If
<1> HIDE DEF a0, b, c, d, e, g, l1, l3, l4, l5
<1>14. Runs(l1, a0, a0, x)
  BY <1>1, <1>2, SelectRuns DEF l1
<1>15. Runs(<<EALLOW>>, a0, b, x) /\ Runs(l4, c, d, x)
  BY <1>1, <1>5, <1>8, One DEF l4
<1>16. Runs(l1 \o <<EALLOW>>, a0, b, x)
  BY <1>14, <1>15, Compose
<1>17. Runs(l1 \o <<EALLOW>> \o l3, a0, c, x)
  BY <1>6, <1>13, <1>16, Compose
<1>18. Runs(l1 \o <<EALLOW>> \o l3 \o l4, a0, d, x)
  BY <1>15, <1>17, Compose
<1>19. Runs(l1 \o <<EALLOW>> \o l3 \o l4 \o Watch, a0, d, x)
  BY <1>9, <1>18, Compose
<1>20. Runs(l1 \o <<EALLOW>> \o l3 \o l4 \o Watch \o TakeOver, a0, e, x)
  BY <1>10, <1>19, Compose
<1>21. Runs(l1 \o <<EALLOW>> \o l3 \o l4 \o Watch \o TakeOver \o Restore(r), a0, e, x)
  BY <1>11, <1>20, Compose
<1>22. Runs(l1 \o <<EALLOW>> \o l3 \o l4 \o Watch \o TakeOver \o Restore(r) \o l5, a0, g, x)
  BY <1>12, <1>21, Compose DEF l5
<1>23. <<0, 20, 1>> # <<r["OSCCLKSRCSEL"], r["SYSPLLMULT"], r["PLLSYSCLKDIV"]>>
  OBVIOUS
<1>24. Runs(InitSysPll(r, 0, 20, 1), a0, g, x)
  BY <1>22, <1>23 DEF InitSysPll, If, l1, l3, l4, l5
<1>25. QED
  BY <1>1, <1>2, <1>4, <1>24, Weaken

------------------------------------------------------------------------------
(* The auxiliary PLL *)

\* The steps of an attempt that come between EALLOW and EDIS.
Inside == (2..5) \cup (8..11)

\* The outline of one attempt to start the auxiliary PLL.
LEMMA AttemptLegal ==
    ASSUME NEW a, NEW x, {"open", "TSS"} \cap a = {}
    PROVE  /\ IsList(AuxAttempt) /\ Len(AuxAttempt) = 11
           /\ \A p \in 1..11 :
                Legal(AuxAttempt[p], IF p \in Inside THEN a \cup {"open"} ELSE a,
                                     IF p + 1 \in Inside THEN a \cup {"open"} ELSE a, x)
<1> DEFINE b == a \cup {"open"}
           s1 == EALLOW
           s2 == Set({"AUXPLLEN"}, 0)
           s3 == Set({"AUXPLLMULT"}, 8)
           s4 == Set({"AUXPLLEN"}, 1)
           s5 == EDIS
           s6 == Await("AUXLOCKS")
           s8 == Set({"AUXPLLCLKEN"}, 1)
           s9 == Set({"TSS"}, 0)
           s10 == Set({"TSS"}, 1)
<1>1. Legal(s1, a, b, x) /\ Legal(s5, b, b \ {"open"}, x) /\ b \ {"open"} = a
  BY Allowed
<1>2. /\ {"AUXPLLEN"} \cap Special = {} /\ {"AUXPLLMULT"} \cap Special = {}
      /\ {"AUXPLLCLKEN"} \cap Special = {} /\ "TSS" \in Borrowed \ {"INTM", "DBGM"}
  BY BorrowedFields DEF Special
<1>3. Legal(s2, b, b, x) /\ Legal(s3, b, b, x) /\ Legal(s4, b, b, x) /\ Legal(s8, b, b, x)
  BY <1>2, PlainSet
<1>4. Legal(s6, a, a, x)
  BY AwaitLegal
<1>5. "open" \in b /\ b \ {"TSS"} = b
  OBVIOUS
<1>6. Legal(s9, b, b, x) /\ Legal(s10, b, b, x)
  <2> HIDE DEF b
  <2>1. Legal(s9, b, b \ {"TSS"}, x) /\ Legal(s10, b, b \ {"TSS"}, x)
    BY <1>2, <1>5, BorrowedWrite
  <2>2. QED
    BY <1>5, <2>1
<1>7. AuxAttempt = <<s1, s2, s3, s4, s5, s6, s1, s8, s9, s10, s5>>
  BY DEF AuxAttempt
<1>8. Legal(s5, b, a, x)
  BY <1>1
<1>9. Legal(s1, a, b, x)
  BY <1>1
<1> HIDE DEF b, s1, s2, s3, s4, s5, s6, s8, s9, s10
<1> DEFINE l == <<s1, s2, s3, s4, s5, s6, s1, s8, s9, s10, s5>>
           S == {s1, s2, s3, s4, s5, s6, s8, s9, s10}
<1>10. l \in Seq(S) /\ Len(l) = 11
  OBVIOUS
<1>11. /\ l[1] = s1 /\ l[2] = s2 /\ l[3] = s3 /\ l[4] = s4 /\ l[5] = s5 /\ l[6] = s6
       /\ l[7] = s1 /\ l[8] = s8 /\ l[9] = s9 /\ l[10] = s10 /\ l[11] = s5
  OBVIOUS
<1> HIDE DEF l
<1>12. IsList(l)
  BY <1>10, ListOf
<1> DEFINE A(p) == IF p \in Inside THEN b ELSE a
<1>13. ASSUME NEW p \in 1..11 PROVE Legal(l[p], A(p), A(p + 1), x)
  <2>1. CASE p \in {2, 3, 4, 8, 9, 10}
    <3>1. p \in Inside /\ p + 1 \in Inside
      BY <2>1 DEF Inside
    <3>2. Legal(l[p], b, b, x)
      BY <1>3, <1>6, <1>11, <2>1
    <3>3. QED
      BY <3>1, <3>2
  <2>2. CASE p \in {5, 11}
    <3>1. p \in Inside /\ p + 1 \notin Inside
      BY <2>2 DEF Inside
    <3>2. QED
      BY <1>8, <1>11, <2>2, <3>1
  <2>3. CASE p \in {1, 7}
    <3>1. p \notin Inside /\ p + 1 \in Inside
      BY <2>3 DEF Inside
    <3>2. QED
      BY <1>9, <1>11, <2>3, <3>1
  <2>4. CASE p = 6
    <3>1. p \notin Inside /\ p + 1 \notin Inside
      BY <2>4 DEF Inside
    <3>2. QED
      BY <1>4, <1>11, <2>4, <3>1
  <2>5. QED
    BY <2>1, <2>2, <2>3, <2>4
<1>14. QED
  BY <1>7, <1>10, <1>12, <1>13 DEF l, b

\* Any number of attempts.
LEMMA AttemptsRun ==
    ASSUME NEW a \in Safe, NEW x, {"open", "TSS"} \cap a = {}, NEW n \in 0..5
    PROVE  Runs(Times(n, AuxAttempt), a, a, x)
<1> DEFINE l == AuxAttempt
           T == Times(n, l)
           b == a \cup {"open"}
           A(p) == IF p \in Inside THEN b ELSE a
           at(i) == ((i - 1) % 11) + 1
           k == [i \in 1..(11 * n + 1) |-> A(at(i))]
<1>1. Len(l) = 11 /\ \A p \in 1..11 : Legal(l[p], A(p), A(p + 1), x)
  BY AttemptLegal
<1> HIDE DEF l
<1>2. T = [i \in 1..11 * n |-> l[at(i)]] /\ n * Len(l) = 11 * n /\ 11 * n \in Nat
  BY <1>1 DEF Times
<1>3. T \in [1..11 * n -> {l[p] : p \in 1..11}]
  <2>1. \A i \in 1..11 * n : at(i) \in 1..11
    OBVIOUS
  <2>2. QED
    BY <1>2, <2>1
<1>4. IsList(T) /\ Len(T) = 11 * n
  <2>1. ASSUME NEW S, NEW U, NEW m \in Nat, U \in [1..m -> S] PROVE U \in Seq(S) /\ Len(U) = m
    BY <2>1
  <2> HIDE DEF T
  <2>2. T \in Seq({l[p] : p \in 1..11}) /\ Len(T) = 11 * n
    BY <1>2, <1>3, <2>1
  <2>3. QED
    BY <2>2, ListOf
<1>5. b \in Safe
  BY Stays
<1>6. ASSUME NEW i \in 1..11 * n
      PROVE  A(at(i + 1)) = A(at(i) + 1) /\ at(i) \in 1..11
  <2>1. at(i) \in 1..11 /\ at(i + 1) = IF at(i) = 11 THEN 1 ELSE at(i) + 1
    OBVIOUS
  <2>2. 1 \notin Inside /\ 12 \notin Inside
    BY DEF Inside
  <2>3. QED
    BY <2>1, <2>2
<1> HIDE DEF b, A, at, T
<1>7. /\ \A i \in 1..11 * n : T[i] = l[at(i)]
      /\ \A i \in 1..(11 * n + 1) : k[i] = A(at(i))
  BY <1>2
<1>8. k \in [1..(11 * n + 1) -> Safe]
  <2>1. \A p : A(p) \in Safe
    BY <1>5 DEF A
  <2>2. QED
    BY <2>1
<1> HIDE DEF k
<1>9. ASSUME NEW i \in 1..11 * n PROVE Legal(T[i], k[i], k[i + 1], x)
  <2>1. i \in 1..(11 * n + 1) /\ i + 1 \in 1..(11 * n + 1)
    BY <1>2
  <2>2. T[i] = l[at(i)] /\ k[i] = A(at(i)) /\ k[i + 1] = A(at(i) + 1)
    BY <1>6, <1>7, <2>1
  <2>3. QED
    BY <1>1, <1>6, <2>2
<1>10. k[1] = a /\ k[11 * n + 1] = a
  <2>1. at(1) = 1 /\ at(11 * n + 1) = 1
    BY DEF at
  <2>2. A(1) = a
    BY DEF A, Inside
  <2>3. QED
    BY <1>2, <1>7, <2>1, <2>2
<1>11. Outline(k, T, a, a, x)
  BY <1>4, <1>9, <1>10 DEF Outline
<1>12. QED
  BY <1>4, <1>8, <1>11 DEF Runs, T, l

\* InitAuxPll() called by the program: timer 2 is returned.
LEMMA AuxPllRuns ==
    ASSUME NEW a \in Safe, NEW x, NEW r, NEW source, NEW mult, NEW div, NEW attempts \in 1..6,
           "open" \notin a, ForRoutine \subseteq a, Borrowed \subseteq a,
           \A f \in Borrowed : r[f] = x.before[f]
    PROVE  Runs(InitAuxPll(r, source, mult, div, attempts), a, a, x)
<1> DEFINE b == a \ TimerFields
           b1 == b \cup {"open"}
           c2 == b1 \cup {"TMR2CLKSRCSEL"}
           c3 == c2 \cup {"TMR2CLKPRESCALE"}
           c4 == c3 \cup {"TSS"}
           c5 == c4 \cup {"TIE"}
           c6 == c5 \cup {"PRD"}
           c7 == c6 \cup {"TPR"}
           n == IF attempts <= 5 THEN attempts ELSE 5
<1>1. /\ b \in Safe /\ b1 \in Safe /\ c2 \in Safe /\ c3 \in Safe /\ c4 \in Safe /\ c5 \in Safe
      /\ c6 \in Safe /\ c7 \in Safe
  <2>1. b \in Safe /\ b1 \in Safe
    BY BorrowedFields DEF Safe, Facts, ForRoutine, TimerFields
  <2>2. \A e \in Safe, f \in TimerFields : e \cup {f} \in Safe
    BY BorrowedFields DEF Safe, Facts, TimerFields
  <2> HIDE DEF b1
  <2>3. c2 \in Safe /\ c3 \in Safe /\ c4 \in Safe
    BY <2>1, <2>2 DEF TimerFields
  <2> HIDE DEF c4
  <2>4. QED
    BY <2>1, <2>2, <2>3 DEF TimerFields
<1>2. /\ {"open", "TSS"} \cap b = {} /\ b \subseteq a /\ c7 \ {"open"} = a
      /\ "open" \in b1 /\ "open" \in c2 /\ "open" \in c3 /\ "open" \in c4 /\ "open" \in c5
      /\ "open" \in c6 /\ "open" \in c7
  BY BorrowedFields DEF TimerFields
<1>3. \A f \in TimerFields : b1 \ {f} = b1
  BY DEF TimerFields
<1>4. /\ {"AUXPLLDIV"} \cap Special = {} /\ {"AUXPLLMULT"} \cap Special = {}
  BY BorrowedFields DEF Special
<1>5. \A f \in TimerFields : f \in Borrowed \ {"INTM", "DBGM"}
  BY BorrowedFields DEF TimerFields
<1>6. /\ "TMR2CLKSRCSEL" \in TimerFields /\ "TMR2CLKPRESCALE" \in TimerFields /\ "TSS" \in TimerFields
      /\ "TIE" \in TimerFields /\ "PRD" \in TimerFields /\ "TPR" \in TimerFields
  BY DEF TimerFields
<1> DEFINE l1 == (CASE source = 0 -> AuxIntOsc2Sel
                    [] source = 1 -> AuxXtalOscSel
                    [] source = 2 -> AuxAuxClkSel
                    [] OTHER -> <<>>)
           l2 == <<Set({"TMR2CLKSRCSEL"}, 6), Set({"TMR2CLKPRESCALE"}, 0), Set({"TSS"}, 1),
                   Set({"PRD"}, 10), Set({"TPR"}, 0), Set({"TIE"}, 0), Set({"AUXPLLDIV"}, 3)>>
           l3 == If(attempts > 5, Protected(<<Set({"AUXPLLMULT"}, 0)>>) \o <<Sleep("ESTOP0")>>)
           l4 == <<Set({"AUXPLLDIV"}, div)>> \o RestoreTimer(r)
<1>7. Runs(l1, a, b, x)
  <2>1. Runs(l1, a, a, x)
    <3>1. Runs(<<>>, a, a, x)
      BY Skip
    <3>2. Runs(AuxIntOsc2Sel, a, a, x) /\ Runs(AuxXtalOscSel, a, a, x) /\ Runs(AuxAuxClkSel, a, a, x)
      BY ClockSources
    <3>3. QED
      BY <3>1, <3>2
  <2> HIDE DEF b, l1
  <2>2. QED
    BY <1>2, <2>1, Weaken
<1>8. Runs(Protected(l2), b, b, x)
  <2> HIDE DEF b1
  <2>1. ASSUME NEW f \in TimerFields, NEW v PROVE Legal(Set({f}, v), b1, b1, x)
    <3>1. Legal(Set({f}, v), b1, b1 \ {f}, x)
      BY <1>2, <1>5, BorrowedWrite
    <3>2. QED
      BY <1>3, <3>1
  <2>2. /\ Legal(Set({"TMR2CLKSRCSEL"}, 6), b1, b1, x) /\ Legal(Set({"TMR2CLKPRESCALE"}, 0), b1, b1, x)
        /\ Legal(Set({"TSS"}, 1), b1, b1, x) /\ Legal(Set({"PRD"}, 10), b1, b1, x)
        /\ Legal(Set({"TPR"}, 0), b1, b1, x) /\ Legal(Set({"TIE"}, 0), b1, b1, x)
    BY <1>6, <2>1
  <2>3. Legal(Set({"AUXPLLDIV"}, 3), b1, b1, x)
    BY <1>4, PlainSet DEF b1
  <2>4. Steady(l2, b1, x)
    BY <2>2, <2>3, Steady7
  <2> HIDE DEF l2, b
  <2>5. QED
    BY <1>1, <1>2, <2>4, GuardedSteady DEF b1
<1>9. Runs(Times(n, AuxAttempt), b, b, x)
  <2>1. n \in 0..5
    OBVIOUS
  <2> HIDE DEF b, n
  <2>2. QED
    BY <1>1, <1>2, <2>1, AttemptsRun
<1>10. Runs(l3, b, b, x)
  <2> HIDE DEF b
  <2>1. Runs(Protected(<<Set({"AUXPLLMULT"}, 0)>>), b, b, x)
    BY <1>1, <1>2, <1>4, PlainSet, Guarded1
  <2>2. AfterSleep("ESTOP0", b) = b
    BY DEF AfterSleep
  <2>3. Runs(<<Sleep("ESTOP0")>>, b, b, x)
    BY <1>1, <2>2, SleepLegal, One
  <2>4. Runs(Protected(<<Set({"AUXPLLMULT"}, 0)>>) \o <<Sleep("ESTOP0")>>, b, b, x)
    BY <2>1, <2>3, Compose
  <2>5. QED
    BY <1>1, <2>4, Skip DEF If
<1>11. Runs(Protected(l4), b, a, x)
  <2>1. ASSUME NEW f \in TimerFields, NEW e, "open" \in e PROVE Legal(Set({f}, r[f]), e, e \cup {f}, x)
    BY <1>5, <2>1, BorrowedWrite
  <2>2. Legal(Set({"AUXPLLDIV"}, div), b1, b1, x)
    BY <1>4, PlainSet
  <2>3. Legal(Set({"TMR2CLKSRCSEL"}, r["TMR2CLKSRCSEL"]), b1, c2, x)
    BY <1>2, <1>6, <2>1
  <2>4. Legal(Set({"TMR2CLKPRESCALE"}, r["TMR2CLKPRESCALE"]), c2, c3, x)
    BY <1>2, <1>6, <2>1
  <2>5. Legal(Set({"TSS"}, r["TSS"]), c3, c4, x)
    BY <1>2, <1>6, <2>1
  <2>6. Legal(Set({"TIE"}, r["TIE"]), c4, c5, x)
    BY <1>2, <1>6, <2>1
  <2>7. Legal(Set({"PRD"}, r["PRD"]), c5, c6, x)
    BY <1>2, <1>6, <2>1
  <2>8. Legal(Set({"TPR"}, r["TPR"]), c6, c7, x)
    BY <1>2, <1>6, <2>1
  <2> HIDE DEF b1, c2, c3, c4, c5, c6, c7
  <2>9. Runs(RestoreTimer(r), b1, c7, x)
    BY <1>1, <2>3, <2>4, <2>5, <2>6, <2>7, <2>8, Chain6 DEF RestoreTimer
  <2>10. Runs(<<Set({"AUXPLLDIV"}, div)>>, b1, b1, x)
    BY <1>1, <2>2, One
  <2>11. Runs(l4, b1, c7, x)
    BY <2>9, <2>10, Compose
  <2> HIDE DEF l4, b
  <2>12. QED
    BY <1>1, <1>2, <2>11, Guarded DEF b1
<1> DEFINE l == l1 \o Protected(l2) \o Times(n, AuxAttempt) \o l3 \o Protected(l4)
<1>12. InitAuxPll(r, source, mult, div, attempts) \in {l, <<>>}
  BY DEF InitAuxPll, If
<1> HIDE DEF b, l1, l2, l3, l4, n
<1>13. Runs(l1 \o Protected(l2), a, b, x)
  BY <1>7, <1>8, Compose
<1>14. Runs(l1 \o Protected(l2) \o Times(n, AuxAttempt), a, b, x)
  BY <1>9, <1>13, Compose
<1>15. Runs(l1 \o Protected(l2) \o Times(n, AuxAttempt) \o l3, a, b, x)
  BY <1>10, <1>14, Compose
<1>16. Runs(l, a, a, x)
  BY <1>11, <1>15, Compose
<1>17. QED
  BY <1>12, <1>16, Skip

------------------------------------------------------------------------------
(* main() *)

\* A call in main() of a function that branches on registers.
LEMMA CallLegal ==
    ASSUME NEW name, NEW a, NEW x, AdmitsCall(name, a, x)
    PROVE  Legal(Call(name), a, AfterCall(name, a, x), x)
<1> DEFINE s == Call(name)
<1>1. s.kind = "call" /\ s.name = name
  BY DEF Call
<1> HIDE DEF s
<1>2. Admits(s, a, x) /\ After(s, a, x) = AfterCall(name, a, x)
  BY <1>1 DEF Admits, After
<1>3. QED
  BY <1>2 DEF Legal, s

\* The converters are switched on while their references are trimmed.  On a part with unbonded
\* pins the call has executed EDIS.
LEMMA TrimsRun ==
    ASSUME NEW a \in Safe, NEW x, {"open", "powered"} \cap a = {}, "ungated" \in a, NEW trimmed
    PROVE  \E c \in Safe :
              /\ Runs(<<EALLOW, Call("GPIO_EnableUnbondedIOPullups"), Gate(Converters, TRUE)>>, a, c, x)
              /\ Runs(If(~trimmed, <<Set(References, STATIC)>>), c, c, x)
              /\ Legal(Gate(Converters, FALSE), c, c, x) /\ Legal(EDIS, c, a, x)
<1> DEFINE b == a \cup {"open"}
           c == IF x.device.package \in {5, 6} THEN a ELSE b
<1>1. b \in Safe /\ c \in Safe /\ "open" \in b /\ b \ {"open"} = a
  BY Stays
<1>2. "open" \in c \/ x.device.package # 7
  OBVIOUS
<1>3. Legal(EALLOW, a, b, x)
  BY Allowed
<1>4. Legal(Call("GPIO_EnableUnbondedIOPullups"), b, c, x)
  <2>1. AdmitsCall("GPIO_EnableUnbondedIOPullups", b, x)
    BY <1>1 DEF AdmitsCall
  <2>2. AfterCall("GPIO_EnableUnbondedIOPullups", b, x) = c
    BY <1>1 DEF AfterCall
  <2> HIDE DEF b, c
  <2>3. QED
    BY <2>1, <2>2, CallLegal
<1>5. /\ c \subseteq AfterGate(Converters, TRUE, c) /\ c \subseteq AfterGate(Converters, FALSE, c)
      /\ AdmitsGate(Converters, TRUE, c, x) /\ AdmitsGate(Converters, FALSE, c, x)
  <2>1. <<"SPI", "A">> \in Units("SPI", {"A", "B", "C"}) /\ <<"SPI", "A">> \notin Converters
    BY DEF Converters, Units
  <2>2. <<"SPI", "A">> \in Peripherals
    BY <2>1 DEF Peripherals
  <2>3. Converters # Peripherals /\ "powered" \notin c /\ "ungated" \in c
    BY <2>1, <2>2
  <2> HIDE DEF c
  <2>4. QED
    BY <1>2, <2>3 DEF AfterGate, AdmitsGate
<1>6. Legal(Gate(Converters, TRUE), c, c, x) /\ Legal(Gate(Converters, FALSE), c, c, x)
  <2> HIDE DEF c
  <2>1. /\ Legal(Gate(Converters, TRUE), c, AfterGate(Converters, TRUE, c), x)
        /\ Legal(Gate(Converters, FALSE), c, AfterGate(Converters, FALSE, c), x)
    BY <1>5, GateLegal
  <2>2. QED
    BY <1>5, <2>1 DEF Legal
<1>7. ASSUME NEW v PROVE Legal(Set(References, v), c, c, x)
  <2>1. References \cap Special = {}
    BY BorrowedFields DEF References, Special
  <2>2. Spoiled(References) = {}
    <3>1. ASSUME NEW K, K \cap Special = {} PROVE Spoiled(K) = {}
      BY <3>1, BorrowedFields DEF Spoiled, Touched, Special
    <3>2. QED
      BY <2>1, <3>1
  <2>3. AdmitsWrite(References, v, {}, c, x)
    BY <1>2, <2>1, BorrowedFields DEF AdmitsWrite, Clocked, Special
  <2> HIDE DEF c
  <2>4. QED
    BY <2>2, <2>3, WriteLegal
<1>8. c \ {"open"} = a
  OBVIOUS
<1> HIDE DEF b, c
<1>9. Legal(EDIS, c, c \ {"open"}, x)
  BY Allowed
<1>10. Legal(EDIS, c, a, x)
  BY <1>8, <1>9
<1>11. Runs(<<EALLOW, Call("GPIO_EnableUnbondedIOPullups"), Gate(Converters, TRUE)>>, a, c, x)
  BY <1>1, <1>3, <1>4, <1>6, Chain3
<1>12. Runs(If(~trimmed, <<Set(References, STATIC)>>), c, c, x)
  <2>1. Runs(<<Set(References, STATIC)>>, c, c, x)
    BY <1>1, <1>7, One
  <2>2. QED
    BY <1>1, <2>1, Skip DEF If
<1>13. QED
  BY <1>1, <1>6, <1>10, <1>11, <1>12

\* InitSysCtrl().
LEMMA SysCtrlRuns ==
    ASSUME NEW x, x.div = 1, NEW d
    PROVE  Runs(InitSysCtrl(d), Afresh, {"masked", "clear", "ready", "powered"}, x)
<1> DEFINE b == {"masked", "clear", "ready"}
           c == {"masked", "clear", "ready", "powered"}
           l1 == If(d.flash, <<Set({"ramfuncs"}, 1)>> \o InitFlash_Bank0)
           l2 == <<EALLOW, Call("GPIO_EnableUnbondedIOPullups"), Gate(Converters, TRUE)>>
           l3 == If(~d.trimmed, <<Set(References, STATIC)>>)
           l4 == <<Gate(Converters, FALSE), EDIS, Call("InitSysPll"), Call("InitPeripheralClocks")>>
<1>1. Afresh \in Safe /\ b \in Safe /\ c \in Safe
  BY DEF Afresh, Safe, Facts
<1>2. /\ {"open", "powered"} \cap Afresh = {} /\ "ungated" \in Afresh
      /\ "WDDIS" \notin Afresh /\ "open" \notin Afresh
  BY DEF Afresh
<1>3. Legal(Call("InitSysPll"), Afresh, b, x)
  <2>1. AdmitsCall("InitSysPll", Afresh, x)
    BY DEF AdmitsCall, Afresh
  <2>2. AfterCall("InitSysPll", Afresh, x) = b
    BY DEF AfterCall, Afresh
  <2> HIDE DEF b
  <2>3. QED
    BY <2>1, <2>2, CallLegal
<1>4. Legal(Call("InitPeripheralClocks"), b, c, x)
  <2>1. AdmitsCall("InitPeripheralClocks", b, x)
    BY DEF AdmitsCall
  <2>2. AfterCall("InitPeripheralClocks", b, x) = c
    BY DEF AfterCall, Powered, TrimFacts
  <2> HIDE DEF b, c
  <2>3. QED
    BY <2>1, <2>2, CallLegal
<1> HIDE DEF b, c
<1>5. Runs(DisableDog, Afresh, Afresh, x)
  BY <1>1, <1>2, DogRuns
<1>6. Runs(l1, Afresh, Afresh, x)
  <2>1. Runs(<<Set({"ramfuncs"}, 1)>>, Afresh, Afresh, x)
    BY <1>1, FreeWrite, One
  <2>2. Runs(InitFlash_Bank0, Afresh, Afresh, x)
    BY <1>1, <1>2, FlashRuns
  <2>3. Runs(<<Set({"ramfuncs"}, 1)>> \o InitFlash_Bank0, Afresh, Afresh, x)
    BY <2>1, <2>2, Compose
  <2>4. QED
    BY <1>1, <2>3, Skip DEF If
<1>7. PICK e \in Safe : /\ Runs(l2, Afresh, e, x) /\ Runs(l3, e, e, x)
                       /\ Legal(Gate(Converters, FALSE), e, e, x) /\ Legal(EDIS, e, Afresh, x)
  BY <1>1, <1>2, TrimsRun
<1>8. Runs(l4, e, c, x)
  BY <1>1, <1>3, <1>4, <1>7, Chain4
<1> HIDE DEF l1, l2, l3, l4
<1>9. Runs(DisableDog \o l1, Afresh, Afresh, x)
  BY <1>5, <1>6, Compose
<1>10. Runs(DisableDog \o l1 \o l2, Afresh, e, x)
  BY <1>7, <1>9, Compose
<1>11. Runs(DisableDog \o l1 \o l2 \o l3, Afresh, e, x)
  BY <1>7, <1>10, Compose
<1>12. Runs(DisableDog \o l1 \o l2 \o l3 \o l4, Afresh, c, x)
  BY <1>8, <1>11, Compose
<1>13. QED
  BY <1>12 DEF InitSysCtrl, l1, l2, l3, l4, c

\* What is known between two calls.
LEMMA AlwaysSafe ==
    /\ Always \in Safe /\ Always \cup Borrowed \in Safe
    /\ ForRoutine \cup {"ready", "matched"} \subseteq Always /\ "powered" \in Always
    /\ ({"open", "ungated", "masked", "slow", "off", "fresh", "marked"} \cup Borrowed) \cap Always = {}
    /\ {"open", "ungated", "masked", "slow", "off", "fresh", "marked"} \cap Borrowed = {}
    /\ (Always \ TrimFacts) \cup {"matched"} = Always
    /\ Powered(Always) = Always
<1> DEFINE a == Always
<1>1. a = {"clear", "powered", "copied", "routed", "ready", "matched"}
  BY DEF Always, ForRoutine
<1> HIDE DEF a
<1>2. a \in Safe /\ a \cup Borrowed \in Safe /\ ForRoutine \cup {"ready", "matched"} \subseteq a
  BY <1>1, BorrowedFields DEF Safe, Facts, ForRoutine, TrimFacts
<1>3. ({"open", "ungated", "masked", "slow", "off", "fresh", "marked"} \cup Borrowed) \cap a = {}
  BY <1>1, BorrowedFields
<1>4. {"open", "ungated", "masked", "slow", "off", "fresh", "marked"} \cap Borrowed = {}
  BY BorrowedFields
<1>5. (a \ TrimFacts) \cup {"matched"} = a /\ Powered(a) = a /\ "powered" \in a
  BY <1>1 DEF TrimFacts, Powered
<1>6. QED
  BY <1>2, <1>3, <1>4, <1>5 DEF a

\* main(), from a reset to its loop.
LEMMA MainRuns ==
    ASSUME NEW d \in Devices, NEW x, x.device = d, x.div = 1
    PROVE  Runs(main(d), Afresh, Always, x)
<1> DEFINE b0 == {"masked", "clear", "ready", "powered"}
           b2 == b0 \cup {"copied"}
           b3 == b2 \cup {"routed"}
           b4 == (b3 \ TrimFacts) \cup {"matched"}
           e == Always
<1>1. b0 \in Safe /\ b2 \in Safe /\ b3 \in Safe /\ b4 \in Safe /\ e \in Safe
  <2>1. b0 \in Safe /\ b2 \in Safe /\ b3 \in Safe
    BY DEF Safe, Facts
  <2>2. b4 \in Safe
    BY DEF Safe, Facts, TrimFacts
  <2>3. QED
    BY <2>1, <2>2, AlwaysSafe
<1>2. /\ {"INTM", "open"} \cap b0 = {} /\ {"INTM", "open"} \cap b2 = {} /\ "routed" \notin b0
      /\ "open" \notin b3 /\ "powered" \in b3
      /\ "open" \notin b4 /\ "INTM" \notin b4 /\ "powered" \in b4
      /\ "masked" \in b0 /\ "masked" \in b2
      /\ "DBGM" \notin e /\ e \subseteq b4 \ {"masked"}
      /\ b0 \cup {"masked"} = b0
  BY DEF TrimFacts, Always, ForRoutine
<1> HIDE DEF b0
<1>4. Runs(InitSysCtrl(d), Afresh, b0, x) /\ Runs(InitSpiGpio, b0, b0, x)
  BY <1>1, <1>2, SysCtrlRuns, PinRuns DEF b0
<1> DEFINE l2 == <<Set({"INTM"}, 1), Set({"IER"}, {}), Set({"IFR"}, 0)>>
           l5 == Protected(<<[kind |-> "vector", chan |-> ADCA1, routine |-> ADCA1_ISR]>>)
           l8 == <<Call("SetupADCSoftwareSync")>>
           l9 == <<Set({"IER"}, {1}), Set({"ENPIE"}, 1), [kind |-> "pie", enabled |-> {ADCA1}],
                   Set({"XBARFLG2"}, 1)>>
           l10 == Protected(<<Set({"INPUT5SELECT"}, 23)>>)
           l11 == <<Set({"INTM"}, 0), Set({"DBGM"}, 0)>>
<1>5. Runs(l2, b0, b0, x)
  <2>1. Legal(Set({"INTM"}, 1), b0, b0, x)
    <3>1. Legal(Set({"INTM"}, 1), b0, b0 \cup {"masked"}, x)
      BY <1>2, MaskLegal
    <3>2. QED
      BY <1>2, <3>1
  <2>2. Legal(Set({"IER"}, {}), b0, b0, x) /\ Legal(Set({"IFR"}, 0), b0, b0, x)
    BY FreeWrite
  <2>3. QED
    BY <1>1, <2>1, <2>2, Chain3
<1>6. Runs(InitPieCtrl, b0, b0, x)
  BY <1>1, <1>2, ClearRuns
<1>7. Runs(InitPieVectTable, b0, b2, x)
  BY <1>1, <1>2, PieRuns
<1> HIDE DEF b2
<1>8. Runs(l5, b2, b3, x)
  BY <1>1, <1>2, PieRuns
<1> HIDE DEF b3
<1>9. Runs(spi_init, b3, b3, x)
  BY <1>1, <1>2, SpibRuns
<1>10. Runs(adc_config(d.otp), b3, b4, x)
  <2>1. d.otp \in BOOLEAN /\ d.otp = x.device.otp
    BY DevicesAssumption
  <2>2. QED
    BY <1>1, <1>2, <2>1, ModeRuns
<1> HIDE DEF b4
<1>11. Runs(l8, b4, b4, x)
  <2>1. AdmitsCall("SetupADCSoftwareSync", b4, x)
    BY <1>2 DEF AdmitsCall
  <2>2. AfterCall("SetupADCSoftwareSync", b4, x) = b4
    BY <1>2 DEF AfterCall
  <2>3. Legal(Call("SetupADCSoftwareSync"), b4, b4, x)
    BY <2>1, <2>2, CallLegal
  <2>4. QED
    BY <1>1, <2>3, One
<1>12. Runs(l9, b4, b4, x)
  <2>1. Legal(Set({"IER"}, {1}), b4, b4, x) /\ Legal(Set({"ENPIE"}, 1), b4, b4, x)
        /\ Legal(Set({"XBARFLG2"}, 1), b4, b4, x)
    BY FreeWrite
  <2>2. Legal([kind |-> "pie", enabled |-> {ADCA1}], b4, b4, x)
    BY PieLegal
  <2>3. QED
    BY <1>1, <2>1, <2>2, Chain4
<1>13. Runs(l10, b4, b4, x)
  <2>1. {"INPUT5SELECT"} \cap Special = {}
    BY BorrowedFields DEF Special
  <2>2. QED
    BY <1>1, <1>2, <2>1, PlainSet, Guarded1
<1> HIDE DEF e
<1>14. Runs(l11, b4, e, x)
  <2>1. Legal(Set({"INTM"}, 0), b4, b4 \ {"masked"}, x)
    BY <1>2, MaskLegal
  <2>2. Legal(Set({"INTM"}, 0), b4, e, x)
    BY <1>2, <2>1 DEF Legal
  <2>3. Legal(Set({"DBGM"}, 0), e, e, x)
    BY <1>2, MaskLegal
  <2>4. QED
    BY <1>1, <2>2, <2>3, Chain2
<1>15. main(d) = InitSysCtrl(d) \o InitSpiGpio \o l2 \o InitPieCtrl \o InitPieVectTable \o l5
                   \o spi_init \o adc_config(d.otp) \o l8 \o l9 \o l10 \o l11
  BY DEF main, InitSpiGpio
<1> HIDE DEF l2, l5, l8, l9, l10, l11
<1> DEFINE m1 == InitSysCtrl(d) \o InitSpiGpio \o l2
           m2 == m1 \o InitPieCtrl \o InitPieVectTable \o l5
           m3 == m2 \o spi_init \o adc_config(d.otp) \o l8
<1>16. Runs(m1, Afresh, b0, x)
  <2>1. Runs(InitSysCtrl(d) \o InitSpiGpio, Afresh, b0, x)
    BY <1>4, Compose
  <2>2. QED
    BY <1>5, <2>1, Compose
<1> HIDE DEF m1
<1>17. Runs(m2, Afresh, b3, x)
  <2>1. Runs(m1 \o InitPieCtrl, Afresh, b0, x)
    BY <1>6, <1>16, Compose
  <2>2. Runs(m1 \o InitPieCtrl \o InitPieVectTable, Afresh, b2, x)
    BY <1>7, <2>1, Compose
  <2>3. QED
    BY <1>8, <2>2, Compose
<1> HIDE DEF m2
<1>18. Runs(m3, Afresh, b4, x)
  <2>1. Runs(m2 \o spi_init, Afresh, b3, x)
    BY <1>9, <1>17, Compose
  <2>2. Runs(m2 \o spi_init \o adc_config(d.otp), Afresh, b4, x)
    BY <1>10, <2>1, Compose
  <2>3. QED
    BY <1>11, <2>2, Compose
<1> HIDE DEF m3
<1>19. Runs(m3 \o l9 \o l10 \o l11, Afresh, e, x)
  <2>1. Runs(m3 \o l9, Afresh, b4, x)
    BY <1>12, <1>18, Compose
  <2>2. Runs(m3 \o l9 \o l10, Afresh, b4, x)
    BY <1>13, <2>1, Compose
  <2>3. QED
    BY <1>14, <2>2, Compose
<1>20. QED
  BY <1>15, <1>19 DEF e, m1, m2, m3
------------------------------------------------------------------------------
(* What is called *)

\* The functions that main() calls with branches that depend on the registers r.
LEMMA CalledRuns ==
    ASSUME NEW a \in Safe, NEW x, NEW r, "masked" \in a => r["INTM"] = 1,
           "fresh" \in a => r["SYSPLLMULT"] = 0
    PROVE  /\ AdmitsCall("InitSysPll", a, x)
                => Runs(InitSysPll(r, 0, 20, 1), a, AfterCall("InitSysPll", a, x), x)
           /\ Runs(InitPeripheralClocks, a, AfterCall("InitPeripheralClocks", a, x), x)
           /\ AdmitsCall("SetupADCSoftwareSync", a, x)
                => Runs(SetupADCSoftwareSync(r), a, AfterCall("SetupADCSoftwareSync", a, x), x)
           /\ AdmitsCall("GPIO_EnableUnbondedIOPullups", a, x)
                => Runs(GPIO_EnableUnbondedIOPullups(x.device), a,
                        AfterCall("GPIO_EnableUnbondedIOPullups", a, x), x)
<1>1. ASSUME AdmitsCall("InitSysPll", a, x)
      PROVE  Runs(InitSysPll(r, 0, 20, 1), a, AfterCall("InitSysPll", a, x), x)
  <2>1. {"masked", "fresh", "off"} \subseteq a /\ x.div = 1
    BY <1>1 DEF AdmitsCall
  <2>2. QED
    BY <2>1, SysPllAtBoot
<1>2. Runs(InitPeripheralClocks, a, AfterCall("InitPeripheralClocks", a, x), x)
  <2> DEFINE b == a \ {"open"}
  <2>1. b \in Safe /\ "open" \notin b /\ b \subseteq a
    BY Stays
  <2>2. AfterCall("InitPeripheralClocks", a, x) = Powered(b)
    BY DEF AfterCall
  <2> HIDE DEF b
  <2>3. Runs(InitPeripheralClocks, b, Powered(b), x)
    BY <2>1, ClocksRun
  <2>4. QED
    BY <2>1, <2>2, <2>3, Weaken
<1>3. ASSUME AdmitsCall("SetupADCSoftwareSync", a, x)
      PROVE  Runs(SetupADCSoftwareSync(r), a, AfterCall("SetupADCSoftwareSync", a, x), x)
  <2>1. "powered" \in a
    BY <1>3 DEF AdmitsCall
  <2>2. AfterCall("SetupADCSoftwareSync", a, x) = a \ {"open"}
    BY DEF AfterCall
  <2>3. QED
    BY <2>1, <2>2, SyncRuns
<1>4. ASSUME AdmitsCall("GPIO_EnableUnbondedIOPullups", a, x)
      PROVE  Runs(GPIO_EnableUnbondedIOPullups(x.device), a,
                  AfterCall("GPIO_EnableUnbondedIOPullups", a, x), x)
  <2>1. "open" \in a
    BY <1>4 DEF AdmitsCall
  <2>2. AfterCall("GPIO_EnableUnbondedIOPullups", a, x) = IF x.device.package \in {5, 6} THEN a \ {"open"} ELSE a
    BY DEF AfterCall
  <2>3. QED
    BY <2>1, <2>2, PullupRuns
<1>5. QED
  BY <1>1, <1>2, <1>3, <1>4

\* The functions that the program calls, for all registers and arguments.
LEMMA PllCallsRun ==
    ASSUME NEW x, NEW r, NEW source, NEW mult, NEW div, div = x.div,
           \A f \in Borrowed : r[f] = x.before[f], {r["INTM"], r["DBGM"]} \subseteq {0, 1}
    PROVE  /\ Runs(InitSysPll(r, source, mult, div), Always \cup Borrowed, Promised("InitSysPll"), x)
           /\ \A n \in 1..6 : Runs(InitAuxPll(r, source, mult, div, n),
                                   Always \cup Borrowed, Promised("InitAuxPll"), x)
<1> DEFINE a == Always \cup Borrowed
<1>1. Promised("InitSysPll") = a /\ Promised("InitAuxPll") = a
  BY DEF Promised, When
<1>2. /\ a \in Safe /\ ForRoutine \cup {"ready"} \cup Borrowed \subseteq a
      /\ {"open", "masked", "slow", "off", "fresh", "marked"} \cap a = {}
  BY AlwaysSafe
<1> HIDE DEF a
<1>3. Runs(InitSysPll(r, source, mult, div), a, a, x)
  BY <1>2, SysPllRuns
<1>4. ASSUME NEW n \in 1..6 PROVE Runs(InitAuxPll(r, source, mult, div, n), a, a, x)
  BY <1>2, AuxPllRuns
<1>5. QED
  BY <1>1, <1>3, <1>4 DEF a

\* Only the set-up of the PLLs promises what it borrows.
LEMMA OtherPromise ==
    ASSUME NEW name, name \notin {"InitSysPll", "InitAuxPll"} PROVE Promised(name) = Always
BY DEF Promised, When

\* Every call that a program makes keeps what is known, and InitSysPll and InitAuxPll what is borrowed.
LEMMA CallRuns ==
    ASSUME NEW c \in Calls, RegsInv, device \in Devices, NEW x,
           x = [div |-> c.div, before |-> [f \in Borrowed |-> reg[f]], device |-> device]
    PROVE  Runs(c.list, Always \cup Borrowed, Promised(c.name), x)
<1> DEFINE a == Always
           A == a \cup Borrowed
<1>1. /\ x.div = c.div /\ \A f \in Borrowed : reg[f] = x.before[f]
      /\ x.device = device
  OBVIOUS
<1>2. {reg["INTM"], reg["DBGM"]} \subseteq {0, 1}
  BY DEF RegsInv
<1>3. /\ a \in Safe /\ "open" \notin a /\ {"powered", "matched"} \subseteq a /\ "ungated" \notin a
      /\ {"INTM", "masked"} \cap a = {} /\ "WDDIS" \notin a
      /\ (a \ TrimFacts) \cup {"matched"} = a /\ Powered(a) = a
  BY AlwaysSafe, BorrowedFields
<1>4. Promised("") = a /\ Promised("AdcSetMode") = a /\ a \subseteq A
  BY OtherPromise
<1> HIDE DEF a
<1> DEFINE Fine(l) == Runs(l, a, a, x)
<1>5. ASSUME NEW l, NEW name \in {"", "AdcSetMode"}, NEW d, Fine(l), c = Function(name, d, l)
      PROVE  Runs(c.list, A, Promised(c.name), x)
  <2>1. c.list = l /\ c.name = name
    BY <1>5 DEF Function
  <2>2. Runs(l, A, a, x)
    <3> HIDE DEF A
    <3>1. QED
      BY <1>4, <1>5, Weaken
  <2>3. Promised(c.name) = a
    BY <1>4, <2>1
  <2>4. QED
    BY <2>1, <2>2, <2>3
<1>6. ASSUME NEW source, NEW mult, NEW d, c = Function("InitSysPll", d, InitSysPll(reg, source, mult, d))
      PROVE  Runs(c.list, A, Promised(c.name), x)
  <2> DEFINE l == InitSysPll(reg, source, mult, d)
  <2> HIDE DEF l
  <2>1. c = Function("InitSysPll", d, l)
    BY <1>6 DEF l
  <2>2. c.name = "InitSysPll" /\ c.div = d /\ c.list = l
    BY <2>1 DEF Function
  <2>3. Runs(l, A, Promised("InitSysPll"), x)
    BY <1>1, <1>2, <2>2, PllCallsRun DEF l, a
  <2>4. QED
    BY <2>2, <2>3
<1>a. \A l \in {InitPeripheralClocks, DisablePeripheralClocks} : Fine(l)
  BY <1>3, ClocksRun
<1>7. ASSUME topic = "pll" PROVE Runs(c.list, A, Promised(c.name), x)
  <2> DEFINE S == {Function("InitSysPll", d, InitSysPll(reg, s, m, d)) :
                     s \in Sources, m \in Mults, d \in Dividers}
             T == {Function("", 0, list) : list \in {IDLE, STANDBY, HALT, ServiceDog, DisableDog,
                                                   SysIntOsc1Sel, SysIntOsc2Sel, SysXtalOscSel}}
  <2>1. c \in S \cup T
    <3>1. c \in PllCalls
      BY <1>7 DEF Calls
    <3>2. PllCalls = S \cup T
      BY DEF PllCalls
    <3> HIDE DEF S, T
    <3>3. QED
      BY <3>1, <3>2
  <2>2. CASE \E s \in Sources, m \in Mults, d \in Dividers :
               c = Function("InitSysPll", d, InitSysPll(reg, s, m, d))
    BY <1>6, <2>2
  <2>3. CASE \E l \in {IDLE, STANDBY, HALT, ServiceDog, DisableDog, SysIntOsc1Sel, SysIntOsc2Sel, SysXtalOscSel} :
               c = Function("", 0, l)
    <3>1. PICK l \in {IDLE, STANDBY, HALT, ServiceDog, DisableDog, SysIntOsc1Sel, SysIntOsc2Sel, SysXtalOscSel} :
            c = Function("", 0, l)
      BY <2>3
    <3>2. Fine(IDLE) /\ Fine(STANDBY) /\ Fine(HALT)
      BY <1>3, SleepRuns
    <3>3. Fine(ServiceDog) /\ Fine(DisableDog)
      BY <1>3, DogRuns
    <3>4. Fine(SysIntOsc1Sel) /\ Fine(SysIntOsc2Sel) /\ Fine(SysXtalOscSel)
      BY <1>3, ClockSources
    <3> HIDE DEF Fine
    <3>5. Fine(l)
      BY <3>2, <3>3, <3>4
    <3>6. QED
      BY <1>5, <3>1, <3>5
  <2>4. c \in S => \E s \in Sources, m \in Mults, d \in Dividers :
                      c = Function("InitSysPll", d, InitSysPll(reg, s, m, d))
    OBVIOUS
  <2>5. c \in T => \E l \in {IDLE, STANDBY, HALT, ServiceDog, DisableDog, SysIntOsc1Sel, SysIntOsc2Sel, SysXtalOscSel} :
                      c = Function("", 0, l)
    OBVIOUS
  <2> HIDE DEF S, T
  <2>6. QED
    BY <2>1, <2>2, <2>3, <2>4, <2>5
<1>8. ASSUME topic = "aux" PROVE Runs(c.list, A, Promised(c.name), x)
  <2> DEFINE S == {Function("InitAuxPll", d, InitAuxPll(reg, s, m, d, n)) :
                     s \in Sources, m \in Mults, d \in Dividers, n \in {2, 6}}
             L == {AuxIntOsc2Sel, AuxXtalOscSel, AuxAuxClkSel}
             T == {Function("", 0, list) : list \in L}
  <2>1. c \in S \cup T
    <3>1. c \in AuxCalls
      BY <1>8 DEF Calls
    <3>2. AuxCalls = S \cup T
      BY DEF AuxCalls
    <3> HIDE DEF S, T
    <3>3. QED
      BY <3>1, <3>2
  <2>2. ASSUME NEW s \in Sources, NEW m \in Mults, NEW d \in Dividers, NEW n \in {2, 6},
               c = Function("InitAuxPll", d, InitAuxPll(reg, s, m, d, n))
        PROVE  Runs(c.list, A, Promised(c.name), x)
    <3> DEFINE l == InitAuxPll(reg, s, m, d, n)
    <3> HIDE DEF l
    <3>2. c = Function("InitAuxPll", d, l)
      BY <2>2 DEF l
    <3>3. c.name = "InitAuxPll" /\ c.div = d /\ c.list = l
      BY <3>2 DEF Function
    <3>4. n \in 1..6
      OBVIOUS
    <3>5. Runs(l, A, Promised("InitAuxPll"), x)
      BY <1>1, <1>2, <3>3, <3>4, PllCallsRun DEF l, a
    <3>6. QED
      BY <3>3, <3>5
  <2>3. \A l \in L : Fine(l)
    BY <1>3, ClockSources
  <2> HIDE DEF Fine, L
  <2>4. c \in T => Runs(c.list, A, Promised(c.name), x)
    BY <1>5, <2>3
  <2>5. c \in S => \E s \in Sources, m \in Mults, d \in Dividers, n \in {2, 6} :
                      c = Function("InitAuxPll", d, InitAuxPll(reg, s, m, d, n))
    OBVIOUS
  <2> HIDE DEF S, T
  <2>6. QED
    BY <2>1, <2>2, <2>4, <2>5
<1>9. ASSUME topic = "power" PROVE Runs(c.list, A, Promised(c.name), x)
  <2> DEFINE L == {InitFlash_Bank0, InitFlash_Bank1, FlashOff_Bank0, FlashOff_Bank1,
                   SeizeFlashPump_Bank0, SeizeFlashPump_Bank1, ReleaseFlashPump, CsmUnlock, HIB,
                   InitSpi, InitSpiGpio}
             M == {InitPeripheralClocks, DisablePeripheralClocks}
             T == {Function("", 0, list) : list \in L}
             U == {Function("", 0, list) : list \in M}
  <2>1. c \in T \cup U
    <3>1. c \in PowerCalls
      BY <1>9 DEF Calls
    <3>2. PowerCalls = T \cup U
      BY DEF PowerCalls, ClockCalls
    <3> HIDE DEF T, U
    <3>3. QED
      BY <3>1, <3>2
  <2>2. Fine(InitFlash_Bank0) /\ Fine(InitFlash_Bank1) /\ Fine(FlashOff_Bank0) /\ Fine(FlashOff_Bank1)
    BY <1>3, FlashRuns
  <2>3. Fine(SeizeFlashPump_Bank0) /\ Fine(SeizeFlashPump_Bank1) /\ Fine(ReleaseFlashPump) /\ Fine(CsmUnlock)
    BY <1>3, PumpRuns
  <2>4. Fine(HIB) /\ Fine(InitSpi) /\ Fine(InitSpiGpio)
    BY <1>3, SleepRuns, SpiRuns, PinRuns
  <2>5. \A l \in M : Fine(l)
    BY <1>a
  <2> HIDE DEF Fine
  <2>6. \A l \in L : Fine(l)
    BY <2>2, <2>3, <2>4
  <2> HIDE DEF L, M
  <2>7. QED
    BY <1>5, <2>1, <2>5, <2>6
<1>10. ASSUME topic = "adc" PROVE Runs(c.list, A, Promised(c.name), x)
  <2> DEFINE S == {Function("AdcSetMode", 0, Protected(AdcSetMode(AdcaRegs, r, s, device.otp))) :
                     r \in {0, 1}, s \in {0, 1}}
             M == {InitPeripheralClocks, DisablePeripheralClocks}
             U == {Function("", 0, list) : list \in M}
  <2>1. c \in S \cup U
    <3>1. c \in AdcCalls
      BY <1>10 DEF Calls
    <3>2. AdcCalls = S \cup U
      BY DEF AdcCalls, ClockCalls
    <3> HIDE DEF S, U
    <3>3. QED
      BY <3>1, <3>2
  <2>2. device.otp \in BOOLEAN /\ device.otp = x.device.otp
    BY <1>1, DevicesAssumption
  <2>3. \A r, s \in {0, 1} : Runs(Protected(AdcSetMode(AdcaRegs, r, s, device.otp)), a,
                                  (a \ TrimFacts) \cup {"matched"}, x)
    BY <1>3, <2>2, ModeRuns
  <2>4. \A r, s \in {0, 1} : Fine(Protected(AdcSetMode(AdcaRegs, r, s, device.otp)))
    BY <1>3, <2>3
  <2>5. \A l \in M : Fine(l)
    BY <1>a
  <2> HIDE DEF Fine
  <2>6. ASSUME NEW r \in {0, 1}, NEW s \in {0, 1},
               c = Function("AdcSetMode", 0, Protected(AdcSetMode(AdcaRegs, r, s, device.otp)))
        PROVE  Runs(c.list, A, Promised(c.name), x)
    BY <1>5, <2>4, <2>6
  <2>7. c \in S => \E r \in {0, 1}, s \in {0, 1} :
                      c = Function("AdcSetMode", 0, Protected(AdcSetMode(AdcaRegs, r, s, device.otp)))
    OBVIOUS
  <2> HIDE DEF S, M
  <2>8. QED
    BY <1>5, <2>1, <2>5, <2>6, <2>7
<1>11. ASSUME topic = "pins" PROVE Runs(c.list, A, Promised(c.name), x)
  <2>1. Fine(InitGpio) /\ Fine(InitEPwmGpio) /\ Fine(InitEPwm9Gpio) /\ Fine(GPIO_WritePin(APin, 1))
    BY <1>3, GpioRuns, PwmRuns, PinRuns
  <2>2. /\ \A core, n : Fine(GPIO_SetupPinMux(APin, core, n))
        /\ \A output, flags : Fine(GPIO_SetupPinOptions(APin, output, flags))
        /\ \A lock : Fine(GPIO_SetupLock(APin, lock))
    BY <1>3, PinRuns
  <2> DEFINE S == {InitGpio, InitEPwmGpio, InitEPwm9Gpio, GPIO_WritePin(APin, 1)}
             T == {GPIO_SetupPinMux(APin, core, n) : core \in {0, 4}, n \in {0, 6, 15}}
             U == {GPIO_SetupPinOptions(APin, FALSE, {"PULLUP", "QUAL3"}),
                   GPIO_SetupPinOptions(APin, TRUE, {"OPENDRAIN", "INVERT", "ASYNC"})}
             V == {GPIO_SetupLock(APin, lock) : lock \in BOOLEAN}
  <2>3. c \in {Function("", 0, list) : list \in S \cup T \cup U \cup V}
    <3>1. c \in PinCalls
      BY <1>11 DEF Calls
    <3>2. PinCalls = {Function("", 0, list) : list \in S \cup T \cup U \cup V}
      BY DEF PinCalls
    <3> HIDE DEF S, T, U, V
    <3>3. QED
      BY <3>1, <3>2
  <2> HIDE DEF Fine
  <2>4. \A l \in S : Fine(l)
    BY <2>1
  <2>5. (\A l \in T : Fine(l)) /\ (\A l \in V : Fine(l))
    BY <2>2
  <2>a. \A l \in U : Fine(l)
    <3> DEFINE f1 == {"PULLUP", "QUAL3"}
               f2 == {"OPENDRAIN", "INVERT", "ASYNC"}
    <3> HIDE DEF f1, f2
    <3>1. U = {GPIO_SetupPinOptions(APin, FALSE, f1), GPIO_SetupPinOptions(APin, TRUE, f2)}
      BY DEF f1, f2
    <3>2. /\ Fine(GPIO_SetupPinOptions(APin, FALSE, f1))
          /\ Fine(GPIO_SetupPinOptions(APin, TRUE, f2))
      BY <2>2
    <3> HIDE DEF U
    <3>3. QED
      BY <3>1, <3>2
  <2> HIDE DEF S, T, U, V
  <2>6. PICK l \in S \cup T \cup U \cup V : c = Function("", 0, l)
    BY <2>3
  <2>7. QED
    BY <1>5, <2>4, <2>5, <2>a, <2>6
<1>12. ASSUME topic = "interrupts" PROVE Runs(c.list, A, Promised(c.name), x)
  <2> DEFINE On(ch) == <<[kind |-> "pie", enabled |-> {ch}], Set({"IER"}, {1, ch[1]})>>
             L == {InitPieCtrl, EnableInterrupts, GPIO_SetupXINT1Gpio(APin),
                   GPIO_SetupXINT2Gpio(APin), GPIO_SetupXINT3Gpio(APin), GPIO_SetupXINT4Gpio(APin),
                   GPIO_SetupXINT5Gpio(APin)}
             S == {Function("InitSysPll", d, InitSysPll(reg, 0, 20, d)) : d \in Dividers}
             T == {Function("", 0, list) : list \in L}
             U == {Function("", 0, On(ch)) : ch \in Raised[topic]}
  <2>1. c \in S \cup T \cup U
    <3>1. c \in InterruptCalls
      BY <1>12 DEF Calls
    <3>2. InterruptCalls = S \cup T \cup U
      BY DEF InterruptCalls
    <3> HIDE DEF S, T, U
    <3>3. QED
      BY <3>1, <3>2
  <2>2. c \in S => Runs(c.list, A, Promised(c.name), x)
    BY <1>6
  <2>3. Fine(InitPieCtrl) /\ Fine(EnableInterrupts) /\ \A ch : Fine(On(ch))
    BY <1>3, ClearRuns, EnableRuns
  <2>4. /\ Fine(GPIO_SetupXINT1Gpio(APin)) /\ Fine(GPIO_SetupXINT2Gpio(APin))
        /\ Fine(GPIO_SetupXINT3Gpio(APin)) /\ Fine(GPIO_SetupXINT4Gpio(APin))
        /\ Fine(GPIO_SetupXINT5Gpio(APin))
    BY <1>3, PinRuns
  <2> HIDE DEF Fine
  <2>5. \A l \in L : Fine(l)
    BY <2>3, <2>4
  <2> HIDE DEF L, On
  <2>6. c \in T => Runs(c.list, A, Promised(c.name), x)
    BY <1>5, <2>5
  <2>7. c \in U => Runs(c.list, A, Promised(c.name), x)
    BY <1>5, <2>3
  <2> HIDE DEF S, T, U
  <2>8. QED
    BY <2>1, <2>2, <2>6, <2>7
<1>13. QED
  BY <1>7, <1>8, <1>9, <1>10, <1>11, <1>12 DEF Calls, a

------------------------------------------------------------------------------
(* The invariant: what one statement does *)

\* When nothing is left to execute, what was promised is known.
LEMMA Empty ==
    ASSUME NEW a, NEW c, NEW x, Runs(<<>>, a, c, x)
    PROVE  c \subseteq a
BY EmptyList DEF Runs, Outline

\* The statement that is executed outside of a routine.
LEMMA Executed ==
    ASSUME ListInv, run = <<>>, todo # <<>>
    PROVE  \E a, b \in Safe : /\ Fits(a, eallow, reg) /\ Legal(Head(todo), a, b, Context)
                              /\ Runs(Tail(todo), b, Promised(call.name), Context)
<1>1. PICK a \in Safe : Fits(a, eallow, reg) /\ Runs(todo, a, Promised(call.name), Context)
  BY DEF ListInv
<1>2. PICK b \in Safe : /\ Legal(Head(todo), a, b, Context)
                        /\ Runs(Tail(todo), b, Promised(call.name), Context)
  BY <1>1, Execute
<1>3. QED
  BY <1>1, <1>2

\* How a routine ends.
LEMMA EndsKinds == \A e \in Ends : e.kind \in {"iret", "sleep"}
<1>1. /\ [kind |-> "iret"].kind = "iret" /\ Sleep("for(;;)").kind = "sleep"
  BY DEF Sleep
<1>2. QED
  BY <1>1 DEF Ends

\* The statements of a routine.
LEMMA RoutineKinds ==
    ASSUME NEW s \in RoutineStatements
    PROVE  /\ s.kind \in {"reg", "ack", "iret", "sleep"}
           /\ s.kind = "sleep" => s.mode = "for(;;)"
           /\ s.kind = "reg" => /\ s.keys \in {{"Vbus"}, {"SPIB_SPIDAT"}, {"ADCAINTFLGCLR"}}
                                /\ s.unit \subseteq Peripherals
           /\ s \in Ends <=> s.kind \in {"iret", "sleep"}
<1>1. /\ adca1_isr = <<Set({"Vbus"}, 1), Of(SPIB, {"SPIB_SPIDAT"}, 1), InAdc(AdcaRegs, "ADCAINTFLGCLR", 1),
                       [kind |-> "ack", groups |-> {1}], [kind |-> "iret"]>>
      /\ AdcaRegs.unit \subseteq Peripherals /\ SPIB \subseteq Peripherals
  BY AdcNames, UnitsPowered DEF adca1_isr
<1>2. s \in {Set({"Vbus"}, 1), Of(SPIB, {"SPIB_SPIDAT"}, 1), InAdc(AdcaRegs, "ADCAINTFLGCLR", 1),
             [kind |-> "ack", groups |-> {1}], [kind |-> "iret"], Sleep("for(;;)")}
  <2> DEFINE s1 == Set({"Vbus"}, 1)
             s2 == Of(SPIB, {"SPIB_SPIDAT"}, 1)
             s3 == InAdc(AdcaRegs, "ADCAINTFLGCLR", 1)
             s4 == [kind |-> "ack", groups |-> {1}]
             s5 == [kind |-> "iret"]
             l == <<s1, s2, s3, s4, s5>>
  <2>1. s \in {l[i] : i \in 1..Len(l)} \cup {s5, Sleep("for(;;)")}
    BY <1>1 DEF RoutineStatements, Ends
  <2> HIDE DEF s1, s2, s3, s4, s5
  <2>2. Len(l) = 5 /\ l[1] = s1 /\ l[2] = s2 /\ l[3] = s3 /\ l[4] = s4 /\ l[5] = s5
    OBVIOUS
  <2> HIDE DEF l
  <2>3. s \in {s1, s2, s3, s4, s5, Sleep("for(;;)")}
    <3>1. CASE s \in {l[i] : i \in 1..Len(l)}
      <4>1. PICK i \in 1..5 : s = l[i]
        BY <2>2, <3>1
      <4>2. i \in {1, 2, 3, 4, 5}
        OBVIOUS
      <4>3. QED
        BY <2>2, <4>1, <4>2
    <3>2. QED
      BY <2>1, <3>1
  <2>4. QED
    BY <2>3 DEF s1, s2, s3, s4, s5
<1>3. CASE s = Set({"Vbus"}, 1)
  <2>1. s.kind = "reg" /\ s.keys = {"Vbus"} /\ s.unit = {}
    BY <1>3 DEF Set, Of
  <2>2. s \notin Ends
    BY <2>1, EndsKinds
  <2>3. QED
    BY <2>1, <2>2
<1>4. CASE s = Of(SPIB, {"SPIB_SPIDAT"}, 1)
  <2>1. s.kind = "reg" /\ s.keys = {"SPIB_SPIDAT"} /\ s.unit = SPIB
    BY <1>4 DEF Of
  <2>2. s \notin Ends
    BY <2>1, EndsKinds
  <2>3. QED
    BY <1>1, <2>1, <2>2
<1>5. CASE s = InAdc(AdcaRegs, "ADCAINTFLGCLR", 1)
  <2>1. s.kind = "reg" /\ s.keys = {"ADCAINTFLGCLR"} /\ s.unit = AdcaRegs.unit
    BY <1>5 DEF InAdc, Of
  <2>2. s \notin Ends
    BY <2>1, EndsKinds
  <2>3. QED
    BY <1>1, <2>1, <2>2
<1>6. CASE s = [kind |-> "ack", groups |-> {1}]
  BY <1>6 DEF Ends, Sleep
<1>7. CASE s = [kind |-> "iret"]
  BY <1>7 DEF Ends
<1>8. CASE s = Sleep("for(;;)")
  BY <1>8 DEF Ends, Sleep
<1>9. QED
  BY <1>2, <1>3, <1>4, <1>5, <1>6, <1>7, <1>8

\* The next statement of a routine.
LEMMA RoutineHead ==
    ASSUME NEW l, InRoutine(l)
    PROVE  /\ l # <<>> /\ Head(l) \in RoutineStatements
           /\ Head(l) \notin Ends => InRoutine(Tail(l))
<1>1. l \in Seq(RoutineStatements) /\ Len(l) \in Nat /\ Len(l) > 0
  BY DEF InRoutine
<1>2. l # <<>> /\ Head(l) = l[1] /\ Head(l) \in RoutineStatements
  BY <1>1
<1>3. /\ Tail(l) \in Seq(RoutineStatements) /\ Len(Tail(l)) = Len(l) - 1
      /\ \A i \in 1..Len(Tail(l)) : Tail(l)[i] = l[i + 1]
  BY <1>1, <1>2, HeadTailProperties
<1>4. ASSUME Head(l) \notin Ends PROVE InRoutine(Tail(l))
  <2>1. \A i \in 1..Len(l) : i = Len(l) <=> l[i] \in Ends
    BY DEF InRoutine
  <2>2. Len(l) # 1
    BY <1>1, <1>2, <1>4, <2>1
  <2>3. ASSUME NEW i \in 1..Len(Tail(l)) PROVE i = Len(Tail(l)) <=> Tail(l)[i] \in Ends
    <3>1. i + 1 \in 1..Len(l) /\ Tail(l)[i] = l[i + 1]
      BY <1>1, <1>3
    <3>2. i + 1 = Len(l) <=> l[i + 1] \in Ends
      BY <2>1, <3>1
    <3>3. i = Len(Tail(l)) <=> i + 1 = Len(l)
      BY <1>1, <1>3
    <3>4. QED
      BY <3>1, <3>2, <3>3
  <2>4. Len(Tail(l)) > 0
    BY <1>1, <1>3, <2>2
  <2>5. QED
    BY <1>3, <2>3, <2>4 DEF InRoutine
<1>5. QED
  BY <1>2, <1>4

\* Outside of a routine, when the statement is none of a routine's.
LEMMA NotInRoutine ==
    ASSUME RoutineInv, todo # <<>>, Head(todo).kind \notin {"reg", "ack", "iret", "sleep"}
    PROVE  run = <<>>
BY RoutineHead, RoutineKinds DEF RoutineInv

\* The device and what is called on it.
Placed == device \in Devices /\ topic \in Topics \cup {"boot"}

\* What is left to show of a statement that leaves the registers alone.
LEMMA Continues ==
    ASSUME SystemInv, run = <<>>, Done, run' = run, NEW b \in Safe,
           Runs(Tail(todo), b, Promised(call.name), Context), Fits(b, eallow, reg)'
    PROVE  ListInv' /\ RoutineInv' /\ Placed'
<1>1. Context' = Context /\ todo' = Tail(todo) /\ topic' = topic /\ call' = call /\ device' = device
  BY DEF Done, Context
<1>2. Runs(todo', b, Promised(call'.name), Context')
  BY <1>1
<1>3. ListInv'
  BY <1>2 DEF ListInv
<1>4. RoutineInv'
  BY DEF RoutineInv
<1>5. QED
  BY <1>1, <1>3, <1>4 DEF SystemInv, Placed

\* The facts about the fields that a write changes are spoilt.
LEMMA SpoiledFacts ==
    ASSUME NEW K
    PROVE  /\ "ADCA_RESOLUTION" \in K => {"res0", "res1", "matched"} \subseteq Spoiled(K)
           /\ "ADCA_SIGNALMODE" \in K => {"sig0", "sig1", "matched"} \subseteq Spoiled(K)
           /\ "ADCA_INLTRIM_LOW" \in K => {"linear", "matched"} \subseteq Spoiled(K)
           /\ "ADCA_OFFTRIM" \in K => "matched" \in Spoiled(K)
           /\ "SYSDBGCTL" \in K => {"marked", "clear"} \subseteq Spoiled(K)
           /\ "SYSPLLMULT" \in K => {"fresh", "ready"} \subseteq Spoiled(K)
           /\ "PLLEN" \in K => "ready" \in Spoiled(K)
           /\ "PLLCLKEN" \in K => "off" \in Spoiled(K)
           /\ "PLLSYSCLKDIV" \in K => "slow" \in Spoiled(K)
           /\ "INTM" \in K => "masked" \in Spoiled(K)
           /\ K \cap Borrowed \subseteq Spoiled(K)
BY DEF Spoiled, Touched

\* The facts that a write gives say what it writes.
LEMMA GivenFacts ==
    ASSUME NEW K, NEW v, NEW a, NEW x
    PROVE  /\ "res0" \in Given(K, v, a, x) => "ADCA_RESOLUTION" \in K /\ v = 0
           /\ "res1" \in Given(K, v, a, x) => "ADCA_RESOLUTION" \in K /\ v = 1
           /\ "sig0" \in Given(K, v, a, x) => "ADCA_SIGNALMODE" \in K /\ v = 0
           /\ "sig1" \in Given(K, v, a, x) => "ADCA_SIGNALMODE" \in K /\ v = 1
           /\ "linear" \in Given(K, v, a, x) => "ADCA_INLTRIM_LOW" \in K /\ v = INLTRIM
           /\ "matched" \in Given(K, v, a, x) =>
                \/ K = {"ADCA_INLTRIM_LOW"} /\ {"matched", "res0"} \subseteq a
                \/ K = {"ADCA_OFFTRIM"} /\ TrimsFit(v, a, x)
           /\ "marked" \in Given(K, v, a, x) => "SYSDBGCTL" \in K /\ v = 1
           /\ "clear" \in Given(K, v, a, x) => "SYSDBGCTL" \in K /\ v = 0
           /\ "off" \in Given(K, v, a, x) => "PLLCLKEN" \in K /\ v = 0
           /\ "slow" \in Given(K, v, a, x) => "PLLSYSCLKDIV" \in K /\ v = Slower(x.div)
           /\ "masked" \in Given(K, v, a, x) => "INTM" \in K /\ v = 1
           /\ {"fresh", "ready", "open", "powered", "ungated", "copied", "routed"} \cap Given(K, v, a, x) = {}
           /\ \A f \in Borrowed : f \in Given(K, v, a, x) => f \in K /\ v = x.before[f]
<1> DEFINE G == {f \in K \cap Borrowed : v = x.before[f]}
<1>1. G \subseteq Borrowed /\ \A f \in G : f \in K /\ v = x.before[f]
  OBVIOUS
<1>2. Given(K, v, a, x) = GivenTrims(K, v, a, x) \cup GivenPll(K, v, x) \cup When("INTM" \in K /\ v = 1, {"masked"}) \cup G
  BY DEF Given, GivenBorrowed
<1> HIDE DEF G
<1>3. /\ "res0" \in Given(K, v, a, x) => "ADCA_RESOLUTION" \in K /\ v = 0
      /\ "res1" \in Given(K, v, a, x) => "ADCA_RESOLUTION" \in K /\ v = 1
      /\ "sig0" \in Given(K, v, a, x) => "ADCA_SIGNALMODE" \in K /\ v = 0
      /\ "sig1" \in Given(K, v, a, x) => "ADCA_SIGNALMODE" \in K /\ v = 1
      /\ "linear" \in Given(K, v, a, x) => "ADCA_INLTRIM_LOW" \in K /\ v = INLTRIM
  BY <1>1, <1>2, BorrowedFields DEF GivenTrims, GivenPll, When
<1>4. "matched" \in Given(K, v, a, x) =>
                \/ K = {"ADCA_INLTRIM_LOW"} /\ {"matched", "res0"} \subseteq a
                \/ K = {"ADCA_OFFTRIM"} /\ TrimsFit(v, a, x)
  BY <1>1, <1>2, BorrowedFields DEF GivenTrims, GivenPll, When
<1>5. /\ "marked" \in Given(K, v, a, x) => "SYSDBGCTL" \in K /\ v = 1
      /\ "clear" \in Given(K, v, a, x) => "SYSDBGCTL" \in K /\ v = 0
      /\ "off" \in Given(K, v, a, x) => "PLLCLKEN" \in K /\ v = 0
      /\ "slow" \in Given(K, v, a, x) => "PLLSYSCLKDIV" \in K /\ v = Slower(x.div)
      /\ "masked" \in Given(K, v, a, x) => "INTM" \in K /\ v = 1
  BY <1>1, <1>2, BorrowedFields DEF GivenTrims, GivenPll, When
<1>6. {"fresh", "ready", "open", "powered", "ungated", "copied", "routed"} \cap Given(K, v, a, x) = {}
  BY <1>1, <1>2, BorrowedFields DEF GivenTrims, GivenPll, When
<1>7. \A f \in Borrowed : f \in Given(K, v, a, x) => f \in K /\ v = x.before[f]
  BY <1>1, <1>2, BorrowedFields DEF GivenTrims, GivenPll, When
<1>8. QED
  BY <1>3, <1>4, <1>5, <1>6, <1>7

\* The facts about the trims after such a write.
LEMMA TrimsAfter ==
    ASSUME NEW K, NEW v, NEW a, NEW b, NEW x, NEW r, NEW n, WrittenTrims(a, r, x),
           \A p : p \in b => (p \in a /\ p \notin Spoiled(K)) \/ p \in Given(K, v, a, x),
           "ADCA_RESOLUTION" \in K => n["ADCA_RESOLUTION"] = v,
           "ADCA_RESOLUTION" \notin K => n["ADCA_RESOLUTION"] = r["ADCA_RESOLUTION"],
           "ADCA_SIGNALMODE" \in K => n["ADCA_SIGNALMODE"] = v,
           "ADCA_SIGNALMODE" \notin K => n["ADCA_SIGNALMODE"] = r["ADCA_SIGNALMODE"],
           "ADCA_INLTRIM_LOW" \in K => n["ADCA_INLTRIM_LOW"] = v,
           "ADCA_INLTRIM_LOW" \notin K => n["ADCA_INLTRIM_LOW"] = r["ADCA_INLTRIM_LOW"],
           "ADCA_OFFTRIM" \in K => n["ADCA_OFFTRIM"] = v,
           "ADCA_OFFTRIM" \notin K => n["ADCA_OFFTRIM"] = r["ADCA_OFFTRIM"]
    PROVE  WrittenTrims(b, n, x)
<1>2. /\ "res0" \in b => n["ADCA_RESOLUTION"] = 0
      /\ "res1" \in b => n["ADCA_RESOLUTION"] = 1
  BY SpoiledFacts, GivenFacts DEF WrittenTrims
<1>3. /\ "sig0" \in b => n["ADCA_SIGNALMODE"] = 0
      /\ "sig1" \in b => n["ADCA_SIGNALMODE"] = 1
      /\ "linear" \in b => n["ADCA_INLTRIM_LOW"] = INLTRIM
  BY SpoiledFacts, GivenFacts DEF WrittenTrims
<1>4. ASSUME "matched" \in b PROVE Matched(n, x.device.otp)
  <2>1. CASE "matched" \in a /\ "matched" \notin Spoiled(K)
    <3>1. /\ n["ADCA_RESOLUTION"] = r["ADCA_RESOLUTION"] /\ n["ADCA_SIGNALMODE"] = r["ADCA_SIGNALMODE"]
          /\ n["ADCA_INLTRIM_LOW"] = r["ADCA_INLTRIM_LOW"] /\ n["ADCA_OFFTRIM"] = r["ADCA_OFFTRIM"]
      BY <2>1, SpoiledFacts
    <3>2. Matched(r, x.device.otp)
      BY <2>1 DEF WrittenTrims
    <3>3. QED
      BY <3>1, <3>2 DEF Matched
  <2>2. CASE K = {"ADCA_INLTRIM_LOW"} /\ {"matched", "res0"} \subseteq a
    <3>1. /\ n["ADCA_RESOLUTION"] = r["ADCA_RESOLUTION"] /\ n["ADCA_SIGNALMODE"] = r["ADCA_SIGNALMODE"]
          /\ n["ADCA_OFFTRIM"] = r["ADCA_OFFTRIM"]
      BY <2>2
    <3>2. Matched(r, x.device.otp) /\ r["ADCA_RESOLUTION"] = 0
      BY <2>2 DEF WrittenTrims
    <3>3. QED
      BY <3>1, <3>2 DEF Matched
  <2>3. CASE K = {"ADCA_OFFTRIM"} /\ TrimsFit(v, a, x)
    <3>1. /\ n["ADCA_RESOLUTION"] = r["ADCA_RESOLUTION"] /\ n["ADCA_SIGNALMODE"] = r["ADCA_SIGNALMODE"]
          /\ n["ADCA_INLTRIM_LOW"] = r["ADCA_INLTRIM_LOW"] /\ n["ADCA_OFFTRIM"] = v
      BY <2>3
    <3>2. PICK p \in {0, 1}, s \in {0, 1} :
            /\ (IF p = 0 THEN "res0" ELSE "res1") \in a /\ (IF s = 0 THEN "sig0" ELSE "sig1") \in a
            /\ v = OffsetTrim(AdcaRegs, p, s, x.device.otp)
            /\ p = 0 \/ x.device.otp = FALSE \/ "linear" \in a
      BY <2>3 DEF TrimsFit
    <3>3. r["ADCA_RESOLUTION"] = p
      BY <3>2 DEF WrittenTrims
    <3>4. r["ADCA_SIGNALMODE"] = s
      BY <3>2 DEF WrittenTrims
    <3>5. p = 0 \/ x.device.otp = FALSE \/ r["ADCA_INLTRIM_LOW"] = INLTRIM
      BY <3>2 DEF WrittenTrims
    <3>6. QED
      BY <3>1, <3>2, <3>3, <3>4, <3>5 DEF Matched
  <2>4. QED
    BY <1>4, <2>1, <2>2, <2>3, GivenFacts
<1>5. QED
  BY <1>2, <1>3, <1>4 DEF WrittenTrims

\* What is known after a write that takes effect.
LEMMA KnownAfter ==
    ASSUME NEW K, NEW v, NEW a, NEW b, NEW x, NEW r, NEW n, Known(a, r, x),
           gated => K \cap Clocked = {},
           \A f \in Fields \ {"PLLEN"} : n[f] = IF f \in K THEN v ELSE r[f],
           b \subseteq (a \ Spoiled(K)) \cup Given(K, v, a, x)
    PROVE  Known(b, n, x)
<1>1. KnownTrims(a, r, x) /\ KnownPll(a, r, x) /\ KnownBorrowed(a, r, x)
  BY DEF Known
<1>2. /\ "ADCA_RESOLUTION" \in Fields \ {"PLLEN"} /\ "ADCA_SIGNALMODE" \in Fields \ {"PLLEN"}
      /\ "ADCA_INLTRIM_LOW" \in Fields \ {"PLLEN"} /\ "ADCA_OFFTRIM" \in Fields \ {"PLLEN"}
      /\ "SYSDBGCTL" \in Fields \ {"PLLEN"} /\ "SYSPLLMULT" \in Fields \ {"PLLEN"}
      /\ "PLLCLKEN" \in Fields \ {"PLLEN"} /\ "PLLSYSCLKDIV" \in Fields \ {"PLLEN"}
      /\ "INTM" \in Fields \ {"PLLEN"}
  BY DEF Fields
<1>3. \A f \in Borrowed : f \in Fields \ {"PLLEN"}
  BY BorrowedFields DEF Fields, TimerFields
<1>4. ASSUME NEW f \in Fields \ {"PLLEN"} PROVE (f \in K => n[f] = v) /\ (f \notin K => n[f] = r[f])
  OBVIOUS
<1>5. \A p : p \in b => (p \in a /\ p \notin Spoiled(K)) \/ p \in Given(K, v, a, x)
  OBVIOUS
<1>6. KnownPll(b, n, x)
  <2>1. /\ "SYSDBGCTL" \in K => n["SYSDBGCTL"] = v
        /\ "SYSDBGCTL" \notin K => n["SYSDBGCTL"] = r["SYSDBGCTL"]
        /\ "SYSPLLMULT" \notin K => n["SYSPLLMULT"] = r["SYSPLLMULT"]
        /\ "PLLCLKEN" \in K => n["PLLCLKEN"] = v
        /\ "PLLCLKEN" \notin K => n["PLLCLKEN"] = r["PLLCLKEN"]
        /\ "PLLSYSCLKDIV" \in K => n["PLLSYSCLKDIV"] = v
        /\ "PLLSYSCLKDIV" \notin K => n["PLLSYSCLKDIV"] = r["PLLSYSCLKDIV"]
    BY <1>2, <1>4
  <2>2. QED
    BY <1>1, <1>5, <2>1, SpoiledFacts, GivenFacts DEF KnownPll
<1>7. KnownBorrowed(b, n, x)
  <2>1. "masked" \in b => n["INTM"] = 1
    BY <1>1, <1>2, <1>4, <1>5, SpoiledFacts, GivenFacts DEF KnownBorrowed
  <2>2. ASSUME NEW f \in Borrowed, f \in b PROVE n[f] = x.before[f]
    <3>1. (f \in K => n[f] = v) /\ (f \notin K => n[f] = r[f])
      BY <1>3, <1>4
    <3>2. CASE f \in a /\ f \notin Spoiled(K)
      <4>1. f \notin K
        BY <3>2, SpoiledFacts
      <4>2. r[f] = x.before[f]
        BY <1>1, <3>2 DEF KnownBorrowed
      <4>3. QED
        BY <3>1, <4>1, <4>2
    <3>3. CASE f \in Given(K, v, a, x)
      <4>1. f \in K /\ v = x.before[f]
        BY <3>3, GivenFacts
      <4>2. QED
        BY <3>1, <4>1
    <3>4. QED
      BY <1>5, <2>2, <3>2, <3>3
  <2>3. QED
    BY <2>1, <2>2 DEF KnownBorrowed
<1>8. KnownTrims(b, n, x)
  <2>1. /\ "ADCA_RESOLUTION" \in K => n["ADCA_RESOLUTION"] = v
        /\ "ADCA_RESOLUTION" \notin K => n["ADCA_RESOLUTION"] = r["ADCA_RESOLUTION"]
        /\ "ADCA_SIGNALMODE" \in K => n["ADCA_SIGNALMODE"] = v
        /\ "ADCA_SIGNALMODE" \notin K => n["ADCA_SIGNALMODE"] = r["ADCA_SIGNALMODE"]
        /\ "ADCA_INLTRIM_LOW" \in K => n["ADCA_INLTRIM_LOW"] = v
        /\ "ADCA_INLTRIM_LOW" \notin K => n["ADCA_INLTRIM_LOW"] = r["ADCA_INLTRIM_LOW"]
        /\ "ADCA_OFFTRIM" \in K => n["ADCA_OFFTRIM"] = v
        /\ "ADCA_OFFTRIM" \notin K => n["ADCA_OFFTRIM"] = r["ADCA_OFFTRIM"]
    BY <1>2, <1>4
  <2>2. CASE gated
    <3>1. K \cap Clocked = {} /\ Matched(r, x.device.otp)
      BY <1>1, <2>2 DEF KnownTrims
    <3>2. Matched(n, x.device.otp)
      BY <2>1, <3>1 DEF Matched, Clocked
    <3>3. QED
      BY <2>2, <3>2 DEF KnownTrims
  <2>3. CASE ~gated
    <3>1. WrittenTrims(a, r, x)
      BY <1>1, <2>3 DEF KnownTrims
    <3>2. WrittenTrims(b, n, x)
      BY <1>5, <2>1, <3>1, TrimsAfter
    <3>3. QED
      BY <2>3, <3>2 DEF KnownTrims
  <2>4. QED
    BY <2>2, <2>3
<1>9. QED
  BY <1>6, <1>7, <1>8 DEF Known

\* What is known after a statement that leaves the registers alone.
LEMMA FitsNext ==
    ASSUME NEW a, NEW b, Fits(a, eallow, reg), reg' = reg, Context' = Context,
           gated' = gated, Around(b, eallow)',
           b \subseteq a \cup {"open", "powered", "copied", "routed", "ready"} \cup When(gated, TrimFacts)
    PROVE  Fits(b, eallow, reg)'
<1> DEFINE x == Context
           r == reg
           m == {"open", "powered", "copied", "routed", "ready"}
<1>1. Known(a, r, x)
  BY DEF Fits
<1>2. \A f \in m : f \notin Borrowed
  BY BorrowedFields
<1> HIDE DEF x, r
<1>3. /\ \A f \in TrimFacts : f \notin m \cup Borrowed
      /\ b \subseteq a \cup m \cup TrimFacts /\ (~gated => b \subseteq a \cup m)
  BY BorrowedFields DEF TrimFacts, When
<1>4. Known(b, r, x)
  <2>1. KnownTrims(b, r, x)
    BY <1>1, <1>3 DEF Known, KnownTrims, WrittenTrims, TrimFacts
  <2>2. KnownPll(b, r, x)
    BY <1>1, <1>3 DEF Known, KnownPll, TrimFacts
  <2>3. KnownBorrowed(b, r, x)
    <3>1. "masked" \in b => r["INTM"] = 1
      BY <1>1, <1>3 DEF Known, KnownBorrowed, TrimFacts
    <3>2. \A f \in Borrowed : f \in b => f \in a
      BY <1>2, <1>3
    <3>3. QED
      BY <1>1, <3>1, <3>2 DEF Known, KnownBorrowed
  <2>4. QED
    BY <2>1, <2>2, <2>3 DEF Known
<1>5. reg' = r /\ Context' = x
  BY DEF r, x
<1>6. QED
  BY <1>4, <1>5 DEF Fits, Known, KnownTrims

\* The rest of the invariant, when registers and PLLs stay as they are.
Others == /\ flag \subseteq Channels /\ RegsInv /\ PllInv /\ GatedInv /\ LossInv

\* A statement that leaves registers and PLLs as they are keeps it.
LEMMA OthersStay ==
    ASSUME SystemInv, Done, flag' \subseteq Channels, reg' = reg, LossInv', GatedInv',
           dead' = dead, failed' = failed,
           halted \/ "SYS" \in locks => halted' \/ "SYS" \in locks'
    PROVE  Others'
<1>1. RegsInv'
  BY DEF SystemInv, RegsInv
<1>2. PllInv'
  BY DEF SystemInv, PllInv
<1>3. QED
  BY <1>1, <1>2 DEF Others

\* In a routine, when its next statement leaves all that is known alone.
LEMMA RoutineContinues ==
    ASSUME SystemInv, run # <<>>, Done, Head(todo) \notin Ends,
           UNCHANGED <<run, reg, clocked, gated, copied, adca1, flag>>,
           halted \/ "SYS" \in locks => halted' \/ "SYS" \in locks'
    PROVE  ListInv' /\ RoutineInv' /\ Placed'
<1>1. Context' = Context /\ todo' = Tail(todo) /\ topic' = topic /\ call' = call /\ device' = device
  BY DEF Done, Context
<1>2. RoutineInv
  BY DEF SystemInv
<1>3. InRoutine(todo')
  BY <1>1, <1>2, RoutineHead DEF RoutineInv
<1>4. PICK a \in Safe : /\ ForRoutine \subseteq a
                        /\ Fits(a, run[3], [reg EXCEPT !["INTM"] = 0])
                        /\ Runs(run[4], a, Promised(call.name), Context)
  BY <1>2 DEF RoutineInv
<1>5. Fits(a, run[3], [reg EXCEPT !["INTM"] = 0])'
  BY <1>1, <1>4 DEF Fits, Around, Known, KnownTrims
<1>6. Runs(run'[4], a, Promised(call'.name), Context')
  BY <1>1, <1>4
<1>7. RoutineInv'
  BY <1>2, <1>3, <1>4, <1>5, <1>6 DEF RoutineInv
<1>8. ListInv'
  BY DEF ListInv
<1>9. QED
  BY <1>1, <1>7, <1>8 DEF SystemInv, Placed

\* As long as nothing more is lost and no clock is gated.
LEMMA LossStays ==
    ASSUME SystemInv, Done
    PROVE  /\ lost' = lost => LossInv'
           /\ UNCHANGED <<clocked, gated>> => GatedInv'
BY DEF SystemInv, LossInv, GatedInv, Done

\* A statement outside of a routine that leaves the registers alone.
LEMMA StepKeeps ==
    ASSUME SystemInv, todo # <<>>, run = <<>>, Done, run' = run, reg' = reg,
           flag' \subseteq Channels, LossInv', UNCHANGED <<clocked, gated>>,
           dead' = dead, failed' = failed,
           halted \/ "SYS" \in locks => halted' \/ "SYS" \in locks',
           \A a, b \in Safe : Around(a, eallow) /\ Legal(Head(todo), a, b, Context) =>
             /\ b \subseteq a \cup {"open", "powered", "copied", "routed", "ready"}
             /\ Around(b, eallow)'
    PROVE  SystemInv'
<1>1. PICK a, b \in Safe : /\ Fits(a, eallow, reg) /\ Legal(Head(todo), a, b, Context)
                           /\ Runs(Tail(todo), b, Promised(call.name), Context)
  BY Executed DEF SystemInv
<1>2. /\ b \subseteq a \cup {"open", "powered", "copied", "routed", "ready"}
      /\ Around(b, eallow)'
  BY <1>1 DEF Fits
<1>3. Context' = Context
  BY DEF Done, Context
<1>4. Fits(b, eallow, reg)'
  BY <1>1, <1>2, <1>3, FitsNext DEF When
<1>5. ListInv' /\ RoutineInv' /\ Placed'
  BY <1>1, <1>4, Continues
<1>6. Others'
  BY OthersStay, LossStays
<1>7. QED
  BY <1>5, <1>6 DEF SystemInv, Others, Placed
------------------------------------------------------------------------------
(* The invariant: one lemma for each action *)

\* EALLOW and EDIS set and clear "open".
LEMMA ProtectKeeps == SystemInv /\ Protect => SystemInv'
<1> SUFFICES ASSUME SystemInv, Protect PROVE SystemInv'
  OBVIOUS
<1> DEFINE s == Head(todo)
<1>1. /\ todo # <<>> /\ s.kind = "protect" /\ Done /\ eallow' = ~s.on
      /\ UNCHANGED <<reg, clocked, gated, lost, locks, dead, halted, failed, copied, adca1, flag, run>>
  BY DEF Protect, Statement, pll, pie
<1>2. run = <<>> /\ topic' = topic /\ LossInv' /\ flag' \subseteq Channels
  BY <1>1, NotInRoutine, LossStays DEF SystemInv, Done
<1>3. ASSUME NEW a \in Safe, NEW b \in Safe, Around(a, eallow), Legal(s, a, b, Context)
      PROVE  /\ b \subseteq a \cup {"open", "powered", "copied", "routed", "ready"}
             /\ Around(b, eallow)'
  <2>1. b \subseteq IF s.on THEN a \ {"open"} ELSE a \cup {"open"}
    BY <1>1, <1>3 DEF Legal, After
  <2> HIDE DEF s
  <2>2. QED
    BY <1>1, <1>2, <1>3, <2>1 DEF Around
<1>4. QED
  BY <1>1, <1>2, <1>3, StepKeeps

\* PCLKCRn is written under EALLOW, except after GPIO_EnableUnbondedIOPullups.
LEMMA GateClocksKeeps == SystemInv /\ GateClocks => SystemInv'
<1> SUFFICES ASSUME SystemInv, GateClocks PROVE SystemInv'
  OBVIOUS
<1> DEFINE s == Head(todo)
           K == s.keys
<1>1. /\ todo # <<>> /\ s.kind = "gate" /\ Done
      /\ ~eallow => lost' = lost \cup {"PCLKCR"} /\ UNCHANGED <<clocked, gated>>
      /\ eallow => /\ clocked' = (IF s.on THEN clocked \cup K ELSE clocked \ K) /\ lost' = lost
                   /\ gated' = IF K = Peripherals THEN ~s.on ELSE gated
      /\ UNCHANGED <<reg, eallow, locks, dead, halted, failed, copied, adca1, flag, run>>
  BY DEF GateClocks, Statement, pll, pie
<1>2. run = <<>> /\ topic' = topic /\ flag' \subseteq Channels /\ Context.device = device
  BY <1>1, NotInRoutine DEF SystemInv, Done, Context
<1>3. PICK a, b \in Safe : /\ Fits(a, eallow, reg) /\ Legal(s, a, b, Context)
                           /\ Runs(Tail(todo), b, Promised(call.name), Context)
  BY <1>1, <1>2, Executed DEF SystemInv
<1>4. /\ "open" \in a \/ device.package # 7
      /\ K = Peripherals => "open" \in a /\ (s.on \/ "matched" \in a)
      /\ K # Peripherals => "ungated" \in a
      /\ b \subseteq AfterGate(K, s.on, a)
  BY <1>1, <1>2, <1>3 DEF Legal, Admits, AdmitsGate, After
<1>5. /\ "open" \in a => eallow = TRUE
      /\ "powered" \in a => Peripherals \subseteq clocked \/ gated
      /\ "ungated" \in a => ~gated
      /\ "matched" \in a => Matched(reg, Context.device.otp)
      /\ ~gated => WrittenTrims(a, reg, Context)
  BY <1>3 DEF Fits, Around, Known, KnownTrims, WrittenTrims
<1> HIDE DEF s
<1>6. LossInv'
  <2>1. lost' = lost \/ (device.package # 7 /\ lost' = lost \cup {"PCLKCR"})
    BY <1>1, <1>4, <1>5
  <2>2. device' = device /\ LossInv
    BY <1>1 DEF Done, SystemInv
  <2>3. QED
    BY <2>1, <2>2 DEF LossInv
<1>7. GatedInv'
  <2>1. GatedInv
    BY DEF SystemInv
  <2>2. CASE ~eallow
    BY <1>1, <2>1, <2>2 DEF GatedInv
  <2>3. CASE eallow /\ K = Peripherals
    BY <1>1, <2>3 DEF GatedInv
  <2>4. CASE K # Peripherals
    BY <1>1, <1>4, <1>5, <2>4 DEF GatedInv
  <2>5. QED
    BY <2>2, <2>3, <2>4
<1>8. b \subseteq a \cup {"powered"}
  BY <1>4 DEF AfterGate, Powered
<1>9. Around(b, eallow)'
  <2>1. /\ "copied" \in a => copied = TRUE
        /\ "routed" \in a => adca1 = ADCA1_ISR
        /\ "ready" \in a => halted \/ "SYS" \in locks
    BY <1>3 DEF Fits, Around
  <2>2. CASE K = Peripherals /\ s.on
    <3>1. Peripherals \subseteq clocked' /\ ~gated' /\ eallow'
      BY <1>1, <1>4, <1>5, <2>2
    <3>2. QED
      BY <1>1, <1>5, <1>8, <2>1, <3>1 DEF Around
  <2>3. CASE K = Peripherals /\ ~s.on
    <3>1. "ungated" \notin b /\ gated' /\ eallow'
      BY <1>1, <1>4, <1>5, <2>3 DEF AfterGate
    <3>2. QED
      BY <1>1, <1>5, <1>8, <2>1, <3>1 DEF Around
  <2>4. CASE K # Peripherals
    <3>1. ~gated /\ gated' = gated
      BY <1>1, <1>4, <1>5, <2>4
    <3>2. "powered" \in b => Peripherals \subseteq clocked'
      BY <1>1, <1>4, <1>5, <2>4, <3>1 DEF AfterGate
    <3>3. QED
      BY <1>1, <1>5, <1>8, <2>1, <3>1, <3>2 DEF Around
  <2>5. QED
    BY <2>2, <2>3, <2>4
<1>10. Fits(b, eallow, reg)'
  <2> DEFINE x == Context
             r == reg
  <2>1. x' = x /\ r' = r
    BY <1>1 DEF Done, Context
  <2>2. KnownPll(b, r, x) /\ KnownBorrowed(b, r, x)
    <3>1. KnownPll(a, r, x) /\ KnownBorrowed(a, r, x)
      BY <1>3 DEF Fits, Known
    <3> HIDE DEF x, r
    <3>2. QED
      BY <1>8, <3>1, BorrowedFields DEF KnownPll, KnownBorrowed
  <2>3. IF gated' THEN Matched(r, x.device.otp) ELSE WrittenTrims(b, r, x)
    <3>1. CASE K = Peripherals
      <4>1. gated' = ~s.on /\ (s.on => b \cap TrimFacts \subseteq a \cap {"matched"}) /\ (s.on \/ "matched" \in a)
        BY <1>1, <1>4, <1>5, <3>1 DEF AfterGate, Powered, TrimFacts
      <4>2. "matched" \in a => Matched(r, x.device.otp)
        BY <1>5
      <4> HIDE DEF x, r
      <4>3. CASE s.on
        <5>1. ~gated' /\ b \cap TrimFacts \subseteq a \cap {"matched"}
          BY <4>1, <4>3
        <5>2. QED
          BY <4>2, <5>1 DEF WrittenTrims, TrimFacts
      <4>4. CASE ~s.on
        BY <4>1, <4>2, <4>4
      <4>5. QED
        BY <4>3, <4>4
    <3>2. CASE K # Peripherals
      <4>1. ~gated /\ gated' = gated
        BY <1>1, <1>4, <1>5, <3>2
      <4>2. WrittenTrims(a, r, x)
        BY <1>5, <4>1
      <4> HIDE DEF x, r
      <4>3. QED
        BY <1>8, <4>1, <4>2 DEF WrittenTrims
    <3>3. QED
      BY <3>1, <3>2
  <2> HIDE DEF x, r
  <2>4. KnownTrims(b, r, x)'
    BY <2>1, <2>3 DEF KnownTrims
  <2>5. Known(b, r, x)'
    BY <2>1, <2>2, <2>4 DEF Known
  <2>6. QED
    BY <1>9, <2>5 DEF Fits, r, x
<1>11. ListInv' /\ RoutineInv' /\ Placed'
  BY <1>1, <1>2, <1>3, <1>10, Continues DEF s
<1>12. Others'
  BY <1>1, <1>2, <1>6, <1>7, OthersStay
<1>13. QED
  BY <1>11, <1>12 DEF SystemInv, Others, Placed

\* Pins are written under EALLOW.
LEMMA WritePinKeeps == SystemInv /\ WritePin => SystemInv'
<1> SUFFICES ASSUME SystemInv, WritePin PROVE SystemInv'
  OBVIOUS
<1> DEFINE s == Head(todo)
<1>1. /\ todo # <<>> /\ s.kind = "pin" /\ Done
      /\ lost' = IF eallow \/ s.keys = {} THEN lost ELSE lost \cup {s.field}
      /\ UNCHANGED <<reg, eallow, clocked, gated, locks, dead, halted, failed, copied, adca1, flag, run>>
  BY DEF WritePin, Statement, pll, pie
<1>2. run = <<>> /\ topic' = topic /\ flag' \subseteq Channels
  BY <1>1, NotInRoutine DEF SystemInv, Done
<1>3. LossInv'
  <2>1. PICK a, b \in Safe : Fits(a, eallow, reg) /\ Legal(s, a, b, Context)
    BY <1>1, <1>2, Executed DEF SystemInv
  <2>2. "open" \in a
    BY <1>1, <2>1 DEF Legal, Admits
  <2>3. eallow = TRUE
    BY <2>1, <2>2 DEF Fits, Around
  <2>4. lost' = lost
    BY <1>1, <2>3
  <2>5. QED
    BY <1>1, <2>4, LossStays
<1>4. ASSUME NEW a \in Safe, NEW b \in Safe, Around(a, eallow), Legal(s, a, b, Context)
      PROVE  /\ b \subseteq a \cup {"open", "powered", "copied", "routed", "ready"}
             /\ Around(b, eallow)'
  <2>1. b \subseteq a
    BY <1>1, <1>4 DEF Legal, After
  <2> HIDE DEF s
  <2>2. QED
    BY <1>1, <1>2, <1>4, <2>1 DEF Around
<1>5. QED
  BY <1>1, <1>2, <1>3, <1>4, StepKeeps

\* Data is of no account.
LEMMA WriteDataKeeps == SystemInv /\ WriteData => SystemInv'
<1> SUFFICES ASSUME SystemInv, WriteData PROVE SystemInv'
  OBVIOUS
<1> DEFINE s == Head(todo)
<1>1. /\ todo # <<>> /\ s.kind = "data" /\ Done
      /\ UNCHANGED <<reg, eallow, clocked, gated, lost, locks, dead, halted, failed, copied, adca1, flag, run>>
  BY DEF WriteData, Statement, write, pll, pie
<1>2. run = <<>> /\ topic' = topic /\ flag' \subseteq Channels /\ LossInv'
  BY <1>1, NotInRoutine, LossStays DEF SystemInv, Done
<1>3. ASSUME NEW a \in Safe, NEW b \in Safe, Around(a, eallow), Legal(s, a, b, Context)
      PROVE  /\ b \subseteq a \cup {"open", "powered", "copied", "routed", "ready"}
             /\ Around(b, eallow)'
  <2>1. b \subseteq a
    BY <1>1, <1>3 DEF Legal, After
  <2> HIDE DEF s
  <2>2. QED
    BY <1>1, <1>2, <1>3, <2>1 DEF Around
<1>4. QED
  BY <1>1, <1>2, <1>3, StepKeeps

\* After the wait the PLL has locked.
LEMMA WaitLockKeeps == SystemInv /\ WaitLock => SystemInv'
<1> SUFFICES ASSUME SystemInv, WaitLock PROVE SystemInv'
  OBVIOUS
<1> DEFINE s == Head(todo)
<1>1. /\ todo # <<>> /\ s.kind = "await" /\ Done
      /\ s.what = "LOCKS" => "SYS" \in locks
      /\ UNCHANGED <<reg, eallow, clocked, gated, lost, locks, dead, halted, failed, copied, adca1, flag, run>>
  BY DEF WaitLock, Statement, write, pll, pie
<1>2. run = <<>> /\ topic' = topic /\ flag' \subseteq Channels /\ LossInv'
  BY <1>1, NotInRoutine, LossStays DEF SystemInv, Done
<1>3. ASSUME NEW a \in Safe, NEW b \in Safe, Around(a, eallow), Legal(s, a, b, Context)
      PROVE  /\ b \subseteq a \cup {"open", "powered", "copied", "routed", "ready"}
             /\ Around(b, eallow)'
  <2>1. b \subseteq a \cup When(s.what = "LOCKS", {"ready"})
    BY <1>1, <1>3 DEF Legal, After
  <2> HIDE DEF s
  <2>2. b \subseteq a \cup {"ready"} /\ ("ready" \in b => "ready" \in a \/ "SYS" \in locks)
    BY <1>1, <2>1 DEF When
  <2>3. QED
    BY <1>1, <1>2, <1>3, <2>2 DEF Around
<1>4. QED
  BY <1>1, <1>2, <1>3, StepKeeps

\* The vector table is written under EALLOW.
LEMMA WriteVectorsKeeps == SystemInv /\ WriteVectors => SystemInv'
<1> SUFFICES ASSUME SystemInv, WriteVectors PROVE SystemInv'
  OBVIOUS
<1> DEFINE s == Head(todo)
<1>1. /\ todo # <<>> /\ Done
      /\ \/ s.kind = "vectors" /\ (IF eallow THEN copied' = TRUE ELSE copied' = copied /\ adca1' = adca1)
         \/ s.kind = "vector" /\ (IF eallow THEN adca1' = s.routine ELSE adca1' = adca1) /\ copied' = copied
      /\ lost' = IF eallow THEN lost ELSE lost \cup {"PieVectTable"}
      /\ UNCHANGED <<reg, eallow, clocked, gated, locks, dead, halted, failed, flag, run>>
  BY DEF WriteVectors, Statement, pll
<1>2. run = <<>> /\ topic' = topic /\ flag' \subseteq Channels
  BY <1>1, NotInRoutine DEF SystemInv, Done
<1>3. ASSUME NEW a \in Safe, NEW b \in Safe, Around(a, eallow), Legal(s, a, b, Context)
      PROVE  /\ b \subseteq a \cup {"open", "powered", "copied", "routed", "ready"}
             /\ Around(b, eallow)' /\ eallow = TRUE
  <2>1. "open" \in a
    BY <1>1, <1>3 DEF Legal, Admits
  <2>2. eallow = TRUE
    BY <1>3, <2>1 DEF Around
  <2>3. CASE s.kind = "vectors"
    <3>1. b \subseteq (a \ {"routed"}) \cup {"copied"}
      BY <1>3, <2>3 DEF Legal, After
    <3>2. copied' = TRUE
      BY <1>1, <2>2, <2>3
    <3> HIDE DEF s
    <3>3. QED
      BY <1>1, <1>2, <1>3, <2>2, <3>1, <3>2 DEF Around
  <2>4. CASE s.kind = "vector"
    <3>1. b \subseteq a \cup {"routed"} /\ s.routine = ADCA1_ISR
      BY <1>3, <2>4 DEF Legal, After, Admits
    <3>2. adca1' = ADCA1_ISR /\ copied' = copied
      BY <1>1, <2>2, <2>4, <3>1
    <3> HIDE DEF s
    <3>3. QED
      BY <1>1, <1>2, <1>3, <2>2, <3>1, <3>2 DEF Around
  <2>5. QED
    BY <1>1, <2>3, <2>4
<1>4. LossInv'
  <2>1. PICK a, b \in Safe : Fits(a, eallow, reg) /\ Legal(s, a, b, Context)
    BY <1>1, <1>2, Executed DEF SystemInv
  <2>2. lost' = lost
    BY <1>1, <1>3, <2>1 DEF Fits
  <2>3. QED
    BY <1>1, <2>2, LossStays
<1>5. QED
  BY <1>1, <1>2, <1>3, <1>4, StepKeeps

\* The flags are cleared and the routine acknowledges.
LEMMA WritePieKeeps == SystemInv /\ WritePie => SystemInv'
<1> SUFFICES ASSUME SystemInv, WritePie PROVE SystemInv'
  OBVIOUS
<1> DEFINE s == Head(todo)
<1>1. /\ todo # <<>> /\ Done
      /\ \/ s.kind \in {"pie", "ack"} /\ flag' = flag
         \/ s.kind = "flags" /\ flag' = {}
      /\ UNCHANGED <<reg, eallow, clocked, gated, lost, locks, dead, halted, failed, copied, adca1, run>>
  BY DEF WritePie, Statement, write, pll
<1>2. topic' = topic /\ flag' \subseteq Channels /\ LossInv' /\ GatedInv'
  BY <1>1, LossStays DEF SystemInv, Done
<1>3. CASE run = <<>>
  <2>1. ASSUME NEW a \in Safe, NEW b \in Safe, Around(a, eallow), Legal(s, a, b, Context)
        PROVE  /\ b \subseteq a \cup {"open", "powered", "copied", "routed", "ready"}
               /\ Around(b, eallow)'
    <3>1. b \subseteq a
      BY <1>1, <2>1 DEF Legal, After
    <3> HIDE DEF s
    <3>2. QED
      BY <1>1, <1>2, <2>1, <3>1 DEF Around
  <2>2. QED
    BY <1>1, <1>2, <1>3, <2>1, StepKeeps
<1>4. CASE run # <<>>
  <2>1. s.kind \in {"reg", "ack", "iret", "sleep"} /\ s \in RoutineStatements
    BY <1>1, <1>4, RoutineHead, RoutineKinds DEF SystemInv, RoutineInv
  <2>2. s.kind = "ack" /\ flag' = flag
    BY <1>1, <2>1
  <2>3. s \notin Ends
    BY <2>1, <2>2, EndsKinds
  <2>4. ListInv' /\ RoutineInv' /\ Placed'
    BY <1>1, <1>4, <2>2, <2>3, RoutineContinues
  <2>5. Others'
    BY <1>1, <1>2, OthersStay
  <2>6. QED
    BY <2>4, <2>5 DEF SystemInv, Others, Placed
<1>5. QED
  BY <1>3, <1>4

\* HALT is left with the PLL off; a default routine is never left.
LEMMA WakeKeeps == SystemInv /\ Wake => SystemInv'
<1> SUFFICES ASSUME SystemInv, Wake PROVE SystemInv'
  OBVIOUS
<1> DEFINE s == Head(todo)
<1>1. /\ todo # <<>> /\ s.kind = "sleep" /\ s.mode \in {"IDLE", "STANDBY", "HALT", "ESTOP0"} /\ Done
      /\ halted' = (halted \/ s.mode = "HALT")
      /\ UNCHANGED <<reg, eallow, clocked, gated, lost, locks, dead, failed, copied, adca1, flag, run>>
  BY DEF Wake, Sleeping, Statement, write, pie
<1>2. topic' = topic /\ flag' \subseteq Channels /\ LossInv'
  BY <1>1, LossStays DEF SystemInv, Done
<1>3. run = <<>>
  <2>1. ASSUME run # <<>> PROVE FALSE
    <3>1. s \in RoutineStatements
      BY <2>1, RoutineHead DEF SystemInv, RoutineInv
    <3>2. s.mode = "for(;;)"
      BY <1>1, <3>1, RoutineKinds
    <3>3. QED
      BY <1>1, <3>2
  <2>2. QED
    BY <2>1
<1>4. ASSUME NEW a \in Safe, NEW b \in Safe, Around(a, eallow), Legal(s, a, b, Context)
      PROVE  /\ b \subseteq a \cup {"open", "powered", "copied", "routed", "ready"}
             /\ Around(b, eallow)'
  <2>1. b \subseteq AfterSleep(s.mode, a)
    BY <1>1, <1>4 DEF Legal, After
  <2> HIDE DEF s
  <2>2. b \subseteq a \/ (s.mode = "HALT" /\ b \subseteq a \cup {"ready"})
    BY <1>1, <2>1 DEF AfterSleep
  <2>3. QED
    BY <1>1, <1>2, <1>4, <2>2 DEF Around
<1>5. QED
  BY <1>1, <1>2, <1>3, <1>4, StepKeeps

\* The pump is in no fact.
LEMMA SeizePumpKeeps == SystemInv /\ SeizePump => SystemInv'
<1> SUFFICES ASSUME SystemInv, SeizePump PROVE SystemInv'
  OBVIOUS
<1> DEFINE s == Head(todo)
           K == {"PUMP_OWNERSHIP"}
<1>1. /\ todo # <<>> /\ s.kind = "seize" /\ Done
      /\ reg' = [reg EXCEPT !["PUMP_OWNERSHIP"] = s.owner]
      /\ UNCHANGED <<eallow, clocked, gated, lost, locks, dead, halted, failed, copied, adca1, flag, run>>
  BY DEF SeizePump, Statement, pll, pie
<1>2. run = <<>> /\ topic' = topic /\ flag' \subseteq Channels /\ LossInv' /\ GatedInv' /\ RegsInv /\ PllInv
  BY <1>1, NotInRoutine, LossStays DEF SystemInv, Done
<1>3. PICK a, b \in Safe : /\ Fits(a, eallow, reg) /\ Legal(s, a, b, Context)
                           /\ Runs(Tail(todo), b, Promised(call.name), Context)
  BY <1>1, <1>2, Executed DEF SystemInv
<1>4. b \subseteq a
  BY <1>1, <1>3 DEF Legal, After
<1> HIDE DEF s
<1>5. Context' = Context
  BY <1>1 DEF Done, Context
<1>6. reg = [f \in Fields |-> reg[f]]
  BY <1>2 DEF RegsInv
<1>7. \A f \in Fields : reg'[f] = IF f \in K THEN s.owner ELSE reg[f]
  BY <1>1, <1>6
<1>8. "INTM" \in Fields /\ "DBGM" \in Fields /\ "SYSDBGCTL" \in Fields /\ "PLLCLKEN" \in Fields
  BY DEF Fields
<1>9. Known(b, reg', Context)
  <2> DEFINE x == Context
             r == reg
             n == reg'
  <2>1. Known(a, r, x)
    BY <1>3 DEF Fits
  <2>2. \A f \in Fields \ {"PLLEN"} : n[f] = IF f \in K THEN s.owner ELSE r[f]
    BY <1>7
  <2>3. b \subseteq (a \ Spoiled(K)) \cup Given(K, s.owner, a, x)
    <3>1. Spoiled(K) = {}
      BY BorrowedFields DEF Spoiled, Touched
    <3>2. QED
      BY <1>4, <3>1
  <2>4. K \cap Clocked = {}
    BY DEF Clocked
  <2> HIDE DEF x, r, n, K
  <2>5. Known(b, n, x)
    BY <2>1, <2>2, <2>3, <2>4, KnownAfter
  <2>6. QED
    BY <2>5 DEF x, n
<1>10. Around(b, eallow)'
  BY <1>1, <1>2, <1>3, <1>4 DEF Fits, Around
<1>11. Fits(b, eallow, reg)'
  BY <1>1, <1>5, <1>9, <1>10 DEF Fits, Known, KnownTrims
<1>12. ListInv' /\ RoutineInv' /\ Placed'
  BY <1>1, <1>2, <1>3, <1>11, Continues
<1>13. RegsInv'
  <2>1. reg'["INTM"] = reg["INTM"] /\ reg'["DBGM"] = reg["DBGM"]
    BY <1>7, <1>8
  <2>2. DOMAIN reg' = Fields
    BY <1>1, <1>6
  <2>3. reg' = [f \in Fields |-> reg'[f]]
    BY <1>1, <1>6, <2>2
  <2>4. QED
    BY <1>2, <2>1, <2>3 DEF RegsInv
<1>14. PllInv'
  <2>1. reg'["SYSDBGCTL"] = reg["SYSDBGCTL"] /\ reg'["PLLCLKEN"] = reg["PLLCLKEN"]
    BY <1>7, <1>8
  <2>2. QED
    BY <1>1, <1>2, <2>1 DEF PllInv
<1>15. QED
  BY <1>2, <1>12, <1>13, <1>14 DEF SystemInv, Placed

\* The called list takes the place of the call.
LEMMA EnterKeeps == SystemInv /\ Enter => SystemInv'
<1> SUFFICES ASSUME SystemInv, Enter PROVE SystemInv'
  OBVIOUS
<1> DEFINE s == Head(todo)
           x == Context
<1>1. /\ todo # <<>> /\ s.kind = "call" /\ todo' = Body(s.name) \o Tail(todo)
      /\ UNCHANGED <<device, topic, call, booted, reg, eallow, clocked, gated, lost, locks, dead, halted,
                     failed, copied, adca1, flag, run>>
  BY DEF Enter, Statement, write, pll, pie
<1>2. run = <<>> /\ device = x.device
  BY <1>1, NotInRoutine DEF SystemInv, Context
<1>3. PICK a, b \in Safe : /\ Fits(a, eallow, reg) /\ Legal(s, a, b, x)
                           /\ Runs(Tail(todo), b, Promised(call.name), x)
  BY <1>1, <1>2, Executed DEF SystemInv
<1>4. AdmitsCall(s.name, a, x) /\ b \subseteq AfterCall(s.name, a, x)
  BY <1>1, <1>3 DEF Legal, Admits, After
<1>5. ("masked" \in a => reg["INTM"] = 1) /\ ("fresh" \in a => reg["SYSPLLMULT"] = 0)
  BY <1>3 DEF Fits, Known, KnownPll, KnownBorrowed
<1>6. s.name \in {"InitSysPll", "InitPeripheralClocks", "SetupADCSoftwareSync", "GPIO_EnableUnbondedIOPullups"}
  BY <1>4 DEF AdmitsCall
<1> DEFINE r == reg
<1>7. Runs(Body(s.name), a, AfterCall(s.name, a, x), x)
  <2> HIDE DEF s, x
  <2>1. CASE s.name = "InitSysPll"
    <3>1. Body(s.name) = InitSysPll(r, 0, 20, 1)
      BY <2>1 DEF Body
    <3> HIDE DEF r
    <3>2. QED
      BY <1>4, <1>5, <2>1, <3>1, CalledRuns DEF r
  <2>2. CASE s.name = "InitPeripheralClocks"
    <3>1. Body(s.name) = InitPeripheralClocks
      BY <2>2 DEF Body
    <3>2. QED
      BY <1>5, <2>2, <3>1, CalledRuns
  <2>3. CASE s.name = "SetupADCSoftwareSync"
    <3>1. Body(s.name) = SetupADCSoftwareSync(r)
      BY <2>3 DEF Body
    <3>2. QED
      BY <1>4, <1>5, <2>3, <3>1, CalledRuns
  <2>4. CASE s.name = "GPIO_EnableUnbondedIOPullups"
    <3>1. Body(s.name) = GPIO_EnableUnbondedIOPullups(x.device)
      BY <1>2, <2>4 DEF Body
    <3>2. QED
      BY <1>4, <1>5, <2>4, <3>1, CalledRuns
  <2>5. QED
    BY <1>6, <2>1, <2>2, <2>3, <2>4
<1>8. Context' = x
  BY <1>1 DEF Context
<1> HIDE DEF s, x
<1>9. Runs(todo', a, Promised(call.name), x)
  <2>1. Runs(Body(s.name), a, b, x)
    BY <1>4, <1>7, Weaken
  <2>2. QED
    BY <1>1, <1>3, <2>1, Compose
<1>10. Fits(a, eallow, reg)'
  BY <1>1, <1>3, <1>8 DEF Fits, Around, Known, KnownTrims, x
<1>11. ListInv'
  BY <1>1, <1>8, <1>9, <1>10 DEF ListInv
<1>12. RoutineInv'
  BY <1>1, <1>2 DEF RoutineInv
<1>13. Placed' /\ flag' \subseteq Channels /\ RegsInv' /\ PllInv' /\ GatedInv' /\ LossInv'
  BY <1>1 DEF SystemInv, RegsInv, PllInv, GatedInv, LossInv, Placed
<1>14. QED
  BY <1>11, <1>12, <1>13 DEF SystemInv, Placed

\* What a write of v to the fields K does, when it takes effect or K is empty.
Written(K, v) ==
  /\ reg' = [f \in Fields |-> IF f \in K THEN v
                              ELSE IF f = "PLLEN" /\ "SYSPLLMULT" \in K THEN 1 ELSE reg[f]]
  /\ "SYS" \in locks /\ K \cap {"PLLEN", "SYSPLLMULT"} = {} => "SYS" \in locks'
  /\ halted /\ "SYSPLLMULT" \notin K => halted'
  /\ failed' => failed /\ "SYSDBGCTL" \notin K
  /\ dead' => "PLLCLKEN" \in K /\ v = 1

\* The cases of a write.
LEMMA WriteMeans ==
    ASSUME WriteReg, NEW s, s = Head(todo)
    PROVE  /\ todo # <<>> /\ s.kind = "reg" /\ Done
           /\ UNCHANGED <<eallow, clocked, gated, copied, adca1, flag, run>>
           /\ Effective(s) => lost' = lost /\ Written(s.keys, s.val)
           /\ ~Effective(s) => /\ lost' = IF Permitted(s) /\ gated THEN lost ELSE lost \cup s.keys
                              /\ Written({}, s.val)
<1> DEFINE K == IF Effective(s) THEN s.keys ELSE {}
           on == IF "SYSPLLMULT" \in K THEN {"PLLEN"} ELSE {}
<1>1. /\ todo # <<>> /\ s.kind = "reg" /\ Done /\ ~dead
      /\ UNCHANGED <<eallow, clocked, gated, copied, adca1, flag, run>>
      /\ lost' = IF Permitted(s) /\ gated THEN lost ELSE lost \cup (s.keys \ K)
      /\ reg' = [f \in Fields |-> IF f \in K THEN s.val ELSE IF f \in on THEN 1 ELSE reg[f]]
      /\ locks' = locks \ ((IF K \cap {"PLLEN", "SYSPLLMULT"} # {} THEN {"SYS"} ELSE {})
                        \cup (IF K \cap {"AUXPLLEN", "AUXPLLMULT"} # {} THEN {"AUX"} ELSE {}))
      /\ halted' = (halted /\ "SYSPLLMULT" \notin K)
      /\ failed' = (failed /\ "SYSDBGCTL" \notin K)
      /\ IF "PLLCLKEN" \in K /\ s.val = 1 /\ reg["PLLCLKEN"] = 0
         THEN dead' \in BOOLEAN ELSE dead' = dead
  BY DEF WriteReg, Statement, pie
<1>2. \A f : f \in on <=> f = "PLLEN" /\ "SYSPLLMULT" \in K
  OBVIOUS
<1> HIDE DEF K, on
<1>3. Written(K, s.val)
  <2>1. reg' = [f \in Fields |-> IF f \in K THEN s.val
                                 ELSE IF f = "PLLEN" /\ "SYSPLLMULT" \in K THEN 1 ELSE reg[f]]
    BY <1>1, <1>2
  <2>2. "SYS" \in locks /\ K \cap {"PLLEN", "SYSPLLMULT"} = {} => "SYS" \in locks'
    BY <1>1
  <2>3. /\ halted /\ "SYSPLLMULT" \notin K => halted'
        /\ failed' => failed /\ "SYSDBGCTL" \notin K
    BY <1>1
  <2>4. dead' => "PLLCLKEN" \in K /\ s.val = 1
    BY <1>1
  <2>5. QED
    BY <2>1, <2>2, <2>3, <2>4 DEF Written
<1>4. CASE Effective(s)
  <2>1. K = s.keys
    BY <1>4 DEF K
  <2>2. lost' = lost
    BY <1>1, <2>1
  <2>3. QED
    BY <1>1, <1>3, <1>4, <2>1, <2>2
<1>5. CASE ~Effective(s)
  <2>1. K = {}
    BY <1>5 DEF K
  <2>2. lost' = IF Permitted(s) /\ gated THEN lost ELSE lost \cup s.keys
    BY <1>1, <2>1
  <2>3. QED
    BY <1>1, <1>3, <1>5, <2>1, <2>2
<1>6. QED
  BY <1>4, <1>5

\* A write that takes effect.
LEMMA EffectiveKeeps ==
    ASSUME SystemInv, NEW s, s = Head(todo), todo # <<>>, s.kind = "reg", Done, run = <<>>,
           UNCHANGED <<eallow, clocked, gated, copied, adca1, flag, run, lost>>,
           NEW K, NEW v, NEW a \in Safe, NEW b \in Safe,
           Fits(a, eallow, reg), AdmitsWrite(K, v, s.unit, a, Context),
           gated => K \cap Clocked = {},
           b \subseteq (a \ Spoiled(K)) \cup Given(K, v, a, Context),
           Runs(Tail(todo), b, Promised(call.name), Context),
           Written(K, v)
    PROVE  SystemInv'
<1>1. /\ topic' = topic /\ Context' = Context /\ LossInv' /\ GatedInv' /\ RegsInv /\ PllInv
      /\ flag' \subseteq Channels
  BY LossStays DEF Done, Context, SystemInv
<1>2. /\ reg' = [f \in Fields |-> IF f \in K THEN v
                                  ELSE IF f = "PLLEN" /\ "SYSPLLMULT" \in K THEN 1 ELSE reg[f]]
      /\ "SYS" \in locks /\ K \cap {"PLLEN", "SYSPLLMULT"} = {} => "SYS" \in locks'
      /\ halted /\ "SYSPLLMULT" \notin K => halted'
      /\ failed' => failed /\ "SYSDBGCTL" \notin K
      /\ dead' => "PLLCLKEN" \in K /\ v = 1
  BY DEF Written
<1>3. \A f \in Fields \ {"PLLEN"} : reg'[f] = IF f \in K THEN v ELSE reg[f]
  BY <1>2
<1>4. /\ K \cap {"INTM", "DBGM"} # {} => v \in {0, 1}
      /\ "PLLCLKEN" \in K => K = {"PLLCLKEN"} /\ (v = 0 \/ (v = 1 /\ {"marked", "ready", "slow"} \subseteq a))
      /\ K \cap {"PLLEN", "SYSPLLMULT"} # {} => "off" \in a
  BY DEF AdmitsWrite, Clocked
<1>5. /\ "INTM" \in Fields \ {"PLLEN"} /\ "DBGM" \in Fields \ {"PLLEN"}
      /\ "SYSDBGCTL" \in Fields \ {"PLLEN"} /\ "PLLCLKEN" \in Fields \ {"PLLEN"}
  BY DEF Fields
<1>6. /\ reg'["INTM"] = IF "INTM" \in K THEN v ELSE reg["INTM"]
      /\ reg'["DBGM"] = IF "DBGM" \in K THEN v ELSE reg["DBGM"]
      /\ reg'["SYSDBGCTL"] = IF "SYSDBGCTL" \in K THEN v ELSE reg["SYSDBGCTL"]
      /\ reg'["PLLCLKEN"] = IF "PLLCLKEN" \in K THEN v ELSE reg["PLLCLKEN"]
  BY <1>3, <1>5
<1>7. Known(b, reg', Context)
  <2> DEFINE x == Context
             r == reg
             n == reg'
  <2>1. Known(a, r, x)
    BY DEF Fits
  <2>2. \A f \in Fields \ {"PLLEN"} : n[f] = IF f \in K THEN v ELSE r[f]
    BY <1>3
  <2>3. b \subseteq (a \ Spoiled(K)) \cup Given(K, v, a, x)
    OBVIOUS
  <2> HIDE DEF x, r, n
  <2>4. Known(b, n, x)
    BY <2>1, <2>2, <2>3, KnownAfter
  <2>5. QED
    BY <2>4 DEF x, n
<1>8. Around(b, eallow)'
  <2> DEFINE x == Context
             G == Given(K, v, a, x)
  <2>1. {"fresh", "ready", "open", "powered", "ungated", "copied", "routed"} \cap G = {}
    BY GivenFacts
  <2>2. b \subseteq (a \ Spoiled(K)) \cup G
    OBVIOUS
  <2>3. K \cap {"PLLEN", "SYSPLLMULT"} # {} => "ready" \in Spoiled(K)
    BY SpoiledFacts
  <2>4. Around(a, eallow)
    BY DEF Fits
  <2> HIDE DEF G
  <2>5. \A f \in {"ready", "open", "powered", "ungated", "copied", "routed"} : f \in b => f \in a /\ f \notin Spoiled(K)
    BY <2>1, <2>2
  <2>6. "ready" \in b => halted' \/ "SYS" \in locks'
    BY <1>2, <2>3, <2>4, <2>5 DEF Around
  <2>7. QED
    BY <1>1, <2>4, <2>5, <2>6 DEF Around
<1>9. Fits(b, eallow, reg)'
  BY <1>1, <1>7, <1>8 DEF Fits, Known, KnownTrims
<1>10. ListInv' /\ RoutineInv' /\ Placed'
  BY <1>9, Continues
<1>11. RegsInv'
  <2>1. DOMAIN reg' = Fields
    BY <1>2
  <2>2. reg' = [f \in Fields |-> reg'[f]]
    BY <1>2, <2>1
  <2>3. reg["INTM"] \in {0, 1} /\ reg["DBGM"] \in {0, 1}
    BY <1>1 DEF RegsInv
  <2>4. reg'["INTM"] \in {0, 1} /\ reg'["DBGM"] \in {0, 1}
    BY <1>4, <1>6, <2>3
  <2>5. QED
    BY <2>2, <2>4 DEF RegsInv
<1>12. PllInv'
  <2>1. /\ dead \/ failed => reg["SYSDBGCTL"] = 1
        /\ reg["PLLCLKEN"] = 1 => halted \/ "SYS" \in locks
    BY <1>1 DEF PllInv
  <2>2. /\ "marked" \in a => reg["SYSDBGCTL"] = 1
        /\ "off" \in a => reg["PLLCLKEN"] = 0
        /\ "ready" \in a => halted \/ "SYS" \in locks
    BY DEF Fits, Known, KnownPll, Around
  <2>3. dead' => reg'["SYSDBGCTL"] = 1
    BY <1>2, <1>4, <1>6, <2>2
  <2>4. failed' => reg'["SYSDBGCTL"] = 1
    BY <1>2, <1>6, <2>1
  <2>5. reg'["PLLCLKEN"] = 1 => halted' \/ "SYS" \in locks'
    BY <1>2, <1>4, <1>6, <2>1, <2>2
  <2>6. QED
    BY <2>3, <2>4, <2>5 DEF PllInv
<1>13. QED
  BY <1>1, <1>10, <1>11, <1>12 DEF SystemInv, Placed

\* A write without effect: of the trims of the references, on a part with unbonded pins, or to
\* a peripheral while the program has gated the clocks.
LEMMA LostKeeps ==
    ASSUME SystemInv, NEW s, s = Head(todo), todo # <<>>, s.kind = "reg", Done, run = <<>>,
           UNCHANGED <<eallow, clocked, gated, copied, adca1, flag, run>>, LossInv',
           NEW v, Written({}, v),
           \A a, b \in Safe : Legal(s, a, b, Context) => b \subseteq a \cup When(gated, TrimFacts)
    PROVE  SystemInv'
<1>1. RegsInv /\ PllInv /\ GatedInv' /\ flag' \subseteq Channels
  BY LossStays DEF SystemInv
<1>2. reg' = reg
  <2>1. reg = [f \in Fields |-> reg[f]]
    BY <1>1 DEF RegsInv
  <2>2. reg' = [f \in Fields |-> reg[f]]
    BY DEF Written
  <2>3. QED
    BY <2>1, <2>2
<1>3. (halted \/ "SYS" \in locks => halted' \/ "SYS" \in locks') /\ ~dead' /\ (failed' => failed)
  BY DEF Written
<1>5. PllInv'
  BY <1>1, <1>2, <1>3 DEF PllInv
<1>6. RegsInv'
  BY <1>1, <1>2 DEF RegsInv
<1>7. PICK a, b \in Safe : /\ Fits(a, eallow, reg) /\ Legal(s, a, b, Context)
                           /\ Runs(Tail(todo), b, Promised(call.name), Context)
  BY Executed DEF SystemInv
<1>8. b \subseteq a \cup When(gated, TrimFacts) /\ Context' = Context
  BY <1>7 DEF Done, Context
<1>9. Around(b, eallow)'
  <2>1. Around(a, eallow) /\ b \subseteq a \cup TrimFacts
    BY <1>7, <1>8 DEF Fits, When
  <2>2. QED
    BY <1>3, <2>1 DEF Around, TrimFacts
<1>10. Fits(b, eallow, reg)'
  BY <1>2, <1>7, <1>8, <1>9, FitsNext
<1>11. ListInv' /\ RoutineInv' /\ Placed'
  BY <1>7, <1>10, Continues
<1>12. QED
  BY <1>1, <1>5, <1>6, <1>11 DEF SystemInv, Placed

\* What is written without effect gives facts about the trims at most.
LEMMA NothingGiven ==
    ASSUME NEW K, NEW v, NEW c, NEW x, NEW g,
           K \cap Special = {} \/ (g /\ K \cap Fields \subseteq Clocked)
    PROVE  Given(K, v, c, x) \subseteq When(g, TrimFacts)
<1>1. CASE K \cap Special = {}
  <2>1. K \cap Borrowed = {}
    BY <1>1 DEF Special
  <2>2. GivenBorrowed(K, v, x) = {}
    BY <1>1, <2>1, BorrowedFields DEF GivenBorrowed, When, Special
  <2>3. GivenPll(K, v, x) = {}
    BY <1>1 DEF GivenPll, When, Special
  <2>4. GivenTrims(K, v, c, x) = {}
    BY <1>1 DEF GivenTrims, When, Special
  <2>5. QED
    BY <2>2, <2>3, <2>4 DEF Given
<1>2. CASE g /\ K \cap Fields \subseteq Clocked
  <2>1. K \cap (Borrowed \cup {"INTM", "SYSDBGCTL", "PLLCLKEN", "PLLSYSCLKDIV"}) = {}
    <3>1. Borrowed \cup {"INTM", "SYSDBGCTL", "PLLCLKEN", "PLLSYSCLKDIV"} \subseteq Fields \ Clocked
      BY BorrowedFields DEF Fields, TimerFields, Clocked
    <3>2. QED
      BY <1>2, <3>1
  <2>2. GivenBorrowed(K, v, x) = {}
    BY <2>1 DEF GivenBorrowed, When
  <2>3. GivenPll(K, v, x) = {}
    BY <2>1 DEF GivenPll, When
  <2>4. GivenTrims(K, v, c, x) \subseteq TrimFacts
    BY DEF GivenTrims, When, TrimFacts
  <2>5. QED
    BY <1>2, <2>2, <2>3, <2>4 DEF Given, When
<1>3. QED
  BY <1>1, <1>2

\* A write takes effect, or is the one that is known to be lost, or a routine makes it.
LEMMA WriteRegKeeps == SystemInv /\ WriteReg => SystemInv'
<1> SUFFICES ASSUME SystemInv, WriteReg PROVE SystemInv'
  OBVIOUS
<1> DEFINE s == Head(todo)
           K == s.keys
           x == Context
<1>1. /\ todo # <<>> /\ s.kind = "reg" /\ Done
      /\ UNCHANGED <<eallow, clocked, gated, copied, adca1, flag, run>>
      /\ Effective(s) => lost' = lost /\ Written(s.keys, s.val)
      /\ ~Effective(s) => /\ lost' = IF Permitted(s) /\ gated THEN lost ELSE lost \cup s.keys
                         /\ Written({}, s.val)
  BY WriteMeans
<1>2. x.device = device /\ device' = device /\ LossInv /\ (gated => clocked \cap Peripherals = {})
  BY <1>1 DEF Context, Done, SystemInv, GatedInv
<1>3. CASE run = <<>>
  <2>1. PICK a, b \in Safe : /\ Fits(a, eallow, reg) /\ Legal(s, a, b, x)
                             /\ Runs(Tail(todo), b, Promised(call.name), x)
    BY <1>1, <1>3, Executed DEF SystemInv
  <2>2. AdmitsWrite(K, s.val, s.unit, a, x) /\ b \subseteq (a \ Spoiled(K)) \cup Given(K, s.val, a, x)
    BY <1>1, <2>1 DEF Legal, Admits, After
  <2> HIDE DEF s
  <2>3. /\ "open" \in a => eallow = TRUE
        /\ "powered" \in a => Peripherals \subseteq clocked \/ gated
        /\ IF s.unit = {} THEN K \cap Clocked = {}
           ELSE s.unit \subseteq Peripherals /\ "powered" \in a /\ K \cap Fields \subseteq Clocked
    BY <2>1, <2>2 DEF Fits, Around, AdmitsWrite
  <2>4. CASE Effective(s)
    <3>1. Written(K, s.val) /\ lost' = lost
      BY <1>1, <2>4
    <3>2. gated => K \cap Clocked = {}
      <4>1. gated /\ s.unit # {} => s.unit \subseteq clocked \cap Peripherals
        BY <2>3, <2>4 DEF Effective
      <4>2. QED
        BY <1>2, <2>3, <4>1
    <3>3. QED
      BY <1>1, <1>3, <2>1, <2>2, <3>1, <3>2, EffectiveKeeps DEF s
  <2>5. ASSUME ~Effective(s), K \cap Special = {} \/ (gated /\ K \cap Fields \subseteq Clocked), LossInv'
        PROVE  SystemInv'
    <3>1. ASSUME NEW c \in Safe, NEW d \in Safe, Legal(s, c, d, x)
          PROVE  d \subseteq c \cup When(gated, TrimFacts)
      <4>1. d \subseteq (c \ Spoiled(K)) \cup Given(K, s.val, c, x)
        BY <1>1, <3>1 DEF Legal, After
      <4>2. Given(K, s.val, c, x) \subseteq When(gated, TrimFacts)
        BY <2>5, NothingGiven
      <4>3. QED
        BY <4>1, <4>2
    <3>2. Written({}, s.val)
      BY <1>1, <2>5
    <3>3. QED
      BY <1>1, <1>3, <2>5, <3>1, <3>2, LostKeeps DEF s
  <2>6. CASE ~Effective(s) /\ ~Permitted(s)
    <3>1. K \subseteq References /\ device.package # 7
      BY <1>2, <2>2, <2>3, <2>6 DEF AdmitsWrite, Permitted
    <3>2. K \cap Special = {}
      BY <3>1, BorrowedFields DEF References, Special
    <3>3. lost' = lost \cup K
      BY <1>1, <2>6
    <3>4. LossInv'
      BY <1>2, <3>1, <3>3 DEF LossInv
    <3>5. QED
      BY <2>5, <2>6, <3>2, <3>4
  <2>7. CASE ~Effective(s) /\ Permitted(s)
    <3>1. ~(s.unit \subseteq clocked)
      BY <2>7 DEF Effective
    <3>2. gated /\ K \cap Fields \subseteq Clocked
      BY <2>3, <3>1
    <3>3. LossInv'
      BY <1>1, <1>2, <2>7, <3>2 DEF LossInv
    <3>4. QED
      BY <2>5, <2>7, <3>2, <3>3
  <2>8. QED
    BY <2>4, <2>6, <2>7
<1>4. CASE run # <<>>
  <2>1. s \in RoutineStatements
    BY <1>1, <1>4, RoutineHead DEF SystemInv, RoutineInv
  <2>2. K \in {{"Vbus"}, {"SPIB_SPIDAT"}, {"ADCAINTFLGCLR"}} /\ s.unit \subseteq Peripherals /\ s \notin Ends
    BY <1>1, <2>1, RoutineKinds
  <2>3. K \subseteq Unprotected /\ K \cap Fields = {}
    BY <2>2 DEF Unprotected, Fields, TimerFields, References
  <2>4. "SYSPLLMULT" \in Fields /\ "SYSDBGCTL" \in Fields /\ "PLLCLKEN" \in Fields /\ "PLLEN" \in Fields
    BY DEF Fields
  <2>5. Peripherals \subseteq clocked \/ gated
    BY <1>4 DEF SystemInv, RoutineInv, Fits, Around, ForRoutine
  <2>6. Permitted(s) /\ (Effective(s) \/ gated)
    BY <2>2, <2>3, <2>5 DEF Effective, Permitted
  <2>7. (Written(K, s.val) \/ Written({}, s.val)) /\ lost' = lost
    BY <1>1, <2>6
  <2> HIDE DEF K
  <2>8. /\ reg' = [f \in Fields |-> IF f \in K THEN s.val
                                    ELSE IF f = "PLLEN" /\ "SYSPLLMULT" \in K THEN 1 ELSE reg[f]]
        /\ halted \/ "SYS" \in locks => halted' \/ "SYS" \in locks'
        /\ failed' => failed
        /\ ~dead'
    BY <2>3, <2>4, <2>7 DEF Written
  <2>9. reg' = reg
    <3>1. reg = [f \in Fields |-> reg[f]]
      BY DEF SystemInv, RegsInv
    <3>2. reg' = [f \in Fields |-> reg[f]]
      BY <2>3, <2>4, <2>8
    <3>3. QED
      BY <3>1, <3>2
  <2>10. ListInv' /\ RoutineInv' /\ Placed'
    BY <1>1, <1>4, <2>2, <2>8, <2>9, RoutineContinues
  <2>11. PllInv'
    BY <2>8, <2>9 DEF SystemInv, PllInv
  <2>12. RegsInv' /\ LossInv' /\ flag' \subseteq Channels /\ GatedInv'
    BY <1>1, <2>7, <2>9, LossStays DEF SystemInv, RegsInv
  <2>13. QED
    BY <2>10, <2>11, <2>12 DEF SystemInv, Placed
<1>5. QED
  BY <1>3, <1>4

\* The registers after a reset.
LEMMA AfreshKnown ==
    ASSUME NEW c, NEW r, r = [AfterReset EXCEPT !["SYSDBGCTL"] = c], NEW x
    PROVE  /\ WrittenTrims(Afresh, r, x) /\ KnownPll(Afresh, r, x) /\ KnownBorrowed(Afresh, r, x)
           /\ r = [f \in Fields |-> r[f]]
           /\ {r["INTM"], r["DBGM"]} \subseteq {0, 1} /\ r["SYSDBGCTL"] = c /\ r["PLLCLKEN"] = 0
<1>1. /\ "INTM" \in Fields /\ "DBGM" \in Fields /\ "SYSDBGCTL" \in Fields
      /\ "PLLCLKEN" \in Fields /\ "SYSPLLMULT" \in Fields
  BY DEF Fields
<1>2. DOMAIN AfterReset = Fields /\ AfterReset = [f \in Fields |-> AfterReset[f]]
  BY DEF AfterReset
<1>3. /\ AfterReset["INTM"] = 1 /\ AfterReset["DBGM"] = 1
      /\ AfterReset["PLLCLKEN"] = 0 /\ AfterReset["SYSPLLMULT"] = 0
  BY <1>1 DEF AfterReset
<1>4. /\ r["INTM"] = 1 /\ r["DBGM"] = 1 /\ r["PLLCLKEN"] = 0 /\ r["SYSPLLMULT"] = 0
      /\ r["SYSDBGCTL"] = c
  BY <1>1, <1>2, <1>3
<1>5. r = [f \in Fields |-> r[f]]
  BY <1>2
<1>6. WrittenTrims(Afresh, r, x) /\ KnownPll(Afresh, r, x) /\ KnownBorrowed(Afresh, r, x)
  <2>1. \A f \in Borrowed : f \notin Afresh
    BY BorrowedFields DEF Afresh
  <2>2. KnownBorrowed(Afresh, r, x)
    BY <1>4, <2>1 DEF KnownBorrowed
  <2>3. KnownPll(Afresh, r, x) /\ WrittenTrims(Afresh, r, x)
    BY <1>4 DEF KnownPll, WrittenTrims, Afresh
  <2>4. QED
    BY <2>2, <2>3
<1>7. QED
  BY <1>4, <1>5, <1>6

\* After a reset nothing is set up and INTM is set.
LEMMA AfreshSafe == Afresh \in Safe /\ {"open", "powered", "copied", "routed", "ready"} \cap Afresh = {}
BY DEF Afresh, Safe, Facts

\* Power-on.
LEMMA InitHolds == Init => SystemInv
<1> SUFFICES ASSUME Init PROVE SystemInv
  OBVIOUS
<1> DEFINE x == Context
<1>1. /\ device \in Devices /\ todo = Main[device] /\ call = NoCall /\ booted = FALSE
      /\ reg = AfterReset /\ lost = {} /\ dead = FALSE /\ failed = FALSE
      /\ flag \in {{}, Raised[topic]} /\ run = <<>> /\ gated = FALSE /\ clocked = {}
      /\ topic \in Topics \cup {"boot"}
  BY DEF Init
<1>2. x.device = device /\ x.div = 1
  BY <1>1 DEF Context
<1>3. todo = main(device)
  BY <1>1 DEF Main
<1> HIDE DEF x
<1>4. Runs(todo, Afresh, Always, x)
  BY <1>1, <1>2, <1>3, MainRuns
<1>5. Promised(call.name) = Always
  <2>1. call.name = ""
    BY <1>1 DEF NoCall
  <2>2. "" \notin {"InitSysPll", "InitAuxPll"}
    OBVIOUS
  <2>3. QED
    BY <2>1, <2>2, OtherPromise
<1>6. reg = [AfterReset EXCEPT !["SYSDBGCTL"] = 0]
  <2>1. AfterReset["SYSDBGCTL"] = 0 /\ AfterReset = [f \in Fields |-> AfterReset[f]] /\ "SYSDBGCTL" \in Fields
    BY DEF AfterReset, Fields
  <2>2. QED
    BY <1>1, <2>1
<1>7. /\ WrittenTrims(Afresh, reg, x) /\ KnownPll(Afresh, reg, x) /\ KnownBorrowed(Afresh, reg, x)
      /\ reg = [f \in Fields |-> reg[f]]
      /\ {reg["INTM"], reg["DBGM"]} \subseteq {0, 1} /\ reg["PLLCLKEN"] = 0
  BY <1>6, AfreshKnown
<1>8. Fits(Afresh, eallow, reg)
  BY <1>1, <1>7, AfreshSafe DEF Fits, Around, Known, KnownTrims, x
<1>9. ListInv /\ RoutineInv
  BY <1>1, <1>4, <1>5, <1>8, AfreshSafe DEF ListInv, RoutineInv, x
<1>10. RegsInv /\ PllInv /\ GatedInv /\ LossInv /\ flag \subseteq Channels
  BY <1>1, <1>7, RaisedAssumption DEF RegsInv, PllInv, GatedInv, LossInv
<1>11. QED
  BY <1>1, <1>9, <1>10 DEF SystemInv

\* main() starts again.
LEMMA RestartKeeps ==
    ASSUME SystemInv, NEW c, NEW f, Restart(c, f), f => c = 1
    PROVE  SystemInv'
<1> DEFINE x == Context'
<1>1. /\ device \in Devices /\ device' = device /\ topic' = topic
      /\ todo' = Main[device] /\ call' = NoCall /\ booted' = FALSE
      /\ reg' = [AfterReset EXCEPT !["SYSDBGCTL"] = c] /\ lost' = {} /\ dead' = FALSE /\ failed' = f
      /\ flag' = {} /\ run' = <<>> /\ gated' = FALSE /\ clocked' = {}
      /\ topic \in Topics \cup {"boot"}
  BY DEF Restart, SystemInv
<1>2. x.device = device /\ x.div = 1
  BY <1>1 DEF Context
<1>3. todo' = main(device)
  BY <1>1 DEF Main
<1> HIDE DEF x
<1>4. Runs(todo', Afresh, Always, x)
  BY <1>1, <1>2, <1>3, MainRuns
<1>5. Promised(call'.name) = Always
  <2>1. call'.name = ""
    BY <1>1 DEF NoCall
  <2>2. "" \notin {"InitSysPll", "InitAuxPll"}
    OBVIOUS
  <2>3. QED
    BY <2>1, <2>2, OtherPromise
<1>6. /\ WrittenTrims(Afresh, reg', x) /\ KnownPll(Afresh, reg', x) /\ KnownBorrowed(Afresh, reg', x)
      /\ reg' = [g \in Fields |-> reg'[g]]
      /\ {reg'["INTM"], reg'["DBGM"]} \subseteq {0, 1} /\ reg'["SYSDBGCTL"] = c /\ reg'["PLLCLKEN"] = 0
  BY <1>1, AfreshKnown
<1>7. Fits(Afresh, eallow, reg)'
  BY <1>1, <1>6, AfreshSafe DEF Fits, Around, Known, KnownTrims, x
<1>8. ListInv' /\ RoutineInv'
  BY <1>1, <1>4, <1>5, <1>7, AfreshSafe DEF ListInv, RoutineInv, x
<1>9. RegsInv' /\ PllInv' /\ GatedInv' /\ LossInv' /\ flag' \subseteq Channels
  BY <1>1, <1>6 DEF RegsInv, PllInv, GatedInv, LossInv
<1>10. QED
  BY <1>1, <1>8, <1>9 DEF SystemInv

\* A watchdog reset for a dead PLL finds SYSDBGCTL marked.
LEMMA ResetsKeep == SystemInv /\ (WakeFromHib \/ WatchdogReset \/ ExternalReset) => SystemInv'
<1>1. ASSUME SystemInv, WakeFromHib PROVE SystemInv'
  <2>1. Restart(reg["SYSDBGCTL"], FALSE)
    BY <1>1 DEF WakeFromHib
  <2>2. QED
    BY <1>1, <2>1, RestartKeeps
<1>2. ASSUME SystemInv, WatchdogReset PROVE SystemInv'
  <2>1. Restart(reg["SYSDBGCTL"], dead) /\ (dead => reg["SYSDBGCTL"] = 1)
    BY <1>2 DEF WatchdogReset, SystemInv, PllInv
  <2>2. QED
    BY <1>2, <2>1, RestartKeeps
<1>3. ASSUME SystemInv, ExternalReset PROVE SystemInv'
  <2>1. Restart(reg["SYSDBGCTL"], FALSE) \/ Restart(0, FALSE)
    BY <1>3 DEF ExternalReset
  <2>2. QED
    BY <1>3, <2>1, RestartKeeps
<1>4. QED
  BY <1>1, <1>2, <1>3
------------------------------------------------------------------------------
\* What is always known outlasts a call, and does not depend on what is borrowed.
LEMMA AlwaysKnown ==
    ASSUME NEW a, Always \subseteq a, NEW r, NEW n, NEW x, NEW y, Known(a, r, x),
           y.device = x.device, \A f \in Fields \ Borrowed : n[f] = r[f]
    PROVE  Known(Always, n, y)
<1> DEFINE c == Always
<1>1. /\ "SYSDBGCTL" \in Fields \ Borrowed /\ "ADCA_RESOLUTION" \in Fields \ Borrowed
      /\ "ADCA_SIGNALMODE" \in Fields \ Borrowed /\ "ADCA_OFFTRIM" \in Fields \ Borrowed
      /\ "ADCA_INLTRIM_LOW" \in Fields \ Borrowed
  BY BorrowedFields DEF Fields
<1>2. /\ n["SYSDBGCTL"] = r["SYSDBGCTL"] /\ n["ADCA_RESOLUTION"] = r["ADCA_RESOLUTION"]
      /\ n["ADCA_SIGNALMODE"] = r["ADCA_SIGNALMODE"] /\ n["ADCA_OFFTRIM"] = r["ADCA_OFFTRIM"]
      /\ n["ADCA_INLTRIM_LOW"] = r["ADCA_INLTRIM_LOW"]
  BY <1>1
<1>3. /\ ({"open", "masked", "slow", "off", "fresh", "marked"} \cup Borrowed) \cap c = {}
      /\ "matched" \in c
  BY AlwaysSafe
<1>4. {"res0", "res1", "sig0", "sig1", "linear"} \cap c = {}
  BY DEF Always, ForRoutine, When
<1>5. c \subseteq a
  OBVIOUS
<1> HIDE DEF c
<1>6. KnownTrims(c, n, y)
  <2>1. Matched(n, y.device.otp)
    <3>1. Matched(r, x.device.otp)
      BY <1>3, <1>5 DEF Known, KnownTrims, WrittenTrims
    <3>2. QED
      BY <1>2, <3>1 DEF Matched
  <2>2. QED
    BY <1>4, <2>1 DEF KnownTrims, WrittenTrims
<1>7. KnownPll(c, n, y)
  BY <1>2, <1>3, <1>5 DEF Known, KnownPll
<1>8. KnownBorrowed(c, n, y)
  <2>1. "masked" \notin c /\ \A f \in Borrowed : f \notin c
    BY <1>3
  <2>2. QED
    BY <2>1 DEF KnownBorrowed
<1>9. QED
  BY <1>6, <1>7, <1>8 DEF Known, c

\* Between two calls.
LEMMA Idles ==
    ASSUME SystemInv, run = <<>>, todo = <<>>
    PROVE  \E a \in Safe : Fits(a, eallow, reg) /\ Always \subseteq a
<1>1. PICK a \in Safe : Fits(a, eallow, reg) /\ Runs(todo, a, Promised(call.name), Context)
  BY DEF SystemInv, ListInv
<1>2. Promised(call.name) \subseteq a
  BY <1>1, Empty
<1>3. Always \subseteq Promised(call.name)
  BY DEF Promised
<1>4. QED
  BY <1>1, <1>2, <1>3

\* A function has returned.
LEMMA LoopKeeps == SystemInv /\ Loop => SystemInv'
<1> SUFFICES ASSUME SystemInv, Loop PROVE SystemInv'
  OBVIOUS
<1>1. /\ todo = <<>> /\ run = <<>> /\ call' = NoCall
      /\ UNCHANGED <<todo, run, device, topic, eallow, reg, clocked, gated, lost, locks, dead, halted, failed,
                     copied, adca1, flag>>
  BY DEF Loop, write, pll, pie
<1>2. PICK a \in Safe : Fits(a, eallow, reg) /\ Always \subseteq a
  BY <1>1, Idles
<1>3. PICK b \in Safe : b = Always
  BY AlwaysSafe
<1> DEFINE r == reg
           x == Context
           y == Context'
<1>4. b \subseteq a /\ y.device = x.device
  BY <1>1, <1>2, <1>3 DEF Context
<1>5. Known(b, r, y)
  <2>1. Known(a, r, x)
    BY <1>2 DEF Fits
  <2> HIDE DEF r, x, y
  <2>2. QED
    BY <1>2, <1>3, <1>4, <2>1, AlwaysKnown
<1>6. Fits(b, eallow, reg)'
  <2>1. Around(b, eallow)'
    BY <1>1, <1>2, <1>4 DEF Fits, Around
  <2>2. QED
    BY <1>1, <1>5, <2>1 DEF Fits, Known, KnownTrims
<1>7. Promised(call'.name) = b
  <2>1. call'.name = ""
    BY <1>1 DEF NoCall
  <2>2. "" \notin {"InitSysPll", "InitAuxPll"}
    OBVIOUS
  <2>3. QED
    BY <1>1, <1>3, <2>1, <2>2, OtherPromise
<1>8. Runs(todo', b, b, Context')
  BY <1>1, Skip
<1>9. ListInv'
  BY <1>6, <1>7, <1>8 DEF ListInv
<1>10. RoutineInv'
  BY <1>1 DEF RoutineInv
<1>11. Placed' /\ RegsInv' /\ PllInv' /\ GatedInv' /\ LossInv' /\ flag' \subseteq Channels
  BY <1>1 DEF SystemInv, Placed, RegsInv, PllInv, GatedInv, LossInv
<1>12. QED
  BY <1>9, <1>10, <1>11 DEF SystemInv, Placed

\* A function is called; what it may borrow is as it is.
LEMMA UserCallKeeps == SystemInv /\ UserCall => SystemInv'
<1> SUFFICES ASSUME SystemInv, UserCall PROVE SystemInv'
  OBVIOUS
<1>1. PICK c \in Calls :
        /\ todo' = c.list
        /\ call' = [name |-> c.name, div |-> c.div, before |-> [f \in Borrowed |-> reg[f]]]
  BY DEF UserCall
<1>2. /\ todo = <<>> /\ run = <<>> /\ booted
      /\ UNCHANGED <<run, device, topic, booted, eallow, reg, clocked, gated, lost, locks, dead, halted, failed,
                     copied, adca1, flag>>
  BY DEF UserCall, Idle, write, pll, pie
<1>3. PICK a \in Safe : Fits(a, eallow, reg) /\ Always \subseteq a
  BY <1>2, Idles
<1> DEFINE y == [div |-> c.div, before |-> [f \in Borrowed |-> reg[f]], device |-> device]
<1>4. Context' = y
  BY <1>1, <1>2 DEF Context
<1>5. Runs(c.list, Always \cup Borrowed, Promised(c.name), y)
  <2>1. RegsInv /\ device \in Devices
    BY DEF SystemInv
  <2>2. QED
    BY <2>1, CallRuns
<1>6. PICK b \in Safe : b = Always \cup Borrowed
  BY AlwaysSafe
<1>7. y.device = Context.device /\ \A f \in Borrowed : y.before[f] = reg[f]
  BY DEF Context
<1>8. Known(b, reg, y)
  <2> DEFINE r == reg
             x == Context
             c0 == Always
  <2>1. Known(a, r, x)
    BY <1>3 DEF Fits
  <2>2. c0 \subseteq a /\ y.device = x.device /\ \A f \in Borrowed : y.before[f] = r[f]
    BY <1>3, <1>7
  <2>3. {"open", "masked", "slow", "off", "fresh", "marked"} \cap (c0 \cup Borrowed) = {}
    BY AlwaysSafe
  <2> HIDE DEF x, y, r
  <2>4. Known(c0, r, y)
    BY <2>1, <2>2, AlwaysKnown
  <2>5. \A f \in Borrowed : f \notin {"clear", "matched", "res0", "res1", "sig0", "sig1", "linear"}
    BY BorrowedFields
  <2> HIDE DEF c0
  <2>6. b = c0 \cup Borrowed
    BY <1>6 DEF c0
  <2>7. KnownTrims(b, r, y)
    BY <2>4, <2>5, <2>6 DEF Known, KnownTrims, WrittenTrims
  <2>8. KnownPll(b, r, y)
    BY <2>3, <2>4, <2>5, <2>6 DEF Known, KnownPll
  <2>9. KnownBorrowed(b, r, y)
    BY <2>2, <2>3, <2>6 DEF KnownBorrowed
  <2>10. QED
    BY <2>7, <2>8, <2>9 DEF Known, r
<1>9. Fits(b, eallow, reg)'
  <2>1. \A f \in {"open", "powered", "ungated", "copied", "routed", "ready"} : f \in b => f \in a
    BY <1>3, <1>6, BorrowedFields
  <2>2. Around(b, eallow)'
    BY <1>2, <1>3, <2>1 DEF Fits, Around
  <2>3. Known(b, reg, Context)'
    <3> DEFINE z == Context'
    <3>1. reg' = reg /\ gated' = gated /\ z = y
      BY <1>2, <1>4
    <3> HIDE DEF y, z
    <3>2. Known(b, reg', z) /\ gated' = gated
      BY <1>8, <3>1
    <3>3. QED
      BY <3>2 DEF Known, KnownTrims, z
  <2>4. QED
    BY <2>2, <2>3 DEF Fits
<1>10. Runs(todo', b, Promised(call'.name), Context')
  BY <1>1, <1>2, <1>4, <1>5, <1>6
<1>11. ListInv'
  BY <1>9, <1>10 DEF ListInv
<1>12. RoutineInv'
  BY <1>2 DEF RoutineInv
<1>13. Placed' /\ RegsInv' /\ PllInv' /\ GatedInv' /\ LossInv' /\ flag' \subseteq Channels
  BY <1>2 DEF SystemInv, Placed, RegsInv, PllInv, GatedInv, LossInv
<1>14. QED
  BY <1>11, <1>12, <1>13 DEF SystemInv, Placed

\* What a program sets itself is among what is borrowed.
LEMMA SettingsBorrowed ==
    ASSUME NEW s \in Settings
    PROVE  DOMAIN s \subseteq Borrowed /\ \A f \in {"INTM", "DBGM"} : f \in DOMAIN s => s[f] \in {0, 1}
<1> DEFINE s1 == [WDDIS |-> 0, WDPS |-> 7, WDWCR |-> 3, WDENINT |-> 1, INTM |-> 0, DBGM |-> 0]
           s2 == [WDDIS |-> 0, WDPS |-> 7, WDWCR |-> 0, WDENINT |-> 0, INTM |-> 1, DBGM |-> 0]
           s3 == [TMR2CLKSRCSEL |-> 1, TMR2CLKPRESCALE |-> 2, TSS |-> 0, TIE |-> 1, PRD |-> 100, TPR |-> 9]
<1>1. s \in {s1, s2, s3}
  BY DEF Settings
<1>2. /\ DOMAIN s1 = {"WDDIS", "WDPS", "WDWCR", "WDENINT", "INTM", "DBGM"}
      /\ DOMAIN s2 = {"WDDIS", "WDPS", "WDWCR", "WDENINT", "INTM", "DBGM"}
      /\ DOMAIN s3 = {"TMR2CLKSRCSEL", "TMR2CLKPRESCALE", "TSS", "TIE", "PRD", "TPR"}
      /\ s1["INTM"] = 0 /\ s1["DBGM"] = 0 /\ s2["INTM"] = 1 /\ s2["DBGM"] = 0
  OBVIOUS
<1> HIDE DEF s1, s2, s3
<1>3. QED
  BY <1>1, <1>2, BorrowedFields

\* A program sets its watchdog, its masks or its timer.
LEMMA UserSettingKeeps == SystemInv /\ UserSetting => SystemInv'
<1> SUFFICES ASSUME SystemInv, UserSetting PROVE SystemInv'
  OBVIOUS
<1>1. PICK s \in Settings : reg' = [f \in Fields |-> IF f \in DOMAIN s THEN s[f] ELSE reg[f]]
  BY DEF UserSetting
<1>2. /\ todo = <<>> /\ run = <<>> /\ call = NoCall
      /\ UNCHANGED <<todo, call, run, device, topic, booted, eallow, clocked, gated, lost, locks, dead, halted,
                     failed, copied, adca1, flag>>
  BY DEF UserSetting, Idle, cpu, pll, pie
<1>3. PICK a \in Safe : Fits(a, eallow, reg) /\ Always \subseteq a
  BY <1>2, Idles
<1>4. \A f \in Fields \ Borrowed : reg'[f] = reg[f]
  BY <1>1, SettingsBorrowed
<1>5. PICK b \in Safe : b = Always
  BY AlwaysSafe
<1>6. Context' = Context /\ b \subseteq a
  BY <1>2, <1>3, <1>5 DEF Context
<1>7. Known(b, reg', Context)
  <2> DEFINE r == reg
             n == reg'
             x == Context
  <2>1. Known(a, r, x) /\ \A f \in Fields \ Borrowed : n[f] = r[f]
    BY <1>3, <1>4 DEF Fits
  <2> HIDE DEF r, n, x
  <2>2. Known(b, n, x)
    BY <1>3, <1>5, <2>1, AlwaysKnown
  <2>3. QED
    BY <2>2 DEF n, x
<1>8. Fits(b, eallow, reg)'
  <2>1. Around(b, eallow)'
    BY <1>2, <1>3, <1>6 DEF Fits, Around
  <2>2. QED
    BY <1>2, <1>6, <1>7, <2>1 DEF Fits, Known, KnownTrims
<1>9. Promised(call.name) = b
  <2>1. call.name = "" /\ "" \notin {"InitSysPll", "InitAuxPll"}
    BY <1>2 DEF NoCall
  <2>2. QED
    BY <1>5, <2>1, OtherPromise
<1>10. Runs(todo', b, Promised(call'.name), Context')
  <2>1. Runs(<<>>, b, b, Context)
    BY Skip
  <2>2. QED
    BY <1>2, <1>6, <1>9, <2>1
<1>11. ListInv' /\ RoutineInv'
  BY <1>2, <1>8, <1>10 DEF ListInv, RoutineInv
<1>12. RegsInv'
  <2>1. "INTM" \in Fields /\ "DBGM" \in Fields
    BY DEF Fields
  <2>2. {reg["INTM"], reg["DBGM"]} \subseteq {0, 1}
    BY DEF SystemInv, RegsInv
  <2>3. {reg'["INTM"], reg'["DBGM"]} \subseteq {0, 1}
    BY <1>1, <2>1, <2>2, SettingsBorrowed
  <2>4. reg' = [f \in Fields |-> reg'[f]]
    BY <1>1
  <2>5. QED
    BY <2>3, <2>4 DEF RegsInv
<1>13. PllInv'
  <2>1. "SYSDBGCTL" \in Fields \ Borrowed /\ "PLLCLKEN" \in Fields \ Borrowed
    BY BorrowedFields DEF Fields
  <2>2. reg'["SYSDBGCTL"] = reg["SYSDBGCTL"] /\ reg'["PLLCLKEN"] = reg["PLLCLKEN"]
    BY <1>4, <2>1
  <2>3. QED
    BY <1>2, <2>2 DEF SystemInv, PllInv
<1>14. Placed' /\ GatedInv' /\ LossInv' /\ flag' \subseteq Channels
  BY <1>2 DEF SystemInv, Placed, GatedInv, LossInv
<1>15. QED
  BY <1>11, <1>12, <1>13, <1>14 DEF SystemInv, Placed

\* A step of the hardware around the CPU.
LEMMA Undisturbed ==
    ASSUME SystemInv,
           UNCHANGED <<todo, call, booted, topic, device, run, reg, eallow, clocked, gated, copied, adca1>>,
           halted \/ "SYS" \in locks => halted' \/ "SYS" \in locks'
    PROVE  ListInv' /\ RoutineInv' /\ Placed' /\ RegsInv' /\ GatedInv'
<1>1. Context' = Context
  BY DEF Context
<1>2. ASSUME NEW a, NEW e, Around(a, e) PROVE Around(a, e)'
  BY <1>2 DEF Around
<1>3. ASSUME NEW a, Fits(a, eallow, reg) PROVE Fits(a, eallow, reg)'
  <2>1. Around(a, eallow)'
    BY <1>3 DEF Fits, Around
  <2>2. QED
    BY <1>1, <1>3, <2>1 DEF Fits, Known, KnownTrims
<1>4. ListInv'
  BY <1>1, <1>3 DEF SystemInv, ListInv
<1>5. ASSUME NEW a, Fits(a, run[3], [reg EXCEPT !["INTM"] = 0])
      PROVE  Fits(a, run[3], [reg EXCEPT !["INTM"] = 0])'
  <2>1. Around(a, run[3])'
    BY <1>5 DEF Fits, Around
  <2>2. QED
    BY <1>1, <1>5, <2>1 DEF Fits, Known, KnownTrims
<1>6. RoutineInv'
  BY <1>1, <1>5 DEF SystemInv, RoutineInv
<1>7. QED
  BY <1>4, <1>6 DEF SystemInv, Placed, RegsInv, GatedInv

\* A PLL locks.
LEMMA LockKeeps == SystemInv /\ Lock => SystemInv'
<1> SUFFICES ASSUME SystemInv, Lock PROVE SystemInv'
  OBVIOUS
<1>1. /\ locks \subseteq locks'
      /\ UNCHANGED <<todo, call, booted, topic, device, run, reg, eallow, clocked, gated, copied, adca1, flag,
                     lost, dead, halted, failed>>
  BY DEF Lock, cpu, write, pie
<1>2. ListInv' /\ RoutineInv' /\ Placed' /\ RegsInv' /\ GatedInv'
  BY <1>1, Undisturbed
<1>3. PllInv' /\ LossInv' /\ flag' \subseteq Channels
  BY <1>1 DEF SystemInv, PllInv, LossInv
<1>4. QED
  BY <1>2, <1>3 DEF SystemInv, Placed

\* A peripheral interrupts.
LEMMA RaiseKeeps == SystemInv /\ Raise => SystemInv'
<1> SUFFICES ASSUME SystemInv, Raise PROVE SystemInv'
  OBVIOUS
<1>1. UNCHANGED <<todo, call, booted, topic, device, run, reg, eallow, clocked, gated, copied, adca1,
                  locks, lost, dead, halted, failed>>
  BY DEF Raise, cpu, write, pll
<1>2. PICK c \in Raised[topic] : flag' = flag \cup {c}
  BY DEF Raise
<1>3. flag' \subseteq Channels
  <2>1. topic \in Topics \cup {"boot"} /\ flag \subseteq Channels
    BY DEF SystemInv
  <2>2. QED
    BY <1>2, <2>1, RaisedAssumption
<1>4. ListInv' /\ RoutineInv' /\ Placed' /\ RegsInv' /\ GatedInv'
  BY <1>1, Undisturbed
<1>5. PllInv' /\ LossInv'
  BY <1>1 DEF SystemInv, PllInv, LossInv
<1>6. QED
  BY <1>3, <1>4, <1>5 DEF SystemInv, Placed

\* A set of numbers has a smallest one.
LEMMA Least == ASSUME NEW S \in SUBSET Nat, S # {} PROVE \E x \in S : \A y \in S : x <= y
<1>1. \A y, z \in Nat : y < z => <<y, z>> \in OpToRel(<, Nat)
  BY Zenon DEF OpToRel
<1>2. \E R : IsWellFoundedOn(R, Nat) /\ \A y, z \in Nat : y < z => <<y, z>> \in R
  BY <1>1, NatLessThanWellFounded, Zenon
<1>3. PICK R : IsWellFoundedOn(R, Nat) /\ \A y, z \in Nat : y < z => <<y, z>> \in R
  BY <1>2
<1>4. IsWellFoundedOn(R, Nat) /\ S \subseteq Nat /\ S # {}
  BY <1>3
<1>5. PICK x \in S : \A y \in S : ~ (<<y, x>> \in R)
  BY <1>4, WFMin
<1>6. \A y \in S : ~ (y < x) /\ y \in Nat /\ x \in Nat
  BY <1>3, <1>5
<1>7. QED
  BY <1>6

\* The PIE chooses one of the channels that ask.
LEMMA LowestIn == ASSUME NEW S \in SUBSET Channels, S # {} PROVE Lowest(S) \in S
<1> DEFINE N == {16 * c[1] + c[2] : c \in S}
<1>1. \A c \in S : 16 * c[1] + c[2] \in Nat
  BY DEF Channels
<1>2. N \in SUBSET Nat /\ N # {}
  BY <1>1
<1>3. PICK x \in N : \A y \in N : x <= y
  BY <1>2, Least
<1>4. PICK c \in S : 16 * c[1] + c[2] = x
  BY <1>3
<1>5. \A d \in S : 16 * c[1] + c[2] <= 16 * d[1] + d[2]
  BY <1>3, <1>4
<1>6. QED
  BY <1>4, <1>5 DEF Lowest

\* The table that InitPieVectTable copies has the routine of every channel at its place.
LEMMA TableRight == ASSUME NEW c \in Channels PROVE Copied[PlaceOf(c)] = OwnRoutine(c)
<1>1. PICK g \in 1..12, k \in 1..16 : c = <<g, k>>
  BY DEF Channels
<1>2. c[1] = g /\ c[2] = k
  BY <1>1
<1>3. CASE k <= 8
  <2>1. PlaceOf(c) = 32 + 8 * (g - 1) + k - 1
    BY <1>2, <1>3 DEF PlaceOf
  <2>2. PlaceOf(c) \in 32..127
    BY <1>3, <2>1
  <2>3. /\ (PlaceOf(c) - 32) \div 8 = g - 1
        /\ (PlaceOf(c) - 32) % 8 = k - 1
    BY <1>3, <2>1
  <2>4. Place(PlaceOf(c)) = <<(g - 1) + 1, (k - 1) + 1>>
    BY <2>2, <2>3 DEF Place
  <2>5. Place(PlaceOf(c)) = c
    BY <1>1, <2>4
  <2>6. Copied[PlaceOf(c)] = PieVectTableInit[PlaceOf(c)]
    BY <2>2 DEF Copied
  <2>7. PieVectTableInit[PlaceOf(c)] = IF c \in Defined THEN c ELSE RESERVED
    BY <2>2, <2>5 DEF PieVectTableInit
  <2>8. QED
    BY <2>6, <2>7 DEF OwnRoutine
<1>4. CASE k > 8
  <2>1. PlaceOf(c) = 128 + 8 * (g - 1) + k - 9
    BY <1>2, <1>4 DEF PlaceOf
  <2>2. PlaceOf(c) \in 128..223
    BY <1>4, <2>1
  <2>3. /\ (PlaceOf(c) - 128) \div 8 = g - 1
        /\ (PlaceOf(c) - 128) % 8 = k - 9
    BY <1>4, <2>1
  <2>4. Place(PlaceOf(c)) = <<(g - 1) + 1, (k - 9) + 9>>
    BY <2>2, <2>3 DEF Place
  <2>5. Place(PlaceOf(c)) = c
    BY <1>1, <2>4
  <2>6. Copied[PlaceOf(c)] = PieVectTableInit[PlaceOf(c)]
    BY <2>2 DEF Copied
  <2>7. PieVectTableInit[PlaceOf(c)] = IF c \in Defined THEN c ELSE RESERVED
    BY <2>2, <2>5 DEF PieVectTableInit
  <2>8. QED
    BY <2>6, <2>7 DEF OwnRoutine
<1>5. QED
  BY <1>3, <1>4

\* adca1_isr() and the default routines are routines.
LEMMA RoutinesAre == InRoutine(adca1_isr) /\ InRoutine(<<Sleep("for(;;)")>>)
<1>1. /\ adca1_isr = <<Set({"Vbus"}, 1), Of(SPIB, {"SPIB_SPIDAT"}, 1), InAdc(AdcaRegs, "ADCAINTFLGCLR", 1),
                       [kind |-> "ack", groups |-> {1}], [kind |-> "iret"]>>
  BY AdcNames DEF adca1_isr
<1> DEFINE s1 == Set({"Vbus"}, 1)
           s2 == Of(SPIB, {"SPIB_SPIDAT"}, 1)
           s3 == InAdc(AdcaRegs, "ADCAINTFLGCLR", 1)
           s4 == [kind |-> "ack", groups |-> {1}]
           s5 == [kind |-> "iret"]
           s6 == Sleep("for(;;)")
           l == <<s1, s2, s3, s4, s5>>
<1>2. s1.kind = "reg" /\ s2.kind = "reg" /\ s3.kind = "reg" /\ s4.kind = "ack"
  BY DEF Set, Of, InAdc
<1>3. s5 \in Ends /\ s6 \in Ends
  BY DEF Ends
<1>4. adca1_isr = l
  BY <1>1
<1> HIDE DEF s1, s2, s3, s4, s5, s6
<1>5. s1 \notin Ends /\ s2 \notin Ends /\ s3 \notin Ends /\ s4 \notin Ends
  BY <1>2, EndsKinds
<1>6. Len(l) = 5 /\ l[1] = s1 /\ l[2] = s2 /\ l[3] = s3 /\ l[4] = s4 /\ l[5] = s5
  OBVIOUS
<1>7. RoutineStatements = {l[i] : i \in 1..Len(l)} \cup Ends
  BY <1>4 DEF RoutineStatements
<1>8. InRoutine(l)
  <2>1. {s1, s2, s3, s4, s5} \subseteq RoutineStatements
    <3> HIDE DEF l
    <3>1. {1, 2, 3, 4, 5} \subseteq 1..Len(l)
      BY <1>6
    <3>2. QED
      BY <1>6, <1>7, <3>1
  <2>2. l \in Seq(RoutineStatements)
    BY <2>1
  <2> HIDE DEF l
  <2>3. ASSUME NEW i \in 1..5 PROVE i = 5 <=> l[i] \in Ends
    <3>1. i \in {1, 2, 3, 4, 5}
      OBVIOUS
    <3>2. QED
      BY <1>3, <1>5, <1>6, <3>1
  <2>4. QED
    BY <1>6, <2>2, <2>3 DEF InRoutine
<1>9. InRoutine(<<s6>>)
  <2>1. s6 \in RoutineStatements
    BY <1>3, <1>7
  <2>2. <<s6>> \in Seq(RoutineStatements) /\ Len(<<s6>>) = 1 /\ <<s6>>[1] = s6
    BY <2>1
  <2>3. QED
    BY <1>3, <2>2 DEF InRoutine
<1>10. QED
  BY <1>4, <1>8, <1>9 DEF s6

\* The CPU enters a routine: everything a routine needs is known, since INTM is clear.
LEMMA TakeKeeps == SystemInv /\ Take => SystemInv'
<1> SUFFICES ASSUME SystemInv, Take PROVE SystemInv'
  OBVIOUS
<1>1. PICK c : c = Lowest(Pending)
  OBVIOUS
<1>2. /\ reg["INTM"] = 0 /\ Pending # {} /\ run = <<>> /\ ~dead
      /\ run' = <<c, Entry(c), eallow, todo>>
      /\ todo' = IF Entry(c) = ADCA1_ISR THEN adca1_isr ELSE <<Sleep("for(;;)")>>
      /\ flag' = flag \ {c}
      /\ reg' = [reg EXCEPT !["INTM"] = 1]
      /\ UNCHANGED <<device, topic, call, booted, clocked, gated, lost, locks, dead, halted, failed,
                     copied, adca1>>
  BY <1>1 DEF Take, pll
<1>3. Pending \subseteq flag /\ flag \subseteq Channels
  BY DEF Pending, SystemInv
<1>4. c \in flag /\ c \in Channels
  BY <1>1, <1>2, <1>3, LowestIn
<1>5. PICK a \in Safe : Fits(a, eallow, reg) /\ Runs(todo, a, Promised(call.name), Context)
  BY <1>2 DEF SystemInv, ListInv
<1>6. ForRoutine \subseteq a
  <2>1. "masked" \in a => reg["INTM"] = 1
    BY <1>5 DEF Fits, Known, KnownBorrowed
  <2>2. "masked" \notin a
    <3>1. reg["INTM"] = 0
      BY <1>2
    <3>2. QED
      BY <2>1, <3>1
  <2>3. "masked" \in a \/ ForRoutine \subseteq a
    BY DEF Safe
  <2>4. QED
    BY <2>2, <2>3
<1>7. Context' = Context
  BY <1>2 DEF Context
<1>8. adca1 = ADCA1_ISR /\ copied
  BY <1>5, <1>6 DEF Fits, Around, ForRoutine
<1>9. Entry(c) = IF c = ADCA1 THEN ADCA1_ISR ELSE OwnRoutine(c)
  <2>1. ADCA1_ISR # NONE
    BY DEF ADCA1_ISR, NONE
  <2>2. Copied[PlaceOf(c)] = OwnRoutine(c)
    BY <1>4, TableRight
  <2>3. QED
    BY <1>8, <2>1, <2>2 DEF Entry
<1>10. /\ run'[1] = c /\ run'[2] = Entry(c) /\ run'[3] = eallow /\ run'[4] = todo /\ run' # <<>>
  BY <1>2
<1>11. InRoutine(todo')
  BY <1>2, RoutinesAre
<1>12. /\ "INTM" \in Fields /\ "DBGM" \in Fields /\ "SYSDBGCTL" \in Fields /\ "PLLCLKEN" \in Fields
       /\ reg = [f \in Fields |-> reg[f]] /\ {reg["INTM"], reg["DBGM"]} \subseteq {0, 1}
  BY DEF SystemInv, RegsInv, Fields
<1>13. /\ [reg' EXCEPT !["INTM"] = 0] = reg /\ reg' = [f \in Fields |-> reg'[f]]
       /\ reg'["INTM"] = 1 /\ reg'["DBGM"] = reg["DBGM"] /\ reg'["SYSDBGCTL"] = reg["SYSDBGCTL"]
       /\ reg'["PLLCLKEN"] = reg["PLLCLKEN"]
  <2>1. DOMAIN reg = Fields
    BY <1>12
  <2>2. DOMAIN reg' = Fields /\ reg'["INTM"] = 1 /\ \A f \in Fields : f # "INTM" => reg'[f] = reg[f]
    BY <1>2, <1>12, <2>1
  <2>3. reg' = [f \in Fields |-> reg'[f]]
    BY <1>2, <1>12, <2>2
  <2>4. [reg' EXCEPT !["INTM"] = 0] = [f \in Fields |-> reg[f]]
    BY <1>2, <2>2, <2>3
  <2>5. QED
    BY <1>12, <2>2, <2>3, <2>4
<1>14. Fits(a, run[3], [reg EXCEPT !["INTM"] = 0])'
  <2>1. Around(a, eallow) /\ Known(a, reg, Context)
    BY <1>5 DEF Fits
  <2>2. Around(a, run[3])'
    BY <1>2, <1>6, <1>10, <2>1 DEF Around
  <2>3. Known(a, [reg EXCEPT !["INTM"] = 0], Context)'
    BY <1>2, <1>7, <1>13, <2>1 DEF Known, KnownTrims
  <2>4. QED
    BY <2>2, <2>3 DEF Fits
<1>15. Runs(run'[4], a, Promised(call'.name), Context')
  BY <1>2, <1>5, <1>7, <1>10
<1>16. RoutineInv'
  BY <1>6, <1>9, <1>10, <1>11, <1>14, <1>15 DEF RoutineInv
<1>17. ListInv'
  BY <1>10 DEF ListInv
<1>18. RegsInv'
  BY <1>12, <1>13 DEF RegsInv
<1>19. PllInv'
  BY <1>2, <1>13 DEF SystemInv, PllInv
<1>20. Placed' /\ GatedInv' /\ LossInv' /\ flag' \subseteq Channels
  BY <1>2 DEF SystemInv, Placed, GatedInv, LossInv
<1>21. QED
  BY <1>16, <1>17, <1>18, <1>19, <1>20 DEF SystemInv, Placed

\* It returns to the statements it interrupted.
LEMMA ReturnKeeps == SystemInv /\ Return => SystemInv'
<1> SUFFICES ASSUME SystemInv, Return PROVE SystemInv'
  OBVIOUS
<1>1. /\ todo # <<>> /\ Head(todo).kind = "iret"
      /\ todo' = run[4] /\ eallow' = run[3] /\ run' = <<>>
      /\ reg' = [reg EXCEPT !["INTM"] = 0]
      /\ UNCHANGED <<device, topic, call, booted, clocked, gated, lost, locks, dead, halted, failed,
                     copied, adca1, flag>>
  BY DEF Return, Statement, pll
<1>2. run # <<>>
  <2>1. ASSUME run = <<>> PROVE FALSE
    <3>1. PICK a, b \in Safe : Legal(Head(todo), a, b, Context)
      BY <1>1, <2>1, Executed DEF SystemInv
    <3>2. QED
      BY <1>1, <3>1 DEF Legal, Admits
  <2>2. QED
    BY <2>1
<1>3. PICK a \in Safe : /\ Fits(a, run[3], [reg EXCEPT !["INTM"] = 0])
                        /\ Runs(run[4], a, Promised(call.name), Context)
  BY <1>2 DEF SystemInv, RoutineInv
<1>4. Context' = Context
  BY <1>1 DEF Context
<1>5. Fits(a, eallow, reg)'
  <2>1. Around(a, run[3]) /\ Known(a, [reg EXCEPT !["INTM"] = 0], Context)
    BY <1>3 DEF Fits
  <2>2. Around(a, eallow)'
    BY <1>1, <2>1 DEF Around
  <2>3. QED
    BY <1>1, <1>4, <2>1, <2>2 DEF Fits, Known, KnownTrims
<1>6. ListInv' /\ RoutineInv'
  BY <1>1, <1>3, <1>4, <1>5 DEF ListInv, RoutineInv
<1>7. /\ "INTM" \in Fields /\ "DBGM" \in Fields /\ "SYSDBGCTL" \in Fields /\ "PLLCLKEN" \in Fields
      /\ reg = [f \in Fields |-> reg[f]] /\ {reg["INTM"], reg["DBGM"]} \subseteq {0, 1}
  BY DEF SystemInv, RegsInv, Fields
<1>8. DOMAIN reg' = Fields /\ reg'["INTM"] = 0 /\ \A f \in Fields : f # "INTM" => reg'[f] = reg[f]
  <2>1. DOMAIN reg = Fields
    BY <1>7
  <2>2. QED
    BY <1>1, <1>7, <2>1
<1>9. RegsInv'
  <2>1. reg' = [f \in Fields |-> reg'[f]]
    BY <1>1, <1>7, <1>8
  <2>2. {reg'["INTM"], reg'["DBGM"]} \subseteq {0, 1}
    BY <1>7, <1>8
  <2>3. QED
    BY <2>1, <2>2 DEF RegsInv
<1>10. PllInv'
  BY <1>1, <1>7, <1>8 DEF SystemInv, PllInv
<1>11. Placed' /\ GatedInv' /\ LossInv' /\ flag' \subseteq Channels
  BY <1>1 DEF SystemInv, Placed, GatedInv, LossInv
<1>12. QED
  BY <1>6, <1>9, <1>10, <1>11 DEF SystemInv, Placed

\* Every step keeps the invariant.
LEMMA NextKeeps == SystemInv /\ [Next]_vars => SystemInv'
<1> SUFFICES ASSUME SystemInv, [Next]_vars PROVE SystemInv'
  OBVIOUS
<1>1. ASSUME Step PROVE SystemInv'
  BY <1>1, ProtectKeeps, WriteRegKeeps, GateClocksKeeps, WritePinKeeps, WriteDataKeeps, EnterKeeps,
     WaitLockKeeps, SeizePumpKeeps, WritePieKeeps, WriteVectorsKeeps, LoopKeeps DEF Step
<1>2. CASE UNCHANGED vars
  <2>1. UNCHANGED <<device, topic, todo, call, booted, eallow, reg, clocked, gated, lost, locks, dead,
                    halted, failed, copied, adca1, flag, run>>
    BY <1>2 DEF vars, cpu, write, pll, pie
  <2>2. ListInv' /\ RoutineInv' /\ Placed' /\ RegsInv' /\ GatedInv'
    BY <2>1, Undisturbed
  <2>3. PllInv' /\ LossInv' /\ flag' \subseteq Channels
    BY <2>1 DEF SystemInv, PllInv, LossInv
  <2>4. QED
    BY <2>2, <2>3 DEF SystemInv, Placed
<1>3. QED
  BY <1>1, <1>2, WakeKeeps, ResetsKeep, LockKeeps, RaiseKeeps, TakeKeeps, ReturnKeeps,
     UserCallKeeps, UserSettingKeeps DEF Next

\* What is left to execute always has an outline that leads to what its function promises.
THEOREM SystemInvAlways == Spec => []SystemInv
<1>1. QED
  BY InitHolds, NextKeeps, PTL DEF Spec
------------------------------------------------------------------------------
(* The properties *)

\* No write to a protected register is ever lost, and none to a peripheral either, with the calls of
\* a topic in any order and interrupts between any two of their statements.  Two exceptions: a
\* program that calls DisablePeripheralClocks() or HIB() loses what it writes to peripherals while
\* the clocks are off; and InitSysCtrl() on a part with unbonded pins loses protected writes.
THEOREM WritesLandAlways == Spec => []WritesLand
<1>1. SystemInv => WritesLand
  BY DEF SystemInv, LossInv, WritesLand
<1>2. QED
  BY <1>1, SystemInvAlways, PTL

\* InitSysPll and InitAuxPll return the settings that they borrow.
THEOREM BorrowedReturnedAlways == Spec => []BorrowedReturned
<1>1. SystemInv => BorrowedReturned
  <2> SUFFICES ASSUME SystemInv, todo = <<>>, run = <<>>, call.name \in {"InitSysPll", "InitAuxPll"},
                      NEW f \in Borrowed
               PROVE  reg[f] = call.before[f]
    BY DEF BorrowedReturned
  <2>1. PICK a \in Safe : Fits(a, eallow, reg) /\ Runs(todo, a, Promised(call.name), Context)
    BY DEF SystemInv, ListInv
  <2>2. Promised(call.name) \subseteq a
    BY <2>1, Empty
  <2>3. f \in Promised(call.name)
    BY DEF Promised, When
  <2>4. KnownBorrowed(a, reg, Context)
    BY <2>1 DEF Fits, Known
  <2>5. reg[f] = Context.before[f]
    BY <2>2, <2>3, <2>4 DEF KnownBorrowed
  <2>6. QED
    BY <2>5 DEF Context
<1>2. QED
  BY <1>1, SystemInvAlways, PTL

\* After the watchdog's reset for a dead PLL the program can tell.
THEOREM PllFailureKnownAlways == Spec => []PllFailureKnown
<1>1. SystemInv => PllFailureKnown
  BY DEF SystemInv, PllInv, PllFailureKnown
<1>2. QED
  BY <1>1, SystemInvAlways, PTL

\* An interrupt runs the routine of its own channel, and never while the PLL takes over.
THEOREM RightRoutineAlways == Spec => []RightRoutine
<1>1. SystemInv => RightRoutine
  <2> SUFFICES ASSUME SystemInv, run # <<>>
               PROVE  /\ run[2] = (IF run[1] = ADCA1 THEN ADCA1_ISR ELSE OwnRoutine(run[1]))
                      /\ reg["SYSDBGCTL"] = 0
    BY DEF RightRoutine
  <2>1. PICK a \in Safe : ForRoutine \subseteq a /\ Fits(a, run[3], [reg EXCEPT !["INTM"] = 0])
    BY DEF SystemInv, RoutineInv
  <2>2. "clear" \in a
    BY <2>1 DEF ForRoutine
  <2>3. [reg EXCEPT !["INTM"] = 0]["SYSDBGCTL"] = 0
    BY <2>1, <2>2 DEF Fits, Known, KnownPll
  <2>4. "SYSDBGCTL" \in Fields /\ "INTM" \in Fields /\ reg = [f \in Fields |-> reg[f]]
    BY DEF SystemInv, RegsInv, Fields
  <2>5. "SYSDBGCTL" \in DOMAIN reg
    BY <2>4
  <2>6. reg["SYSDBGCTL"] = 0
    BY <2>3, <2>5
  <2>7. QED
    BY <2>6 DEF SystemInv, RoutineInv
<1>2. QED
  BY <1>1, SystemInvAlways, PTL

\* When AdcSetMode is done the trims of the ADC are those of its mode.
THEOREM TrimsMatchModeAlways == Spec => []TrimsMatchMode
<1>1. SystemInv => TrimsMatchMode
  <2> SUFFICES ASSUME SystemInv, todo = <<>>
               PROVE  Matched(reg, device.otp)
    BY DEF TrimsMatchMode, Matched
  <2>1. run = <<>>
    BY RoutineHead DEF SystemInv, RoutineInv
  <2>2. PICK a \in Safe : Fits(a, eallow, reg) /\ Always \subseteq a
    BY <2>1, Idles
  <2>3. "matched" \in a
    BY <2>2, AlwaysSafe
  <2>4. Matched(reg, Context.device.otp)
    BY <2>2, <2>3 DEF Fits, Known, KnownTrims, WrittenTrims
  <2>5. QED
    BY <2>4 DEF Context
<1>2. QED
  BY <1>1, SystemInvAlways, PTL

\* Only a write switches the CPU to the PLL.
LEMMA Switches ==
    ASSUME SystemInv, [Next]_vars, reg["PLLCLKEN"] = 0, reg'["PLLCLKEN"] = 1
    PROVE  WriteReg
<1>1. "PLLCLKEN" \in Fields /\ "PLLCLKEN" \notin Borrowed /\ reg = [f \in Fields |-> reg[f]]
  BY BorrowedFields DEF Fields, SystemInv, RegsInv
<1>2. "PLLCLKEN" \in DOMAIN reg
  BY <1>1
<1>3. ASSUME NEW c, NEW f, Restart(c, f) PROVE FALSE
  <2>1. reg' = [AfterReset EXCEPT !["SYSDBGCTL"] = c]
    BY <1>3 DEF Restart
  <2>2. reg'["PLLCLKEN"] = 0
    BY <2>1, AfreshKnown
  <2>3. QED
    BY <2>2
<1>4. ~WakeFromHib /\ ~WatchdogReset /\ ~ExternalReset
  BY <1>3 DEF WakeFromHib, WatchdogReset, ExternalReset
<1>5. ~UserSetting
  <2>1. ASSUME NEW s \in Settings, reg' = [f \in Fields |-> IF f \in DOMAIN s THEN s[f] ELSE reg[f]]
        PROVE  FALSE
    BY <1>1, <2>1, SettingsBorrowed
  <2>2. QED
    BY <2>1 DEF UserSetting
<1>6. ~SeizePump /\ ~Take /\ ~Return
  <2>1. ASSUME NEW v, NEW f, f # "PLLCLKEN", reg' = [reg EXCEPT ![f] = v] PROVE FALSE
    BY <1>2, <2>1
  <2>2. QED
    BY <2>1 DEF SeizePump, Take, Return
<1>7. reg' # reg
  OBVIOUS
<1>8. ~Protect /\ ~GateClocks /\ ~WritePin /\ ~WriteData /\ ~Enter /\ ~WaitLock /\ ~WritePie
      /\ ~WriteVectors /\ ~Loop
  BY <1>7 DEF Protect, GateClocks, WritePin, WriteData, Enter, WaitLock, WritePie, WriteVectors, Loop, write
<1>9. ~Wake /\ ~Lock /\ ~Raise /\ ~UserCall /\ ~UNCHANGED vars
  BY <1>7 DEF Wake, Lock, Raise, UserCall, vars, write
<1>10. QED
  BY <1>4, <1>5, <1>6, <1>8, <1>9 DEF Next, Step

\* The CPU runs from the PLL only when it is on and has locked, or after HALT(), and it is switched
\* over at a divider that is slower than the one asked for.
THEOREM PllFeedsAlways == Spec => PllFeeds
<1> DEFINE Feeds == /\ reg'["PLLCLKEN"] = 1 /\ ~halted' => "SYS" \in locks'
                    /\ reg["PLLCLKEN"] = 0 /\ reg'["PLLCLKEN"] = 1 =>
                         reg["PLLSYSCLKDIV"] = Slower(IF booted THEN call.div ELSE 1)
<1>1. SystemInv /\ SystemInv' /\ [Next]_vars => [Feeds]_vars
  <2> SUFFICES ASSUME SystemInv, SystemInv', [Next]_vars PROVE Feeds
    OBVIOUS
  <2>1. reg'["PLLCLKEN"] = 1 /\ ~halted' => "SYS" \in locks'
    BY DEF SystemInv, PllInv
  <2>2. ASSUME reg["PLLCLKEN"] = 0, reg'["PLLCLKEN"] = 1
        PROVE  reg["PLLSYSCLKDIV"] = Slower(IF booted THEN call.div ELSE 1)
    <3> DEFINE s == Head(todo)
               K == s.keys
    <3>1. WriteReg
      BY <2>2, Switches
    <3>2. /\ todo # <<>> /\ s.kind = "reg"
          /\ Effective(s) => Written(K, s.val)
          /\ ~Effective(s) => Written({}, s.val)
      BY <3>1, WriteMeans
    <3> HIDE DEF s
    <3>3. "PLLCLKEN" \in Fields
      BY DEF Fields
    <3>4. "PLLCLKEN" \in K /\ s.val = 1
      <4>1. ASSUME Written({}, s.val) PROVE FALSE
        BY <2>2, <3>3, <4>1 DEF Written
      <4>2. Written(K, s.val)
        BY <3>2, <4>1
      <4>3. QED
        BY <2>2, <3>3, <4>2 DEF Written
    <3>5. run = <<>>
      <4>1. ASSUME run # <<>> PROVE FALSE
        <5>1. s \in RoutineStatements
          BY <4>1, RoutineHead DEF SystemInv, RoutineInv, s
        <5>2. K \in {{"Vbus"}, {"SPIB_SPIDAT"}, {"ADCAINTFLGCLR"}}
          BY <3>2, <5>1, RoutineKinds
        <5>3. QED
          BY <3>4, <5>2
      <4>2. QED
        BY <4>1
    <3>6. PICK a, b \in Safe : Fits(a, eallow, reg) /\ Legal(s, a, b, Context)
      BY <3>2, <3>5, Executed DEF SystemInv, s
    <3>7. AdmitsWrite(K, s.val, s.unit, a, Context)
      BY <3>2, <3>6 DEF Legal, Admits
    <3>8. "slow" \in a
      BY <3>4, <3>7 DEF AdmitsWrite, Clocked
    <3>9. reg["PLLSYSCLKDIV"] = Slower(Context.div)
      BY <3>6, <3>8 DEF Fits, Known, KnownPll
    <3>10. Context.div = IF booted THEN call.div ELSE 1
      BY DEF Context
    <3>11. QED
      BY <3>9, <3>10
  <2>3. QED
    BY <2>1, <2>2
<1>2. QED
  BY <1>1, SystemInvAlways, PTL DEF Spec, PllFeeds
------------------------------------------------------------------------------
(* The pins *)

\* No statement of the list writes one of the fields of one of the pins.
Untouched(l, fields, pins) ==
  /\ IsList(l)
  /\ \A i \in 1..Len(l) : \A p \in pins : ~Writes(l[i], fields, p)

\* Nor does the statement s.
Passes(s, fields, pins) == \A p \in pins : ~Writes(s, fields, p)

\* Lists that are made of such statements, one by one and joined.
LEMMA TouchMade ==
    ASSUME NEW S, NEW l \in Seq(S), NEW fields, NEW pins, \A s \in S : Passes(s, fields, pins)
    PROVE  Untouched(l, fields, pins)
<1>1. IsList(l)
  BY ListOf
<1>2. \A i \in 1..Len(l) : l[i] \in S
  OBVIOUS
<1>3. QED
  BY <1>1, <1>2 DEF Untouched, Passes

\* A list of one such statement.
LEMMA Touch1 ==
    ASSUME NEW s1, NEW fields, NEW pins, Passes(s1, fields, pins)
    PROVE  Untouched(<<s1>>, fields, pins)
<1> DEFINE l == <<s1>>
           S == {s1}
<1>1. l \in Seq(S) /\ \A s \in S : Passes(s, fields, pins)
  OBVIOUS
<1> HIDE DEF l, S
<1>2. Untouched(l, fields, pins)
  BY <1>1, TouchMade
<1>3. QED
  BY <1>2 DEF l

\* The empty list touches nothing.
LEMMA TouchNone == ASSUME NEW fields, NEW pins PROVE Untouched(<<>>, fields, pins)
BY EmptyList DEF Untouched

\* Two such lists joined.
LEMMA TouchJoined ==
    ASSUME NEW l, NEW m, NEW fields, NEW pins, Untouched(l, fields, pins), Untouched(m, fields, pins)
    PROVE  Untouched(l \o m, fields, pins)
<1>1. IsList(l) /\ IsList(m) /\ Len(l) \in Nat /\ Len(m) \in Nat
  BY ListLen DEF Untouched
<1>2. /\ IsList(l \o m) /\ Len(l \o m) = Len(l) + Len(m)
      /\ \A i \in 1..Len(l) : (l \o m)[i] = l[i]
      /\ \A i \in 1..Len(m) : (l \o m)[Len(l) + i] = m[i]
  BY <1>1, Joined
<1>3. ASSUME NEW i \in 1..Len(l \o m), NEW p \in pins PROVE ~Writes((l \o m)[i], fields, p)
  <2>1. CASE i <= Len(l)
    <3>1. i \in 1..Len(l)
      BY <1>1, <1>2, <2>1
    <3>2. (l \o m)[i] = l[i]
      BY <1>2, <3>1
    <3>3. QED
      BY <3>1, <3>2 DEF Untouched
  <2>2. CASE i > Len(l)
    <3>1. i - Len(l) \in 1..Len(m) /\ Len(l) + (i - Len(l)) = i
      BY <1>1, <1>2, <2>2
    <3>2. (l \o m)[i] = m[i - Len(l)]
      BY <1>2, <3>1
    <3>3. QED
      BY <3>1, <3>2 DEF Untouched
  <2>3. QED
    BY <1>1, <1>2, <2>1, <2>2
<1>4. QED
  BY <1>2, <1>3 DEF Untouched

\* A list of two such statements.
LEMMA Touch2 ==
    ASSUME NEW s1, NEW s2, NEW fields, NEW pins,
           Passes(s1, fields, pins), Passes(s2, fields, pins)
    PROVE  Untouched(<<s1, s2>>, fields, pins)
<1> DEFINE l == <<s1, s2>>
           S == {s1, s2}
<1>1. l \in Seq(S) /\ \A s \in S : Passes(s, fields, pins)
  OBVIOUS
<1> HIDE DEF l, S
<1>2. Untouched(l, fields, pins)
  BY <1>1, TouchMade
<1>3. QED
  BY <1>2 DEF l

\* A list of three such statements.
LEMMA Touch3 ==
    ASSUME NEW s1, NEW s2, NEW s3, NEW fields, NEW pins,
           Passes(s1, fields, pins), Passes(s2, fields, pins), Passes(s3, fields, pins)
    PROVE  Untouched(<<s1, s2, s3>>, fields, pins)
<1> DEFINE l == <<s1, s2, s3>>
           S == {s1, s2, s3}
<1>1. l \in Seq(S) /\ \A s \in S : Passes(s, fields, pins)
  OBVIOUS
<1> HIDE DEF l, S
<1>2. Untouched(l, fields, pins)
  BY <1>1, TouchMade
<1>3. QED
  BY <1>2 DEF l

\* A list of four such statements.
LEMMA Touch4 ==
    ASSUME NEW s1, NEW s2, NEW s3, NEW s4, NEW fields, NEW pins,
           Passes(s1, fields, pins), Passes(s2, fields, pins), Passes(s3, fields, pins),
           Passes(s4, fields, pins)
    PROVE  Untouched(<<s1, s2, s3, s4>>, fields, pins)
<1> DEFINE l == <<s1, s2, s3, s4>>
           S == {s1, s2, s3, s4}
<1>1. l \in Seq(S) /\ \A s \in S : Passes(s, fields, pins)
  OBVIOUS
<1> HIDE DEF l, S
<1>2. Untouched(l, fields, pins)
  BY <1>1, TouchMade
<1>3. QED
  BY <1>2 DEF l

\* A list of five such statements.
LEMMA Touch5 ==
    ASSUME NEW s1, NEW s2, NEW s3, NEW s4, NEW s5, NEW fields, NEW pins,
           Passes(s1, fields, pins), Passes(s2, fields, pins), Passes(s3, fields, pins),
           Passes(s4, fields, pins), Passes(s5, fields, pins)
    PROVE  Untouched(<<s1, s2, s3, s4, s5>>, fields, pins)
<1> DEFINE l == <<s1, s2, s3, s4, s5>>
           S == {s1, s2, s3, s4, s5}
<1>1. l \in Seq(S) /\ \A s \in S : Passes(s, fields, pins)
  OBVIOUS
<1> HIDE DEF l, S
<1>2. Untouched(l, fields, pins)
  BY <1>1, TouchMade
<1>3. QED
  BY <1>2 DEF l

\* A list of six such statements.
LEMMA Touch6 ==
    ASSUME NEW s1, NEW s2, NEW s3, NEW s4, NEW s5, NEW s6, NEW fields, NEW pins,
           Passes(s1, fields, pins), Passes(s2, fields, pins), Passes(s3, fields, pins),
           Passes(s4, fields, pins), Passes(s5, fields, pins), Passes(s6, fields, pins)
    PROVE  Untouched(<<s1, s2, s3, s4, s5, s6>>, fields, pins)
<1> DEFINE l == <<s1, s2, s3, s4, s5, s6>>
           S == {s1, s2, s3, s4, s5, s6}
<1>1. l \in Seq(S) /\ \A s \in S : Passes(s, fields, pins)
  OBVIOUS
<1> HIDE DEF l, S
<1>2. Untouched(l, fields, pins)
  BY <1>1, TouchMade
<1>3. QED
  BY <1>2 DEF l

\* A list of seven such statements.
LEMMA Touch7 ==
    ASSUME NEW s1, NEW s2, NEW s3, NEW s4, NEW s5, NEW s6, NEW s7, NEW fields, NEW pins,
           Passes(s1, fields, pins), Passes(s2, fields, pins), Passes(s3, fields, pins),
           Passes(s4, fields, pins), Passes(s5, fields, pins), Passes(s6, fields, pins),
           Passes(s7, fields, pins)
    PROVE  Untouched(<<s1, s2, s3, s4, s5, s6, s7>>, fields, pins)
<1> DEFINE l == <<s1, s2, s3, s4, s5, s6, s7>>
           S == {s1, s2, s3, s4, s5, s6, s7}
<1>1. l \in Seq(S) /\ \A s \in S : Passes(s, fields, pins)
  OBVIOUS
<1> HIDE DEF l, S
<1>2. Untouched(l, fields, pins)
  BY <1>1, TouchMade
<1>3. QED
  BY <1>2 DEF l

\* Fewer fields and fewer pins are not touched either.
LEMMA TouchLess ==
    ASSUME NEW l, NEW fields, NEW pins, NEW F, NEW P, Untouched(l, fields, pins),
           F \subseteq fields, P \subseteq pins
    PROVE  Untouched(l, F, P)
BY DEF Untouched, Writes

\* A loop that executes such a list again and again.
LEMMA TouchAmong ==
    ASSUME NEW l, NEW n \in Nat, NEW T, NEW fields, NEW pins, Untouched(l, fields, pins),
           T = Times(n, l), Len(l) > 0
    PROVE  Untouched(T, fields, pins)
<1> DEFINE at(i) == ((i - 1) % Len(l)) + 1
           S == {l[k] : k \in 1..Len(l)}
           N == n * Len(l)
<1>1. Len(l) \in Nat /\ N \in Nat
  BY ListLen DEF Untouched
<1>2. T = [i \in 1..N |-> l[at(i)]]
  BY DEF Times
<1>3. ASSUME NEW i \in 1..N PROVE at(i) \in 1..Len(l)
  <2>1. \A m \in Nat, q \in Nat \ {0} : m % q \in 0..q - 1
    OBVIOUS
  <2>2. i - 1 \in Nat /\ Len(l) \in Nat \ {0}
    BY <1>1
  <2>3. (i - 1) % Len(l) \in 0..Len(l) - 1
    BY <2>1, <2>2
  <2>4. QED
    BY <1>1, <2>3
<1>4. T \in [1..N -> S]
  BY <1>2, <1>3
<1>5. T \in Seq(S) /\ Len(T) = N
  <2>1. ASSUME NEW R, NEW U, NEW m \in Nat, U \in [1..m -> R] PROVE U \in Seq(R) /\ Len(U) = m
    BY <2>1
  <2> HIDE DEF N, S
  <2>2. QED
    BY <1>1, <1>4, <2>1
<1>6. \A i \in 1..N : T[i] = l[at(i)]
  BY <1>2
<1> HIDE DEF at, N
<1>7. QED
  BY <1>3, <1>5, <1>6, ListOf DEF Untouched

\* Only writes to pins touch pins.
LEMMA Pass ==
    ASSUME NEW fields, NEW pins
    PROVE  /\ \A u, K, v : Passes(Of(u, K, v), fields, pins)
           /\ \A K, v : Passes(Set(K, v), fields, pins)
           /\ \A x, f, v : Passes(InAdc(x, f, v), fields, pins)
           /\ \A K, on : Passes(Gate(K, on), fields, pins)
           /\ \A n : Passes(Call(n), fields, pins)
           /\ \A w : Passes(Await(w), fields, pins)
           /\ \A m : Passes(Sleep(m), fields, pins)
           /\ Passes(EALLOW, fields, pins) /\ Passes(EDIS, fields, pins)
<1>1. \A s : s.kind # "pin" => Passes(s, fields, pins)
  BY DEF Passes, Writes
<1>2. /\ \A u, K, v : Of(u, K, v).kind # "pin"
      /\ \A K, on : Gate(K, on).kind # "pin"
      /\ \A n : Call(n).kind # "pin"
      /\ \A w : Await(w).kind # "pin"
      /\ \A m : Sleep(m).kind # "pin"
      /\ EALLOW.kind # "pin" /\ EDIS.kind # "pin"
  BY DEF Of, Gate, Call, Await, Sleep, EALLOW, EDIS
<1>3. \A u, K, v : Passes(Of(u, K, v), fields, pins)
  BY <1>1, <1>2
<1>4. QED
  BY <1>1, <1>2, <1>3 DEF Set, InAdc

\* A write to pins passes other fields and other pins.
LEMMA PassPin ==
    ASSUME NEW fields, NEW pins, NEW P, NEW f, NEW v, f \notin fields \/ P \cap pins = {}
    PROVE  Passes(Pin(P, f, v), fields, pins)
<1>1. Pin(P, f, v).field = f /\ Pin(P, f, v).keys = P \cap Pins
  BY DEF Pin
<1>2. QED
  BY <1>1 DEF Passes, Writes

\* Such a list between EALLOW and EDIS.
LEMMA TouchProtected ==
    ASSUME NEW l, NEW fields, NEW pins, Untouched(l, fields, pins)
    PROVE  Untouched(Protected(l), fields, pins)
BY Touch1, TouchJoined, Pass DEF Protected

\* Such a list under a condition.
LEMMA TouchIf ==
    ASSUME NEW l, NEW fields, NEW pins, NEW b, b => Untouched(l, fields, pins)
    PROVE  Untouched(If(b, l), fields, pins)
BY TouchNone DEF If

\* The set-up of the PLLs.
LEMMA TouchPlls ==
    ASSUME NEW fields, NEW pins, NEW r, NEW source, NEW mult, NEW div, NEW n \in 1..6
    PROVE  /\ Untouched(InitSysPll(r, source, mult, div), fields, pins)
           /\ Untouched(InitAuxPll(r, source, mult, div, n), fields, pins)
<1> DEFINE U(l) == Untouched(l, fields, pins)
<1> HIDE DEF U
<1>1. \A l, m : U(l) /\ U(m) => U(l \o m)
  BY TouchJoined DEF U
<1>2. (\A l : U(l) => U(Protected(l))) /\ (\A l, b : U(l) => U(If(b, l))) /\ U(<<>>)
  BY TouchProtected, TouchIf, TouchNone DEF U
<1>3. /\ \A K, v : U(<<Set(K, v)>>)
      /\ \A K, v, L, w : U(<<Set(K, v), Set(L, w)>>)
      /\ U(<<EALLOW>>) /\ \A m : U(<<Sleep(m)>>)
  BY Pass, Touch1, Touch2 DEF U
<1>4. U(SysIntOsc2Sel) /\ U(SysXtalOscSel) /\ U(SysIntOsc1Sel)
      /\ U(AuxIntOsc2Sel) /\ U(AuxXtalOscSel) /\ U(AuxAuxClkSel)
  BY <1>2, <1>3 DEF SysIntOsc2Sel, SysXtalOscSel, SysIntOsc1Sel, AuxIntOsc2Sel, AuxXtalOscSel, AuxAuxClkSel
<1>5. U(Relock(mult))
  <2> DEFINE l == <<Set({"PLLEN"}, 0), Set({"SYSPLLMULT"}, mult), Await("LOCKS")>>
  <2>1. U(l)
    BY Pass, Touch3 DEF U
  <2>2. Len(l) > 0
    OBVIOUS
  <2> HIDE DEF l
  <2>3. U(Times(5, l))
    BY <2>1, <2>2, TouchAmong DEF U
  <2>4. QED
    BY <1>1, <1>3, <2>3 DEF Relock, l
<1>6. U(Watch) /\ U(TakeOver)
  BY Pass, Touch3, Touch6 DEF Watch, TakeOver, U
<1>7. U(Restore(r))
  <2>1. U(<<Set({"WDKEY"}, 0), Set({"WDDIS"}, r["WDDIS"]), Set({"WDPS"}, r["WDPS"]),
            Set({"WDWCR"}, r["WDWCR"]), Set({"WDENINT"}, r["WDENINT"])>>)
    BY Pass, Touch5 DEF U
  <2>2. QED
    BY <1>1, <1>2, <1>3, <2>1 DEF Restore
<1>8. U(Select(source, r["OSCCLKSRCSEL"]))
  <2>1. U(CASE source = 0 -> SysIntOsc2Sel [] source = 1 -> SysXtalOscSel
            [] source = 2 -> SysIntOsc1Sel [] OTHER -> <<>>)
    BY <1>2, <1>4
  <2>2. QED
    BY <1>2, <2>1 DEF Select
<1>9. U(InitSysPll(r, source, mult, div))
  <2>1. U(<<Set({"PLLSYSCLKDIV"}, div), EDIS>>)
    BY Pass, Touch2 DEF U
  <2>2. U(If(mult # r["SYSPLLMULT"], Relock(mult)))
    BY <1>2, <1>5
  <2>3. U(Select(source, r["OSCCLKSRCSEL"]) \o <<EALLOW>> \o If(mult # r["SYSPLLMULT"], Relock(mult))
            \o <<Set({"PLLSYSCLKDIV"}, Slower(div))>>)
    BY <1>1, <1>3, <1>8, <2>2
  <2>4. U(Select(source, r["OSCCLKSRCSEL"]) \o <<EALLOW>> \o If(mult # r["SYSPLLMULT"], Relock(mult))
            \o <<Set({"PLLSYSCLKDIV"}, Slower(div))>> \o Watch \o TakeOver \o Restore(r)
            \o <<Set({"PLLSYSCLKDIV"}, div), EDIS>>)
    BY <1>1, <1>6, <1>7, <2>1, <2>3
  <2>5. QED
    BY <1>2, <2>4 DEF InitSysPll
<1>10. \A m \in 1..5 : U(Times(m, AuxAttempt))
  <2>1. U(AuxAttempt)
    <3> DEFINE S == {EALLOW, EDIS, Await("AUXLOCKS"), Set({"AUXPLLEN"}, 0), Set({"AUXPLLMULT"}, 8),
                     Set({"AUXPLLEN"}, 1), Set({"AUXPLLCLKEN"}, 1), Set({"TSS"}, 0), Set({"TSS"}, 1)}
    <3>1. \A s \in S : Passes(s, fields, pins)
      BY Pass
    <3>2. AuxAttempt \in Seq(S)
      BY DEF AuxAttempt
    <3> HIDE DEF S
    <3>3. QED
      BY <3>1, <3>2, TouchMade DEF U
  <2>2. Len(AuxAttempt) > 0
    BY DEF AuxAttempt
  <2>3. QED
    BY <2>1, <2>2, TouchAmong DEF U
<1>11. U(InitAuxPll(r, source, mult, div, n))
  <2> DEFINE begin == Protected(<<Set({"TMR2CLKSRCSEL"}, 6), Set({"TMR2CLKPRESCALE"}, 0), Set({"TSS"}, 1),
                                  Set({"PRD"}, 10), Set({"TPR"}, 0), Set({"TIE"}, 0),
                                  Set({"AUXPLLDIV"}, 3)>>)
             select == CASE source = 0 -> AuxIntOsc2Sel
                         [] source = 1 -> AuxXtalOscSel
                         [] source = 2 -> AuxAuxClkSel
                         [] OTHER -> <<>>
             attempts == Times(IF n <= 5 THEN n ELSE 5, AuxAttempt)
             fail == If(n > 5, Protected(<<Set({"AUXPLLMULT"}, 0)>>) \o <<Sleep("ESTOP0")>>)
             end == Protected(<<Set({"AUXPLLDIV"}, div)>> \o RestoreTimer(r))
  <2>1. U(begin) /\ U(end)
    <3>1. U(begin)
      BY Pass, Touch7, TouchProtected DEF U
    <3>2. U(RestoreTimer(r))
      BY Pass, Touch6 DEF RestoreTimer, U
    <3>3. U(<<Set({"AUXPLLDIV"}, div)>>)
      BY <1>3
    <3> HIDE DEF begin
    <3>4. QED
      BY <1>1, <1>2, <3>1, <3>2, <3>3
  <2>2. U(select)
    BY <1>2, <1>4
  <2>3. U(attempts)
    BY <1>10
  <2>4. U(fail)
    BY <1>1, <1>2, <1>3
  <2> HIDE DEF begin, end, select, attempts, fail
  <2>5. U(select \o begin \o attempts \o fail \o end)
    BY <1>1, <2>1, <2>2, <2>3, <2>4
  <2>6. QED
    BY <1>2, <2>5 DEF InitAuxPll, begin, end, select, attempts, fail
<1>12. QED
  BY <1>9, <1>11 DEF U

\* The other functions that configure no pins.
LEMMA TouchOthers ==
    ASSUME NEW fields, NEW pins
    PROVE  /\ \A list \in {IDLE, STANDBY, HALT, ServiceDog, DisableDog,
                           SysIntOsc1Sel, SysIntOsc2Sel, SysXtalOscSel} : Untouched(list, fields, pins)
           /\ \A list \in {InitFlash_Bank0, InitFlash_Bank1, FlashOff_Bank0, FlashOff_Bank1,
                           SeizeFlashPump_Bank0, SeizeFlashPump_Bank1, ReleaseFlashPump, CsmUnlock, HIB,
                           InitSpi, InitPeripheralClocks, DisablePeripheralClocks} : Untouched(list, fields, pins)
           /\ \A x, r, s, otp : Untouched(AdcSetMode(x, r, s, otp), fields, pins)
           /\ \A r : Untouched(SetupADCSoftwareSync(r), fields, pins)
           /\ Untouched(InitPieCtrl, fields, pins) /\ Untouched(EnableInterrupts, fields, pins)
           /\ Untouched(InitPieVectTable, fields, pins)
           /\ \A ch : Untouched(<<[kind |-> "pie", enabled |-> {ch}], Set({"IER"}, {1, ch[1]})>>, fields, pins)
           /\ \A otp : Untouched(adc_config(otp), fields, pins)
<1> DEFINE U(l) == Untouched(l, fields, pins)
           P(s) == Passes(s, fields, pins)
<1> HIDE DEF U
<1>1. \A l, m : U(l) /\ U(m) => U(l \o m)
  BY TouchJoined DEF U
<1>2. (\A l : U(l) => U(Protected(l))) /\ (\A l, b : U(l) => U(If(b, l))) /\ U(<<>>)
  BY TouchProtected, TouchIf, TouchNone DEF U
<1>3. /\ \A K, v : U(<<Set(K, v)>>)
      /\ \A K, v, L, w : U(<<Set(K, v), Set(L, w)>>)
      /\ \A m : U(<<Sleep(m)>>) /\ \A K, on : U(<<Gate(K, on)>>)
  BY Pass, Touch1, Touch2 DEF U
<1>4. \A s : s.kind # "pin" => P(s)
  BY DEF Passes, Writes
<1>5. U(IDLE) /\ U(STANDBY) /\ U(HALT) /\ U(HIB)
  <2>1. U(PllOff)
    BY <1>3 DEF PllOff
  <2>2. U(IDLE) /\ U(STANDBY)
    BY <1>1, <1>2, <1>3 DEF IDLE, STANDBY
  <2>3. U(HALT)
    BY <1>1, <1>2, <1>3, <2>1 DEF HALT
  <2>4. U(DisablePeripheralClocks)
    BY <1>2, <1>3 DEF DisablePeripheralClocks
  <2>5. U(HIB)
    BY <1>1, <1>2, <1>3, <2>1, <2>4 DEF HIB
  <2>6. QED
    BY <2>2, <2>3, <2>5
<1>6. U(ServiceDog) /\ U(DisableDog) /\ U(SysIntOsc1Sel) /\ U(SysIntOsc2Sel) /\ U(SysXtalOscSel)
      /\ U(ReleaseFlashPump) /\ U(CsmUnlock) /\ U(InitPeripheralClocks) /\ U(DisablePeripheralClocks)
  BY <1>2, <1>3 DEF ServiceDog, DisableDog, SysIntOsc1Sel, SysIntOsc2Sel, SysXtalOscSel, ReleaseFlashPump,
                    CsmUnlock, InitPeripheralClocks, DisablePeripheralClocks
<1>7. U(SeizeFlashPump_Bank0) /\ U(SeizeFlashPump_Bank1)
  <2> DEFINE s1 == [kind |-> "seize", owner |-> 2]
             s2 == [kind |-> "seize", owner |-> 1]
  <2>1. P(s1) /\ P(s2)
    BY <1>4
  <2> HIDE DEF s1, s2
  <2>2. U(<<s1>>) /\ U(<<s2>>)
    BY <2>1, Touch1 DEF U
  <2>3. QED
    BY <1>2, <2>2 DEF SeizeFlashPump_Bank0, SeizeFlashPump_Bank1, s1, s2
<1>8. U(InitFlash_Bank0) /\ U(InitFlash_Bank1) /\ U(FlashOff_Bank0) /\ U(FlashOff_Bank1)
  <2>1. ASSUME NEW b PROVE U(InitFlash(b)) /\ U(FlashOff(b))
    <3>1. U(<<Set(b.VREADST, 20), Set(b.PMPPWR, 1), Set(b.BNKPWR, 3), Set(b.FRD_INTF_CTRL, 0),
              Set(b.RWAIT, 3), Set(b.FRD_INTF_CTRL, 1), Set(b.ECC_ENABLE, 10)>>)
      BY Pass, Touch7 DEF U
    <3>2. U(<<Set(b.VREADST, 20), Set(b.BNKPWR, 0), Set(b.PMPPWR, 0)>>)
      BY Pass, Touch3 DEF U
    <3>3. QED
      BY <1>2, <3>1, <3>2 DEF InitFlash, FlashOff
  <2>2. QED
    BY <2>1 DEF InitFlash_Bank0, InitFlash_Bank1, FlashOff_Bank0, FlashOff_Bank1
<1>9. U(InitSpi)
  BY Pass, Touch7 DEF InitSpi, U
<1>10. \A x, r, s, otp : U(AdcSetMode(x, r, s, otp))
  <2> TAKE x, r, s, otp
  <2>1. U(<<InAdc(x, x.INLTRIM_HIGH, INLTRIM), InAdc(x, x.INLTRIM_LOW, INLTRIM)>>)
    BY Pass, Touch2 DEF U
  <2>2. U(<<InAdc(x, x.RESOLUTION, r), InAdc(x, x.SIGNALMODE, s),
            InAdc(x, x.OFFTRIM, OffsetTrim(x, r, s, otp))>>)
    BY Pass, Touch3 DEF U
  <2>3. U(<<InAdc(x, x.INLTRIM_LOW, 0)>>)
    BY Pass, Touch1 DEF U
  <2>4. U(CalAdcINL(x, otp)) /\ U(SetMode(x, r, s, otp))
    BY <1>1, <1>2, <2>1, <2>2, <2>3 DEF CalAdcINL, SetMode
  <2>5. QED
    BY <1>1, <2>4 DEF AdcSetMode
<1>11. \A r : U(SetupADCSoftwareSync(r))
  <2> TAKE r
  <2> DEFINE x == AdcaRegs
             v == IF r[x.RESOLUTION] = 0 THEN 14 ELSE 63
  <2> HIDE DEF x, v
  <2>1. U(<<InAdc(x, x.CHSEL, 2), InAdc(x, x.ACQPS, v), InAdc(x, x.TRIGSEL, 4)>>)
    BY Pass, Touch3 DEF U
  <2>2. QED
    BY <1>2, <2>1 DEF SetupADCSoftwareSync, x, v
<1>12. U(InitPieCtrl) /\ U(EnableInterrupts) /\ U(InitPieVectTable)
       /\ \A ch : U(<<[kind |-> "pie", enabled |-> {ch}], Set({"IER"}, {1, ch[1]})>>)
  <2> DEFINE s1(S) == [kind |-> "pie", enabled |-> S]
             s2 == [kind |-> "flags"]
             s3 == [kind |-> "ack", groups |-> 1..12]
             s4 == [kind |-> "vectors"]
  <2>1. (\A S : P(s1(S))) /\ P(s2) /\ P(s3) /\ P(s4)
    BY <1>4
  <2> HIDE DEF s1, s2, s3, s4
  <2>2. U(<<Set({"INTM"}, 1), Set({"ENPIE"}, 0), s1({}), s2>>)
    BY <2>1, Pass, Touch4 DEF U
  <2>3. U(<<Set({"ENPIE"}, 1), s3, Set({"INTM"}, 0)>>)
    BY <2>1, Pass, Touch3 DEF U
  <2>4. U(<<EALLOW, s4, EDIS, Set({"ENPIE"}, 1)>>)
    BY <2>1, Pass, Touch4 DEF U
  <2>5. \A ch : U(<<s1({ch}), Set({"IER"}, {1, ch[1]})>>)
    BY <2>1, Pass, Touch2 DEF U
  <2>6. QED
    BY <2>2, <2>3, <2>4, <2>5 DEF InitPieCtrl, EnableInterrupts, InitPieVectTable, s1, s2, s3, s4
<1>13. \A otp : U(adc_config(otp))
  <2> TAKE otp
  <2> DEFINE x == AdcaRegs
  <2> HIDE DEF x
  <2>1. U(<<InAdc(x, x.PRESCALE, 6)>>)
    BY Pass, Touch1 DEF U
  <2>2. U(<<InAdc(x, x.INTPULSEPOS, 1), InAdc(x, x.INT1SEL, 0), InAdc(x, x.INT1E, 1),
            InAdc(x, x.INTFLGCLR, 1), InAdc(x, x.ADCPWDNZ, 1)>>)
    BY Pass, Touch5 DEF U
  <2>3. U(<<InAdc(x, x.PRESCALE, 6)>> \o AdcSetMode(x, 0, 0, otp)
           \o <<InAdc(x, x.INTPULSEPOS, 1), InAdc(x, x.INT1SEL, 0), InAdc(x, x.INT1E, 1),
                InAdc(x, x.INTFLGCLR, 1), InAdc(x, x.ADCPWDNZ, 1)>>)
    BY <1>1, <1>10, <2>1, <2>2
  <2>4. QED
    BY <1>2, <2>3 DEF adc_config, x
<1>14. QED
  BY <1>5, <1>6, <1>7, <1>8, <1>9, <1>10, <1>11, <1>12, <1>13 DEF U

\* A list that changes no groups shelters them.
LEMMA ShelterNone ==
    ASSUME NEW l, NEW R, Untouched(l, {"gmux"}, Pins)
    PROVE  IsList(l) /\ GroupsSheltered(l, R)
BY DEF Untouched, GroupsSheltered

\* More pins at rest shelter as well.
LEMMA ShelterMore ==
    ASSUME NEW l, NEW R, NEW Q, R \subseteq Q, GroupsSheltered(l, R)
    PROVE  GroupsSheltered(l, Q)
BY DEF GroupsSheltered, Sheltered

\* One list after another that leaves alone the pins whose rest the second needs.
LEMMA ShelterJoined ==
    ASSUME NEW l, NEW m, NEW R, NEW Q, Q \subseteq R,
           GroupsSheltered(l, R), IsList(m), GroupsSheltered(m, Q),
           Untouched(l, {"mux", "lock"}, Q)
    PROVE  IsList(l \o m) /\ GroupsSheltered(l \o m, R)
<1>1. IsList(l) /\ Len(l) \in Nat /\ Len(m) \in Nat
  BY ListLen DEF Untouched
<1> DEFINE j == l \o m
           n == Len(l)
<1>2. /\ IsList(j) /\ Len(j) = n + Len(m)
      /\ \A i \in 1..n : j[i] = l[i]
      /\ \A i \in 1..Len(m) : j[n + i] = m[i]
  BY <1>1, Joined
<1> HIDE DEF j
<1>3. ASSUME NEW i \in 1..Len(j), NEW p \in Pins, Writes(j[i], {"gmux"}, p) PROVE Sheltered(j, i, p, R)
  <2>1. CASE i <= n
    <3>1. i \in 1..n /\ j[i] = l[i] /\ \A k \in 1..(i - 1) : j[k] = l[k]
      BY <1>1, <1>2, <2>1
    <3>2. Sheltered(l, i, p, R)
      BY <1>3, <3>1 DEF GroupsSheltered
    <3>3. CASE p \in R /\ \A k \in 1..(i - 1) : ~Disturbs(l[k], p)
      BY <3>1, <3>3 DEF Sheltered
    <3>4. CASE \E h \in 1..(i - 1) : Zeroes(l[h], p) /\ \A k \in (h + 1)..(i - 1) : ~Disturbs(l[k], p)
      <4>1. PICK h \in 1..(i - 1) : Zeroes(l[h], p) /\ \A k \in (h + 1)..(i - 1) : ~Disturbs(l[k], p)
        BY <3>4
      <4>2. Zeroes(j[h], p) /\ \A k \in (h + 1)..(i - 1) : ~Disturbs(j[k], p)
        BY <3>1, <4>1
      <4>3. QED
        BY <4>2 DEF Sheltered
    <3>5. QED
      BY <3>2, <3>3, <3>4 DEF Sheltered
  <2>2. CASE i > n
    <3>1. PICK e \in 1..Len(m) : i = n + e
      <4>1. i - n \in 1..Len(m) /\ i = n + (i - n)
        BY <1>1, <1>2, <2>2
      <4>2. QED
        BY <4>1
    <3>2. Writes(m[e], {"gmux"}, p)
      BY <1>2, <1>3, <3>1
    <3>3. Sheltered(m, e, p, Q)
      BY <3>2 DEF GroupsSheltered
    <3>4. CASE p \in Q /\ \A k \in 1..(e - 1) : ~Disturbs(m[k], p)
      <4>1. ASSUME NEW k \in 1..(i - 1) PROVE ~Disturbs(j[k], p)
        <5>1. CASE k <= n
          <6>1. k \in 1..n
            BY <5>1
          <6>2. ~Writes(l[k], {"mux", "lock"}, p)
            BY <3>4, <6>1 DEF Untouched
          <6>3. QED
            BY <1>2, <6>1, <6>2 DEF Disturbs
        <5>2. CASE k > n
          <6>1. k - n \in 1..(e - 1) /\ k - n \in 1..Len(m) /\ n + (k - n) = k
            BY <1>1, <3>1, <5>2
          <6>2. j[k] = m[k - n]
            BY <1>2, <6>1
          <6>3. QED
            BY <3>4, <6>1, <6>2
        <5>3. QED
          BY <1>1, <5>1, <5>2
      <4>2. QED
        BY <3>4, <4>1 DEF Sheltered
    <3>5. CASE \E h \in 1..(e - 1) : Zeroes(m[h], p) /\ \A k \in (h + 1)..(e - 1) : ~Disturbs(m[k], p)
      <4>1. PICK h \in 1..(e - 1) : Zeroes(m[h], p) /\ \A k \in (h + 1)..(e - 1) : ~Disturbs(m[k], p)
        BY <3>5
      <4>2. n + h \in 1..(i - 1) /\ h \in 1..Len(m)
        BY <1>1, <3>1
      <4>3. Zeroes(j[n + h], p)
        BY <1>2, <4>1, <4>2
      <4>4. ASSUME NEW k \in (n + h + 1)..(i - 1) PROVE ~Disturbs(j[k], p)
        <5>1. k - n \in (h + 1)..(e - 1) /\ k - n \in 1..Len(m) /\ n + (k - n) = k
          BY <1>1, <3>1
        <5>2. j[k] = m[k - n]
          BY <1>2, <5>1
        <5>3. QED
          BY <4>1, <5>1, <5>2
      <4>5. QED
        BY <4>2, <4>3, <4>4 DEF Sheltered
    <3>6. QED
      BY <3>3, <3>4, <3>5 DEF Sheltered
  <2>3. QED
    BY <1>1, <1>2, <2>1, <2>2
<1>4. QED
  BY <1>2, <1>3 DEF GroupsSheltered, j

\* A list after which no group changes.
LEMMA ShelterThen ==
    ASSUME NEW l, NEW m, NEW R, IsList(l), GroupsSheltered(l, R), Untouched(m, {"gmux"}, Pins)
    PROVE  IsList(l \o m) /\ GroupsSheltered(l \o m, R)
<1>1. IsList(m) /\ GroupsSheltered(m, {})
  BY ShelterNone
<1>2. Untouched(l, {"mux", "lock"}, {})
  BY DEF Untouched
<1>3. QED
  BY <1>1, <1>2, ShelterJoined

\* A list that needs no pin at rest may come after any other.
LEMMA ShelterAfter ==
    ASSUME NEW l, NEW m, NEW R, IsList(l), GroupsSheltered(l, R), IsList(m), GroupsSheltered(m, {})
    PROVE  IsList(l \o m) /\ GroupsSheltered(l \o m, R)
<1>1. Untouched(l, {"mux", "lock"}, {})
  BY DEF Untouched
<1>2. QED
  BY <1>1, ShelterJoined

\* When the first statement has been executed.
LEMMA ShelterRest ==
    ASSUME NEW l, NEW R, NEW Q, IsList(l), Len(l) > 0, GroupsSheltered(l, R),
           \A p \in Pins : (p \in R /\ ~Disturbs(Head(l), p)) \/ Zeroes(Head(l), p) => p \in Q
    PROVE  GroupsSheltered(Tail(l), Q)
<1> DEFINE t == Tail(l)
<1>1. Len(l) \in Nat
  BY ListLen
<1>2. /\ Head(l) = l[1] /\ Len(t) = Len(l) - 1
      /\ \A i \in 1..(Len(l) - 1) : t[i] = l[i + 1]
  BY Rest
<1> HIDE DEF t
<1>3. ASSUME NEW i \in 1..Len(t), NEW p \in Pins, Writes(t[i], {"gmux"}, p) PROVE Sheltered(t, i, p, Q)
  <2>1. i + 1 \in 1..Len(l) /\ t[i] = l[i + 1]
    BY <1>1, <1>2
  <2>2. Sheltered(l, i + 1, p, R)
    BY <1>3, <2>1 DEF GroupsSheltered
  <2>3. (i + 1) - 1 = i
    OBVIOUS
  <2>4. CASE p \in R /\ \A k \in 1..i : ~Disturbs(l[k], p)
    <3>1. p \in Q
      <4>1. 1 \in 1..i
        OBVIOUS
      <4>2. QED
        BY <1>2, <2>4, <4>1
    <3>2. ASSUME NEW k \in 1..(i - 1) PROVE ~Disturbs(t[k], p)
      <4>1. k + 1 \in 1..i /\ t[k] = l[k + 1]
        BY <1>1, <1>2
      <4>2. QED
        BY <2>4, <4>1
    <3>3. QED
      BY <3>1, <3>2 DEF Sheltered
  <2>5. CASE \E h \in 1..i : Zeroes(l[h], p) /\ \A k \in (h + 1)..i : ~Disturbs(l[k], p)
    <3>1. PICK h \in 1..i : Zeroes(l[h], p) /\ \A k \in (h + 1)..i : ~Disturbs(l[k], p)
      BY <2>5
    <3>2. ASSUME NEW k \in h..(i - 1) PROVE ~Disturbs(t[k], p)
      <4>1. k + 1 \in (h + 1)..i /\ t[k] = l[k + 1]
        BY <1>1, <1>2
      <4>2. QED
        BY <3>1, <4>1
    <3>3. CASE h = 1
      <4>1. p \in Q
        BY <1>2, <3>1, <3>3
      <4>2. QED
        BY <3>2, <3>3, <4>1 DEF Sheltered
    <3>4. CASE h # 1
      <4>1. h - 1 \in 1..(i - 1) /\ t[h - 1] = l[h] /\ (h - 1) + 1 = h
        BY <1>1, <1>2, <3>4
      <4>2. Zeroes(t[h - 1], p) /\ \A k \in ((h - 1) + 1)..(i - 1) : ~Disturbs(t[k], p)
        BY <3>1, <3>2, <4>1
      <4>3. QED
        BY <4>1, <4>2 DEF Sheltered
    <3>5. QED
      BY <3>3, <3>4
  <2>6. QED
    BY <2>2, <2>3, <2>4, <2>5 DEF Sheltered
<1>4. QED
  BY <1>3 DEF GroupsSheltered, t

\* GPIO_EnableUnbondedIOPullups() writes pull-ups only.
LEMMA PullupTouches ==
    ASSUME NEW fields, NEW pins, NEW d, "pud" \notin fields
    PROVE  Untouched(GPIO_EnableUnbondedIOPullups(d), fields, pins)
<1> DEFINE U(l) == Untouched(l, fields, pins)
<1>1. \A Q, v : Passes(Pin(Q, "pud", v), fields, pins)
  BY PassPin
<1> HIDE DEF U
<1>2. \A l, m : U(l) /\ U(m) => U(l \o m)
  BY TouchJoined DEF U
<1>3. (\A l : U(l) => U(Protected(l))) /\ U(<<>>)
  BY TouchProtected, TouchNone DEF U
<1>4. \A port, unbonded : U(Pullups(port, unbonded))
  BY <1>1, Touch2 DEF Pullups, U
<1>5. U(GPIO_EnableUnbondedIOPullupsFor176Pin)
  BY <1>2, <1>3, <1>4 DEF GPIO_EnableUnbondedIOPullupsFor176Pin
<1>6. U(GPIO_EnableUnbondedIOPullupsFor100Pin)
  BY <1>2, <1>3, <1>4 DEF GPIO_EnableUnbondedIOPullupsFor100Pin
<1>7. U(GPIO_EnableUnbondedIOPullups(d))
  BY <1>3, <1>5, <1>6 DEF GPIO_EnableUnbondedIOPullups
<1>8. QED
  BY <1>7 DEF U

\* Functions that configure pins without changing groups.
LEMMA GroupsUntouched ==
    ASSUME NEW p
    PROVE  /\ \A d : Untouched(GPIO_EnableUnbondedIOPullups(d), {"gmux"}, Pins)
           /\ Untouched(InitEPwmGpio, {"gmux"}, Pins) /\ Untouched(InitEPwm9Gpio, {"gmux"}, Pins)
           /\ Untouched(InitSpiaGpio, {"gmux"}, Pins)
           /\ \A v : Untouched(GPIO_WritePin(p, v), {"gmux"}, Pins)
           /\ \A output, flags : Untouched(GPIO_SetupPinOptions(p, output, flags), {"gmux"}, Pins)
           /\ \A lock : Untouched(GPIO_SetupLock(p, lock), {"gmux"}, Pins)
           /\ Untouched(GPIO_SetupXINT1Gpio(p), {"gmux"}, Pins)
           /\ Untouched(GPIO_SetupXINT2Gpio(p), {"gmux"}, Pins)
           /\ Untouched(GPIO_SetupXINT3Gpio(p), {"gmux"}, Pins)
           /\ Untouched(GPIO_SetupXINT4Gpio(p), {"gmux"}, Pins)
           /\ Untouched(GPIO_SetupXINT5Gpio(p), {"gmux"}, Pins)
<1> DEFINE U(l) == Untouched(l, {"gmux"}, Pins)
           P(s) == Passes(s, {"gmux"}, Pins)
<1>1. \A Q, f, v : f # "gmux" => P(Pin(Q, f, v))
  BY PassPin
<1>2. \A K, v : P(Set(K, v))
  BY Pass
<1> HIDE DEF P, U
<1>3. \A l, m : U(l) /\ U(m) => U(l \o m)
  BY TouchJoined DEF U
<1>4. (\A l : U(l) => U(Protected(l))) /\ (\A l, b : U(l) => U(If(b, l))) /\ U(<<>>)
  BY TouchProtected, TouchIf, TouchNone DEF U
<1>5. /\ \A s : P(s) => U(<<s>>)
      /\ \A s, t : P(s) /\ P(t) => U(<<s, t>>)
      /\ \A s, t, r : P(s) /\ P(t) /\ P(r) => U(<<s, t, r>>)
  BY Touch1, Touch2, Touch3 DEF P, U
<1>6. \A d : U(GPIO_EnableUnbondedIOPullups(d))
  BY PullupTouches DEF U
<1>7. U(InitEPwmGpio) /\ U(InitEPwm9Gpio)
  <2>1. \A a, b : U(PwmPins(a, b))
    BY <1>1, <1>4, <1>5 DEF PwmPins
  <2>2. /\ U(InitEPwm1Gpio) /\ U(InitEPwm2Gpio) /\ U(InitEPwm3Gpio) /\ U(InitEPwm4Gpio)
        /\ U(InitEPwm5Gpio) /\ U(InitEPwm6Gpio) /\ U(InitEPwm7Gpio) /\ U(InitEPwm8Gpio)
        /\ U(InitEPwm9Gpio) /\ U(InitEPwm10Gpio) /\ U(InitEPwm11Gpio) /\ U(InitEPwm12Gpio)
    BY <2>1 DEF InitEPwm1Gpio, InitEPwm2Gpio, InitEPwm3Gpio, InitEPwm4Gpio, InitEPwm5Gpio, InitEPwm6Gpio,
                InitEPwm7Gpio, InitEPwm8Gpio, InitEPwm9Gpio, InitEPwm10Gpio, InitEPwm11Gpio, InitEPwm12Gpio
  <2>3. U(InitEPwm1Gpio \o InitEPwm2Gpio \o InitEPwm3Gpio \o InitEPwm4Gpio
             \o InitEPwm5Gpio \o InitEPwm6Gpio \o InitEPwm7Gpio \o InitEPwm8Gpio)
    BY <1>3, <2>2
  <2>4. QED
    BY <1>3, <2>2, <2>3 DEF InitEPwmGpio
<1>8. U(InitSpiaGpio)
  BY <1>1, <1>4, <1>5 DEF InitSpiaGpio
<1>9. ASSUME NEW v PROVE U(GPIO_WritePin(p, v))
  <2> DEFINE d == [kind |-> "data", keys |-> {p}, val |-> v]
  <2>1. d.kind # "pin"
    OBVIOUS
  <2> HIDE DEF d
  <2>2. P(d)
    BY <2>1 DEF P, Passes, Writes
  <2>3. QED
    BY <1>5, <2>2 DEF GPIO_WritePin, d
<1>10. ASSUME NEW output, NEW flags PROVE U(GPIO_SetupPinOptions(p, output, flags))
  <2> DEFINE out == <<Pin({p}, "dir", 1), Pin({p}, "odr", Flag("OPENDRAIN" \in flags)),
                      Pin({p}, "pud", Flag(flags \cap {"OPENDRAIN", "PULLUP"} = {}))>>
             in == <<Pin({p}, "dir", 0), Pin({p}, "pud", Flag("PULLUP" \notin flags)),
                     Pin({p}, "inv", Flag("INVERT" \in flags))>>
             q == <<Pin({p}, "qsel", 0), Pin({p}, "qsel", Qualification(flags))>>
  <2>1. U(out) /\ U(in) /\ U(q) /\ U(<<Pin({p}, "dir", 0)>>)
    BY <1>1, <1>5
  <2> HIDE DEF out, in, q
  <2>2. U(<<Pin({p}, "dir", 0)>> \o (IF output THEN out ELSE in) \o q)
    BY <1>3, <2>1
  <2>3. QED
    BY <1>4, <2>2 DEF GPIO_SetupPinOptions, out, in, q
<1>11. \A lock : U(GPIO_SetupLock(p, lock))
  BY <1>1, <1>4, <1>5 DEF GPIO_SetupLock
<1>12. \A input : U(Xint(input, p))
  BY <1>2, <1>4, <1>5 DEF Xint
<1>13. QED
  BY <1>6, <1>7, <1>8, <1>9, <1>10, <1>11, <1>12
     DEF U, GPIO_SetupXINT1Gpio, GPIO_SetupXINT2Gpio, GPIO_SetupXINT3Gpio, GPIO_SetupXINT4Gpio, GPIO_SetupXINT5Gpio

\* GPIO_SetupPinMux() takes the pin to GPIO before it changes its group.
LEMMA MuxSheltered ==
    ASSUME NEW p, NEW core, NEW n, NEW R
    PROVE  IsList(GPIO_SetupPinMux(p, core, n)) /\ GroupsSheltered(GPIO_SetupPinMux(p, core, n), R)
<1> DEFINE s1 == Pin({p}, "mux", 0)
           s2 == Pin({p}, "gmux", 0)
           s3 == Pin({p}, "gmux", n \div 4)
           rest == <<Pin({p}, "mux", n % 4), Pin({p}, "csel", 0), Pin({p}, "csel", core)>>
           l == <<s1, s2, s3>>
           six == <<s1, s2, s3, Pin({p}, "mux", n % 4), Pin({p}, "csel", 0), Pin({p}, "csel", core)>>
<1>1. six = l \o rest
  OBVIOUS
<1>2. /\ \A q \in Pins : Writes(s2, {"gmux"}, q) \/ Writes(s3, {"gmux"}, q) => Zeroes(s1, q)
      /\ \A q \in Pins : ~Writes(s1, {"gmux"}, q) /\ ~Disturbs(s2, q)
  BY DEF Writes, Zeroes, Disturbs, Pin
<1>3. Untouched(rest, {"gmux"}, Pins)
  BY PassPin, Touch3
<1> HIDE DEF s1, s2, s3, rest, six
<1>4. IsList(l) /\ Len(l) = 3 /\ l[1] = s1 /\ l[2] = s2 /\ l[3] = s3
  <2>1. l \in Seq({s1, s2, s3}) /\ Len(l) = 3 /\ l[1] = s1 /\ l[2] = s2 /\ l[3] = s3
    OBVIOUS
  <2> HIDE DEF l
  <2>2. QED
    BY <2>1, ListOf
<1> HIDE DEF l
<1>5. GroupsSheltered(l, {})
  <2>1. ASSUME NEW i \in 1..3, NEW q \in Pins, Writes(l[i], {"gmux"}, q) PROVE Sheltered(l, i, q, {})
    <3>1. i \in {2, 3} /\ Zeroes(l[1], q)
      BY <1>2, <1>4, <2>1
    <3>2. 1 \in 1..(i - 1) /\ \A k \in 2..(i - 1) : k = 2
      BY <3>1
    <3>3. QED
      BY <1>2, <1>4, <3>1, <3>2 DEF Sheltered
  <2>2. QED
    BY <1>4, <2>1 DEF GroupsSheltered
<1>6. IsList(six) /\ GroupsSheltered(six, {})
  BY <1>1, <1>3, <1>4, <1>5, ShelterThen
<1>7. Untouched(<<EALLOW>>, {"gmux"}, Pins) /\ Untouched(<<EDIS>>, {"gmux"}, Pins) /\ Untouched(<<>>, {"gmux"}, Pins)
  BY Pass, Touch1, TouchNone
<1>8. IsList(Protected(six)) /\ GroupsSheltered(Protected(six), R)
  BY <1>6, <1>7, ShelterNone, ShelterAfter, ShelterThen DEF Protected
<1>9. IsList(<<>>) /\ GroupsSheltered(<<>>, R)
  BY <1>7, ShelterNone
<1>10. QED
  BY <1>8, <1>9 DEF GPIO_SetupPinMux, If, six, s1, s2, s3

\* InitGpio() takes every pin to GPIO before it changes any group.
LEMMA GpioSheltered ==
    ASSUME NEW R
    PROVE  IsList(InitGpio) /\ GroupsSheltered(InitGpio, R)
<1> DEFINE P(i) == Pin(Zeroed(i), PortFields[i], 0)
           l == [i \in 1..32 |-> P(i)]
           d == [kind |-> "data", keys |-> Pins, val |-> 0]
           first == <<Pin(Pins, "lock", 0)>>
<1>1. Untouched(<<d>>, {"gmux"}, Pins)
  <2>1. d.kind # "pin"
    OBVIOUS
  <2> HIDE DEF d
  <2>2. QED
    BY <2>1, Touch1 DEF Passes, Writes
<1>2. Untouched(first, {"gmux"}, Pins)
  BY PassPin, Touch1
<1>3. /\ PortFields[4] = "mux" /\ Zeroed(4) = Pins
      /\ \A i \in 1..16 : PortFields[i] # "gmux"
      /\ \A i \in 5..30 : PortFields[i] # "lock"
      /\ PortFields[32] # "gmux" /\ PortFields[31] # "gmux"
  BY DEF PortFields, Zeroed, PinFields
<1>4. /\ \A q \in Pins : Zeroes(P(4), q)
      /\ \A i \in 5..30, q \in Pins : ~Disturbs(P(i), q)
      /\ \A i \in 1..32, q \in Pins : Writes(P(i), {"gmux"}, q) => i \in 17..30
  <2>1. \A Q, f, v : Pin(Q, f, v).field = f /\ Pin(Q, f, v).keys = Q \cap Pins /\ Pin(Q, f, v).kind = "pin"
                     /\ Pin(Q, f, v).val = v
    BY DEF Pin
  <2>2. \A q \in Pins : Zeroes(P(4), q)
    BY <1>3, <2>1 DEF Zeroes, Writes
  <2>3. \A i \in 5..30, q \in Pins : ~Disturbs(P(i), q)
    BY <1>3, <2>1 DEF Disturbs, Zeroes, Writes
  <2>4. \A i \in 1..32, q \in Pins : Writes(P(i), {"gmux"}, q) => i \in 17..30
    BY <1>3, <2>1 DEF Writes
  <2>5. QED
    BY <2>2, <2>3, <2>4
<1>5. IsList(l) /\ Len(l) = 32 /\ \A i \in 1..32 : l[i] = P(i)
  <2> DEFINE S == {P(i) : i \in 1..32}
  <2> HIDE DEF P
  <2>1. l \in [1..32 -> S] /\ \A i \in 1..32 : l[i] = P(i)
    OBVIOUS
  <2>2. l \in Seq(S) /\ Len(l) = 32
    BY <2>1
  <2> HIDE DEF l, S
  <2>3. QED
    BY <2>1, <2>2, ListOf
<1> HIDE DEF P, l, d, first
<1>6. GroupsSheltered(l, {})
  <2>1. ASSUME NEW i \in 1..32, NEW q \in Pins, Writes(l[i], {"gmux"}, q) PROVE Sheltered(l, i, q, {})
    <3>1. i \in 17..30
      BY <1>4, <1>5, <2>1
    <3>2. 4 \in 1..(i - 1) /\ Zeroes(l[4], q)
      BY <1>4, <1>5, <3>1
    <3>3. \A k \in (4 + 1)..(i - 1) : ~Disturbs(l[k], q)
      BY <1>4, <1>5, <3>1
    <3>4. QED
      BY <3>2, <3>3 DEF Sheltered
  <2>2. QED
    BY <1>5, <2>1 DEF GroupsSheltered
<1>7. Untouched(<<EALLOW>>, {"gmux"}, Pins) /\ Untouched(<<EDIS>>, {"gmux"}, Pins)
  BY Pass, Touch1
<1>8. IsList(first \o l) /\ GroupsSheltered(first \o l, {})
  BY <1>2, <1>5, <1>6, ShelterNone, ShelterAfter
<1>9. IsList(first \o l \o <<d>>) /\ GroupsSheltered(first \o l \o <<d>>, {})
  BY <1>1, <1>8, ShelterThen
<1>10. IsList(Protected(first \o l \o <<d>>)) /\ GroupsSheltered(Protected(first \o l \o <<d>>), R)
  BY <1>7, <1>9, ShelterNone, ShelterAfter, ShelterThen DEF Protected
<1>11. QED
  BY <1>10 DEF InitGpio, first, l, d, P

\* The pins of SPI B.
SpibPins == {22, 23, 24, 25}
\* spi_init() changes the groups of four pins that must be at rest.
LEMMA SpibSheltered == IsList(spi_init) /\ GroupsSheltered(spi_init, SpibPins)
<1> DEFINE G(l, Q) == IsList(l) /\ GroupsSheltered(l, Q)
           U(l, Q) == Untouched(l, {"mux", "lock"}, Q)
<1> HIDE DEF G, U
<1>1. ASSUME NEW l, NEW m, NEW R, NEW Q, Q \subseteq R, G(l, R), G(m, Q), U(l, Q) PROVE G(l \o m, R)
  BY <1>1, ShelterJoined DEF G, U
<1>2. ASSUME NEW p, NEW u, NEW o PROVE G(SpibPin(p, u, o), {p})
  <2> DEFINE s1 == Pin({p}, "pud", u)
             s2 == Pin({p}, "qsel", 3)
             s3 == Pin({p}, "gmux", 1)
             s4 == Pin({p}, "mux", 2)
             s5 == Pin({p}, "dir", o)
             l == <<s1, s2, s3, s4, s5>>
  <2>1. \A q \in Pins : /\ ~Writes(s1, {"gmux"}, q) /\ ~Writes(s2, {"gmux"}, q)
                        /\ ~Writes(s4, {"gmux"}, q) /\ ~Writes(s5, {"gmux"}, q)
                        /\ Writes(s3, {"gmux"}, q) => q = p
                        /\ ~Disturbs(s1, q) /\ ~Disturbs(s2, q)
    BY DEF Writes, Disturbs, Pin
  <2> HIDE DEF s1, s2, s3, s4, s5
  <2>2. IsList(l) /\ Len(l) = 5 /\ l[1] = s1 /\ l[2] = s2 /\ l[3] = s3 /\ l[4] = s4 /\ l[5] = s5
    <3>1. l \in Seq({s1, s2, s3, s4, s5}) /\ Len(l) = 5
          /\ l[1] = s1 /\ l[2] = s2 /\ l[3] = s3 /\ l[4] = s4 /\ l[5] = s5
      OBVIOUS
    <3> HIDE DEF l
    <3>2. QED
      BY <3>1, ListOf
  <2> HIDE DEF l
  <2>3. ASSUME NEW i \in 1..5, NEW q \in Pins, Writes(l[i], {"gmux"}, q) PROVE Sheltered(l, i, q, {p})
    <3>1. i = 3 /\ q = p
      BY <2>1, <2>2, <2>3
    <3>2. \A k \in 1..(i - 1) : ~Disturbs(l[k], q)
      BY <2>1, <2>2, <3>1
    <3>3. QED
      BY <3>1, <3>2 DEF Sheltered
  <2>4. G(l, {p})
    BY <2>2, <2>3 DEF GroupsSheltered, G
  <2>5. QED
    BY <2>4 DEF SpibPin, l, s1, s2, s3, s4, s5
<1>3. ASSUME NEW p, NEW u, NEW o, NEW q, q # p PROVE U(SpibPin(p, u, o), {q})
  <2>1. {p} \cap {q} = {}
    BY <1>3
  <2>2. QED
    BY <2>1, PassPin, Touch5 DEF SpibPin, U
<1>4. \A l, m, Q : U(l, Q) /\ U(m, Q) => U(l \o m, Q)
  BY TouchJoined DEF U
<1> DEFINE l1 == SpibPin(22, 1, 0)
           l2 == SpibPin(23, 0, 0)
           l3 == SpibPin(24, 1, 0)
           l4 == SpibPin(25, 0, 1)
           others == <<Of(SPIB, {"SPIB_SPISWRESET", "SPIB_CLKPOLARITY", "SPIB_HS_MODE", "SPIB_SPILBK"}, 0),
                       Of(SPIB, {"SPIB_SPICHAR"}, 15),
                       Of(SPIB, {"SPIB_OVERRUNINTENA", "SPIB_CLK_PHASE", "SPIB_MASTER_SLAVE"}, 0),
                       Of(SPIB, {"SPIB_TALK"}, 1), Of(SPIB, {"SPIB_SPIINTENA"}, 0),
                       Of(SPIB, {"SPIB_SPI_BIT_RATE"}, 39),
                       Of(SPIB, {"SPIB_FREE", "SPIB_STEINV", "SPIB_SPISWRESET"}, 1)>>
<1>5. G(l1, {22}) /\ G(l2, {23}) /\ G(l3, {24}) /\ G(l4, {25})
  BY <1>2
<1>6. /\ U(l1, {23}) /\ U(l1, {24}) /\ U(l1, {25})
      /\ U(l2, {24}) /\ U(l2, {25}) /\ U(l3, {25})
  <2>1. 22 # 23 /\ 22 # 24 /\ 22 # 25 /\ 23 # 24 /\ 23 # 25 /\ 24 # 25
    OBVIOUS
  <2> DEFINE T(p, q) == \A u, o : U(SpibPin(p, u, o), {q})
  <2>2. \A p, q : p # q => T(p, q)
    BY <1>3
  <2>3. T(22, 23) /\ T(22, 24) /\ T(22, 25) /\ T(23, 24) /\ T(23, 25) /\ T(24, 25)
    <3> HIDE DEF T
    <3>1. QED
      BY <2>1, <2>2
  <2> HIDE DEF others
  <2>4. QED
    BY <2>3
<1>7. Untouched(others, {"gmux"}, Pins)
  BY Pass, Touch7
<1>8. Untouched(<<EALLOW>>, {"gmux"}, Pins) /\ Untouched(<<EDIS>>, {"gmux"}, Pins) /\ U(<<EALLOW>>, SpibPins)
  BY Pass, Touch1 DEF U
<1> HIDE DEF l1, l2, l3, l4, others
<1>9. \A l, Q, R : G(l, Q) /\ Q \subseteq R => G(l, R)
  BY ShelterMore DEF G
<1>10. G(l1, SpibPins)
  BY <1>5, <1>9 DEF SpibPins
<1>11. G(l1 \o l2, SpibPins)
  BY <1>1, <1>5, <1>6, <1>10 DEF SpibPins
<1>12. G(l1 \o l2 \o l3, SpibPins)
  <2>1. U(l1 \o l2, {24})
    BY <1>4, <1>6
  <2>2. QED
    BY <1>1, <1>5, <1>11, <2>1 DEF SpibPins
<1>13. G(l1 \o l2 \o l3 \o l4, SpibPins)
  <2>1. U(l1 \o l2 \o l3, {25})
    BY <1>4, <1>6
  <2>2. QED
    BY <1>1, <1>5, <1>12, <2>1 DEF SpibPins
<1> DEFINE body == l1 \o l2 \o l3 \o l4 \o others
<1>14. G(body, SpibPins)
  BY <1>7, <1>13, ShelterThen DEF G
<1> HIDE DEF body
<1>15. G(<<EALLOW>> \o body, SpibPins)
  <2>1. G(<<EALLOW>>, SpibPins)
    BY <1>8, ShelterNone DEF G
  <2>2. QED
    BY <1>1, <1>8, <1>14, <2>1
<1>16. G(Protected(body), SpibPins)
  BY <1>8, <1>15, ShelterThen DEF G, Protected
<1>17. QED
  BY <1>16 DEF spi_init, G, body, l1, l2, l3, l4, others

\* InitSysCtrl() itself configures no pins: the functions it calls are entered later.
LEMMA SysCtrlTouches == ASSUME NEW fields, NEW pins, NEW d PROVE Untouched(InitSysCtrl(d), fields, pins)
<1> DEFINE U(l) == Untouched(l, fields, pins)
<1> HIDE DEF U
<1>1. \A l, m : U(l) /\ U(m) => U(l \o m)
  BY TouchJoined DEF U
<1>2. \A l, b : U(l) => U(If(b, l))
  BY TouchIf DEF U
<1>3. U(DisableDog) /\ U(InitFlash_Bank0)
  BY TouchOthers DEF U
<1>4. /\ U(<<Set({"ramfuncs"}, 1)>>) /\ U(<<Set(References, STATIC)>>)
      /\ U(<<EALLOW, Call("GPIO_EnableUnbondedIOPullups"), Gate(Converters, TRUE)>>)
      /\ U(<<Gate(Converters, FALSE), EDIS, Call("InitSysPll"), Call("InitPeripheralClocks")>>)
  BY Pass, Touch1, Touch3, Touch4 DEF U
<1>5. /\ U(If(d.flash, <<Set({"ramfuncs"}, 1)>> \o InitFlash_Bank0))
      /\ U(If(~d.trimmed, <<Set(References, STATIC)>>))
  BY <1>1, <1>2, <1>3, <1>4
<1>6. U(InitSysCtrl(d))
  BY <1>1, <1>3, <1>4, <1>5 DEF InitSysCtrl
<1>7. QED
  BY <1>6 DEF U

\* What main() executes before spi_init() leaves those four pins alone.
LEMMA MainSheltered == ASSUME NEW d PROVE IsList(main(d)) /\ GroupsSheltered(main(d), Pins)
<1> DEFINE free == <<Set({"INTM"}, 1), Set({"IER"}, {}), Set({"IFR"}, 0)>>
           vector == [kind |-> "vector", chan |-> ADCA1, routine |-> ADCA1_ISR]
           before == InitSysCtrl(d) \o InitSpiaGpio \o free \o InitPieCtrl \o InitPieVectTable
                       \o Protected(<<vector>>)
           channel == [kind |-> "pie", enabled |-> {ADCA1}]
           enable == <<Set({"IER"}, {1}), Set({"ENPIE"}, 1), channel, Set({"XBARFLG2"}, 1)>>
           input == Protected(<<Set({"INPUT5SELECT"}, 23)>>)
           masks == <<Set({"INTM"}, 0), Set({"DBGM"}, 0)>>
           call3 == <<Call("SetupADCSoftwareSync")>>
           Q == SpibPins \cap Pins
<1>1. \A fields, pins : Passes(vector, fields, pins) /\ Passes(channel, fields, pins)
  <2>1. vector.kind # "pin" /\ channel.kind # "pin"
    OBVIOUS
  <2> HIDE DEF vector, channel
  <2>2. QED
    BY <2>1 DEF Passes, Writes
<1> HIDE DEF vector, channel
<1>2. ASSUME NEW fields, NEW pins, Untouched(InitSpiaGpio, fields, pins) PROVE Untouched(before, fields, pins)
  <2> DEFINE U(l) == Untouched(l, fields, pins)
  <2>1. U(InitSysCtrl(d))
    BY SysCtrlTouches
  <2>2. U(free) /\ U(Protected(<<vector>>))
    BY <1>1, Pass, Touch1, Touch3, TouchProtected
  <2>3. U(InitPieCtrl) /\ U(InitPieVectTable)
    BY TouchOthers
  <2> HIDE DEF U, free
  <2>4. \A l, m : U(l) /\ U(m) => U(l \o m)
    BY TouchJoined DEF U
  <2>5. U(InitSpiaGpio)
    BY <1>2 DEF U
  <2>6. U(InitSysCtrl(d) \o InitSpiaGpio \o free)
    BY <2>1, <2>2, <2>4, <2>5
  <2>7. U(before)
    BY <2>2, <2>3, <2>4, <2>6
  <2>8. QED
    BY <2>7 DEF U
<1> HIDE DEF before
<1>3. Untouched(before, {"gmux"}, Pins)
  BY <1>2, GroupsUntouched
<1>4. Untouched(before, {"mux", "lock"}, Q)
  <2>1. (16..19) \cap Q = {}
    BY DEF SpibPins
  <2> HIDE DEF Q
  <2>2. Untouched(InitSpiaGpio, {"mux", "lock"}, Q)
    BY <2>1, PassPin, Touch3, TouchProtected DEF InitSpiaGpio
  <2>3. QED
    BY <1>2, <2>2
<1>5. GroupsSheltered(spi_init, Q) /\ IsList(spi_init)
  BY SpibSheltered DEF GroupsSheltered, Sheltered
<1>6. IsList(before \o spi_init) /\ GroupsSheltered(before \o spi_init, Pins)
  BY <1>3, <1>4, <1>5, ShelterNone, ShelterJoined
<1> DEFINE U(l) == Untouched(l, {"gmux"}, Pins)
           G(l) == IsList(l) /\ GroupsSheltered(l, Pins)
<1>7. U(adc_config(d.otp))
  BY TouchOthers
<1>8. U(call3) /\ U(enable) /\ U(input) /\ U(masks)
  BY <1>1, Pass, Touch1, Touch2, Touch4, TouchProtected
<1> HIDE DEF U, G, call3, enable, input, masks
<1>9. \A l, m : G(l) /\ U(m) => G(l \o m)
  BY ShelterThen DEF U, G
<1>10. G(before \o spi_init)
  BY <1>6 DEF G
<1>11. G(before \o spi_init \o adc_config(d.otp) \o call3 \o enable \o input \o masks)
  BY <1>7, <1>8, <1>9, <1>10
<1>12. main(d) = before \o spi_init \o adc_config(d.otp) \o call3 \o enable \o input \o masks
  BY DEF main, before, free, vector, call3, enable, channel, input, masks
<1>13. QED
  BY <1>11, <1>12 DEF G

\* Every function that a program calls shelters the groups, whatever was called before it.
LEMMA CallSheltered ==
    ASSUME NEW c \in Calls, NEW R
    PROVE  IsList(c.list) /\ GroupsSheltered(c.list, R)
<1> DEFINE G(l) == IsList(l) /\ GroupsSheltered(l, R)
<1>1. ASSUME NEW l, Untouched(l, {"gmux"}, Pins) PROVE G(l)
  BY <1>1, ShelterNone
<1>2. ASSUME NEW l, NEW name, NEW d, G(l), c = Function(name, d, l) PROVE G(c.list)
  <2>1. c.list = l
    BY <1>2 DEF Function
  <2>2. QED
    BY <1>2, <2>1
<1> HIDE DEF G
<1>3. ASSUME NEW source, NEW mult, NEW d, c = Function("InitSysPll", d, InitSysPll(reg, source, mult, d))
      PROVE  G(c.list)
  <2>1. 1 \in 1..6
    OBVIOUS
  <2>2. Untouched(InitSysPll(reg, source, mult, d), {"gmux"}, Pins)
    BY <2>1, TouchPlls
  <2>3. QED
    BY <1>1, <1>2, <1>3, <2>2
<1>4. ASSUME topic = "pll" PROVE G(c.list)
  <2> DEFINE S == {Function("InitSysPll", d, InitSysPll(reg, s, m, d)) :
                     s \in Sources, m \in Mults, d \in Dividers}
             L == {IDLE, STANDBY, HALT, ServiceDog, DisableDog, SysIntOsc1Sel, SysIntOsc2Sel, SysXtalOscSel}
  <2>1. \A l \in L : G(l)
    BY <1>1, TouchOthers
  <2>2. c \in S \cup {Function("", 0, list) : list \in L}
    <3>1. c \in PllCalls
      BY <1>4 DEF Calls
    <3>2. PllCalls = S \cup {Function("", 0, list) : list \in L}
      BY DEF PllCalls
    <3> HIDE DEF S, L
    <3>3. QED
      BY <3>1, <3>2
  <2> HIDE DEF L
  <2>3. CASE \E s \in Sources, m \in Mults, d \in Dividers :
               c = Function("InitSysPll", d, InitSysPll(reg, s, m, d))
    BY <1>3, <2>3
  <2>4. c \in S => \E s \in Sources, m \in Mults, d \in Dividers :
                      c = Function("InitSysPll", d, InitSysPll(reg, s, m, d))
    OBVIOUS
  <2> HIDE DEF S
  <2>5. QED
    BY <1>2, <2>1, <2>2, <2>3, <2>4
<1>5. ASSUME topic = "aux" PROVE G(c.list)
  <2> DEFINE S == {Function("InitAuxPll", d, InitAuxPll(reg, s, m, d, n)) :
                     s \in Sources, m \in Mults, d \in Dividers, n \in {2, 6}}
             L == {AuxIntOsc2Sel, AuxXtalOscSel, AuxAuxClkSel}
  <2>1. \A l \in L : G(l)
    <3>1. ASSUME NEW K, NEW v, NEW M, NEW w PROVE Untouched(<<Set(K, v), Set(M, w)>>, {"gmux"}, Pins)
      BY Pass, Touch2
    <3>2. ASSUME NEW K, NEW v PROVE Untouched(<<Set(K, v)>>, {"gmux"}, Pins)
      BY Pass, Touch1
    <3>3. G(AuxIntOsc2Sel) /\ G(AuxXtalOscSel) /\ G(AuxAuxClkSel)
      BY <1>1, <3>1, <3>2, TouchProtected DEF AuxIntOsc2Sel, AuxXtalOscSel, AuxAuxClkSel
    <3>4. QED
      BY <3>3
  <2>2. c \in S \cup {Function("", 0, list) : list \in L}
    <3>1. c \in AuxCalls
      BY <1>5 DEF Calls
    <3>2. AuxCalls = S \cup {Function("", 0, list) : list \in L}
      BY DEF AuxCalls
    <3> HIDE DEF S, L
    <3>3. QED
      BY <3>1, <3>2
  <2> HIDE DEF L
  <2>3. ASSUME NEW s \in Sources, NEW m \in Mults, NEW d \in Dividers, NEW n \in {2, 6},
               c = Function("InitAuxPll", d, InitAuxPll(reg, s, m, d, n))
        PROVE  G(c.list)
    <3>1. n \in 1..6
      OBVIOUS
    <3>2. G(InitAuxPll(reg, s, m, d, n))
      BY <1>1, <3>1, TouchPlls
    <3>3. QED
      BY <1>2, <2>3, <3>2
  <2>4. c \in S => \E s \in Sources, m \in Mults, d \in Dividers, n \in {2, 6} :
                      c = Function("InitAuxPll", d, InitAuxPll(reg, s, m, d, n))
    OBVIOUS
  <2> HIDE DEF S
  <2>5. QED
    BY <1>2, <2>1, <2>2, <2>3, <2>4
<1>6. \A l \in {InitPeripheralClocks, DisablePeripheralClocks} : G(l)
  BY <1>1, TouchOthers
<1>7. ASSUME topic = "power" PROVE G(c.list)
  <2> DEFINE L == {InitFlash_Bank0, InitFlash_Bank1, FlashOff_Bank0, FlashOff_Bank1,
                   SeizeFlashPump_Bank0, SeizeFlashPump_Bank1, ReleaseFlashPump, CsmUnlock, HIB, InitSpi,
                   InitSpiGpio}
             M == {InitPeripheralClocks, DisablePeripheralClocks}
             T == {Function("", 0, list) : list \in L}
             U == {Function("", 0, list) : list \in M}
  <2>1. c \in T \cup U
    <3>1. c \in PowerCalls
      BY <1>7 DEF Calls
    <3>2. PowerCalls = T \cup U
      BY DEF PowerCalls, ClockCalls
    <3> HIDE DEF T, U
    <3>3. QED
      BY <3>1, <3>2
  <2>2. \A l \in L : G(l)
    <3>1. G(InitSpiGpio)
      BY <1>1, GroupsUntouched DEF InitSpiGpio
    <3>2. \A l \in {InitFlash_Bank0, InitFlash_Bank1, FlashOff_Bank0, FlashOff_Bank1,
                     SeizeFlashPump_Bank0, SeizeFlashPump_Bank1, ReleaseFlashPump, CsmUnlock, HIB,
                     InitSpi} : G(l)
      BY <1>1, TouchOthers
    <3>3. QED
      BY <3>1, <3>2
  <2>3. \A l \in M : G(l)
    BY <1>6
  <2> HIDE DEF L, M
  <2>4. QED
    BY <1>2, <2>1, <2>2, <2>3
<1>8. ASSUME topic = "adc" PROVE G(c.list)
  <2> DEFINE S == {Function("AdcSetMode", 0, Protected(AdcSetMode(AdcaRegs, r, s, device.otp))) :
                     r \in {0, 1}, s \in {0, 1}}
             M == {InitPeripheralClocks, DisablePeripheralClocks}
             U == {Function("", 0, list) : list \in M}
  <2>1. c \in S \cup U
    <3>1. c \in AdcCalls
      BY <1>8 DEF Calls
    <3>2. AdcCalls = S \cup U
      BY DEF AdcCalls, ClockCalls
    <3> HIDE DEF S, U
    <3>3. QED
      BY <3>1, <3>2
  <2>2. \A r, s : G(Protected(AdcSetMode(AdcaRegs, r, s, device.otp)))
    BY <1>1, TouchOthers, TouchProtected
  <2>3. \A l \in M : G(l)
    BY <1>6
  <2>4. c \in S => \E r, s : c = Function("AdcSetMode", 0, Protected(AdcSetMode(AdcaRegs, r, s, device.otp)))
    OBVIOUS
  <2> HIDE DEF S, M
  <2>5. QED
    BY <1>2, <2>1, <2>2, <2>3, <2>4
<1>9. ASSUME topic = "pins" PROVE G(c.list)
  <2> DEFINE p == APin
             S == {InitGpio, InitEPwmGpio, InitEPwm9Gpio, GPIO_WritePin(p, 1)}
             T == {GPIO_SetupPinMux(p, core, n) : core \in {0, 4}, n \in {0, 6, 15}}
             U == {GPIO_SetupPinOptions(p, FALSE, {"PULLUP", "QUAL3"}),
                   GPIO_SetupPinOptions(p, TRUE, {"OPENDRAIN", "INVERT", "ASYNC"})}
             V == {GPIO_SetupLock(p, lock) : lock \in BOOLEAN}
  <2> HIDE DEF p
  <2>1. G(InitGpio) /\ \A core, n : G(GPIO_SetupPinMux(p, core, n))
    BY GpioSheltered, MuxSheltered DEF G
  <2>2. /\ G(InitEPwmGpio) /\ G(InitEPwm9Gpio) /\ G(GPIO_WritePin(p, 1))
        /\ \A output, flags : G(GPIO_SetupPinOptions(p, output, flags))
        /\ \A lock : G(GPIO_SetupLock(p, lock))
    BY <1>1, GroupsUntouched
  <2>3. \A l \in S : G(l)
    BY <2>1, <2>2
  <2>4. (\A l \in T : G(l)) /\ (\A l \in V : G(l))
    BY <2>1, <2>2
  <2>5. \A l \in U : G(l)
    <3> DEFINE f1 == {"PULLUP", "QUAL3"}
               f2 == {"OPENDRAIN", "INVERT", "ASYNC"}
    <3> HIDE DEF f1, f2
    <3>1. U = {GPIO_SetupPinOptions(p, FALSE, f1), GPIO_SetupPinOptions(p, TRUE, f2)}
      BY DEF f1, f2
    <3>2. G(GPIO_SetupPinOptions(p, FALSE, f1)) /\ G(GPIO_SetupPinOptions(p, TRUE, f2))
      BY <2>2
    <3> HIDE DEF U
    <3>3. QED
      BY <3>1, <3>2
  <2>6. c \in {Function("", 0, list) : list \in S \cup T \cup U \cup V}
    <3>1. c \in PinCalls
      BY <1>9 DEF Calls
    <3>2. PinCalls = {Function("", 0, list) : list \in S \cup T \cup U \cup V}
      BY DEF PinCalls, p
    <3> HIDE DEF S, T, U, V
    <3>3. QED
      BY <3>1, <3>2
  <2> HIDE DEF S, T, U, V
  <2>7. PICK l \in S \cup T \cup U \cup V : c = Function("", 0, l)
    BY <2>6
  <2>8. QED
    BY <1>2, <2>3, <2>4, <2>5, <2>7
<1>10. ASSUME topic = "interrupts" PROVE G(c.list)
  <2> DEFINE enable(ch) == <<[kind |-> "pie", enabled |-> {ch}], Set({"IER"}, {1, ch[1]})>>
             L == {InitPieCtrl, EnableInterrupts, GPIO_SetupXINT1Gpio(APin), GPIO_SetupXINT2Gpio(APin),
                   GPIO_SetupXINT3Gpio(APin), GPIO_SetupXINT4Gpio(APin), GPIO_SetupXINT5Gpio(APin)}
             S == {Function("InitSysPll", d, InitSysPll(reg, 0, 20, d)) : d \in Dividers}
             T == {Function("", 0, list) : list \in L}
             U == {Function("", 0, enable(ch)) : ch \in Raised[topic]}
  <2>1. c \in S \cup T \cup U
    <3>1. c \in InterruptCalls
      BY <1>10 DEF Calls
    <3>2. InterruptCalls = S \cup T \cup U
      BY DEF InterruptCalls
    <3> HIDE DEF S, T, U
    <3>3. QED
      BY <3>1, <3>2
  <2>2. G(InitPieCtrl) /\ G(EnableInterrupts) /\ \A ch : G(enable(ch))
    BY <1>1, TouchOthers
  <2>3. /\ G(GPIO_SetupXINT1Gpio(APin)) /\ G(GPIO_SetupXINT2Gpio(APin)) /\ G(GPIO_SetupXINT3Gpio(APin))
        /\ G(GPIO_SetupXINT4Gpio(APin)) /\ G(GPIO_SetupXINT5Gpio(APin))
    BY <1>1, GroupsUntouched
  <2>4. \A l \in L : G(l)
    BY <2>2, <2>3
  <2>5. c \in S => G(c.list)
    BY <1>3
  <2> HIDE DEF L, enable
  <2>6. c \in T => G(c.list)
    BY <1>2, <2>4
  <2>7. c \in U => G(c.list)
    BY <1>2, <2>2
  <2> HIDE DEF S, T, U
  <2>8. QED
    BY <2>1, <2>5, <2>6, <2>7
<1>11. G(c.list)
  BY <1>4, <1>5, <1>7, <1>8, <1>9, <1>10 DEF Calls
<1>12. QED
  BY <1>11 DEF G

\* What is left to execute outside of a routine is a list.
LEMMA LeftIsList == ASSUME SystemInv PROVE IsList(IF run = <<>> THEN todo ELSE run[4])
<1>1. CASE run = <<>>
  BY <1>1 DEF SystemInv, ListInv, Runs
<1>2. CASE run # <<>>
  BY <1>2 DEF SystemInv, RoutineInv, Runs
<1>3. QED
  BY <1>1, <1>2

\* A step that leaves the pins alone and executes at most a statement that is not about pins.
LEMMA PinsStay ==
    ASSUME SystemInv, PinInv, pin' = pin, run' = run,
           todo' = todo \/ (todo # <<>> /\ todo' = Tail(todo) /\ Head(todo).kind # "pin")
    PROVE  PinInv'
<1> DEFINE R == {p \in Pins : Rests(p)}
           left == IF run = <<>> THEN todo ELSE run[4]
<1>1. R' = R
  BY DEF Rests
<1>2. GroupsSheltered(left, R) /\ IsList(left)
  BY LeftIsList DEF PinInv
<1>3. GroupsSheltered(left', R)
  <2>1. CASE left' = left
    BY <1>2, <2>1
  <2>2. CASE run = <<>> /\ todo # <<>> /\ todo' = Tail(todo) /\ Head(todo).kind # "pin"
    <3>1. left = todo /\ left' = Tail(todo)
      BY <2>2
    <3>2. Len(todo) > 0
      <4>1. Len(todo) \in Nat /\ (Len(todo) = 0 => todo = <<>>)
        BY <1>2, <3>1, ListLen, EmptyList, Equal
      <4>2. QED
        BY <2>2, <4>1
    <3>3. \A p \in Pins : (p \in R /\ ~Disturbs(Head(todo), p)) \/ Zeroes(Head(todo), p) => p \in R
      BY <2>2 DEF Zeroes, Writes
    <3> HIDE DEF R
    <3>4. QED
      BY <1>2, <3>1, <3>2, <3>3, ShelterRest
  <2>3. QED
    BY <2>1, <2>2
<1> HIDE DEF left, R
<1>4. GroupsSheltered(left', R')
  BY <1>1, <1>3
<1>5. QED
  BY <1>4 DEF PinInv, left, R

\* The statements that are not about pins, and what the hardware and the program do beside them.
LEMMA OthersKeepPins ==
    ASSUME SystemInv, PinInv,
           \/ Protect \/ WriteReg \/ GateClocks \/ WriteData \/ WaitLock \/ SeizePump \/ WritePie
           \/ WriteVectors \/ Wake \/ Loop \/ Lock \/ Raise \/ UserSetting \/ UNCHANGED vars
    PROVE  PinInv'
<1>1. ASSUME NEW k, k # "pin", Statement(k), Done, pin' = pin, run' = run PROVE PinInv'
  BY <1>1, PinsStay DEF Statement, Done
<1>2. Protect \/ WriteReg \/ GateClocks => PinInv'
  BY <1>1 DEF Protect, WriteReg, GateClocks, pie
<1>3. WriteData \/ WaitLock \/ SeizePump \/ WritePie \/ WriteVectors => PinInv'
  BY <1>1 DEF WriteData, WaitLock, SeizePump, WritePie, WriteVectors, write, pie
<1>4. Wake => PinInv'
  BY <1>1 DEF Wake, Sleeping, write, pie
<1>5. Loop \/ Lock \/ Raise \/ UserSetting \/ UNCHANGED vars => PinInv'
  BY PinsStay DEF Loop, Lock, Raise, UserSetting, vars, cpu, write, pie
<1>6. QED
  BY <1>2, <1>3, <1>4, <1>5

\* Pins are written outside of routines, and with EALLOW set.
LEMMA PinOpen == ASSUME SystemInv, Statement("pin") PROVE eallow = TRUE /\ run = <<>>
<1>1. run = <<>>
  BY NotInRoutine DEF Statement, SystemInv
<1>2. PICK a, b \in Safe : Fits(a, eallow, reg) /\ Legal(Head(todo), a, b, Context)
  BY <1>1, Executed DEF Statement, SystemInv
<1>3. "open" \in a
  BY <1>2 DEF Legal, Admits, Statement
<1>4. QED
  BY <1>1, <1>2, <1>3 DEF Fits, Around

\* A write to pins: those it takes to GPIO rest, or are locked.
LEMMA WritePinKeepsPins == ASSUME SystemInv, PinInv, WritePin PROVE PinInv'
<1> DEFINE s == Head(todo)
           R == {p \in Pins : Rests(p)}
           open == {p \in s.keys : eallow /\ (s.field = "lock" \/ pin[p]["lock"] = 0)}
<1>1. /\ todo # <<>> /\ s.kind = "pin" /\ todo' = Tail(todo) /\ run' = run
      /\ pin' = [p \in Pins |-> IF p \in open THEN [pin[p] EXCEPT ![s.field] = s.val] ELSE pin[p]]
  BY DEF WritePin, Statement, Done, pie
<1>2. eallow = TRUE /\ run = <<>>
  BY PinOpen DEF WritePin
<1>3. /\ GroupsSheltered(todo, R) /\ IsList(todo)
      /\ \A p \in Pins : pin[p] = [f \in PinFields |-> pin[p][f]]
  BY <1>2, LeftIsList DEF PinInv
<1>4. "mux" \in PinFields /\ "lock" \in PinFields
  BY DEF PinFields
<1>5. ASSUME NEW p \in Pins PROVE pin'[p] = [f \in PinFields |-> pin'[p][f]]
  BY <1>1, <1>3
<1>6. ASSUME NEW p \in Pins, (p \in R /\ ~Disturbs(s, p)) \/ Zeroes(s, p) PROVE Rests(p)'
  <2> HIDE DEF s
  <2>1. CASE p \in open
    <3>1. /\ pin'[p] = [pin[p] EXCEPT ![s.field] = s.val] /\ DOMAIN pin[p] = PinFields
          /\ p \in s.keys
      BY <1>1, <1>3, <2>1
    <3>2. CASE Zeroes(s, p)
      <4>1. s.field = "mux" /\ s.val = 0
        BY <3>2 DEF Zeroes, Writes
      <4>2. pin'[p]["mux"] = 0
        BY <1>4, <3>1, <4>1
      <4>3. QED
        BY <4>2 DEF Rests
    <3>3. CASE ~Zeroes(s, p)
      <4>1. Rests(p) /\ s.field \notin {"mux", "lock"}
        BY <1>1, <1>6, <3>1, <3>3 DEF Disturbs, Writes
      <4>2. pin'[p]["mux"] = pin[p]["mux"] /\ pin'[p]["lock"] = pin[p]["lock"]
        BY <1>4, <3>1, <4>1
      <4>3. QED
        BY <4>1, <4>2 DEF Rests
    <3>4. QED
      BY <3>2, <3>3
  <2>2. CASE p \notin open
    <3>1. pin'[p] = pin[p]
      BY <1>1, <2>2
    <3>2. CASE Zeroes(s, p)
      <4>1. p \in s.keys /\ s.field = "mux"
        BY <3>2 DEF Zeroes, Writes
      <4>2. pin[p]["lock"] # 0
        BY <1>2, <2>2, <4>1
      <4>3. QED
        BY <3>1, <4>2 DEF Rests
    <3>3. CASE ~Zeroes(s, p)
      <4>1. Rests(p)
        BY <1>6, <3>3
      <4>2. QED
        BY <3>1, <4>1 DEF Rests
    <3>4. QED
      BY <3>2, <3>3
  <2>3. QED
    BY <2>1, <2>2
<1>7. GroupsSheltered(Tail(todo), R')
  <2>1. Len(todo) > 0
    <3>1. Len(todo) \in Nat /\ (Len(todo) = 0 => todo = <<>>)
      BY <1>3, ListLen, EmptyList, Equal
    <3>2. QED
      BY <1>1, <3>1
  <2>2. \A p \in Pins : (p \in R /\ ~Disturbs(Head(todo), p)) \/ Zeroes(Head(todo), p) => p \in R'
    BY <1>6
  <2>3. R' = {p \in Pins : Rests(p)'}
    OBVIOUS
  <2> DEFINE Q == R'
  <2> HIDE DEF R, Q
  <2>4. \A p \in Pins : (p \in R /\ ~Disturbs(Head(todo), p)) \/ Zeroes(Head(todo), p) => p \in Q
    BY <2>2 DEF Q
  <2>5. GroupsSheltered(Tail(todo), Q)
    BY <1>3, <2>1, <2>4, ShelterRest
  <2>6. QED
    BY <2>5 DEF Q
<1>8. pin' = [p \in Pins |-> pin'[p]]
  BY <1>1
<1> HIDE DEF s, open
<1>9. QED
  BY <1>1, <1>2, <1>5, <1>7, <1>8 DEF PinInv

\* A call of main(): its body configures no pins but for pull-ups.
LEMMA BodyTouches ==
    ASSUME NEW name, NEW fields, NEW pins, "pud" \notin fields,
           name \in {"InitSysPll", "InitPeripheralClocks", "SetupADCSoftwareSync",
                     "GPIO_EnableUnbondedIOPullups"}
    PROVE  Untouched(Body(name), fields, pins)
<1>1. 1 \in 1..6
  OBVIOUS
<1>2. CASE name = "InitSysPll"
  BY <1>1, <1>2, TouchPlls DEF Body
<1>3. CASE name = "InitPeripheralClocks"
  BY <1>3, TouchOthers DEF Body
<1>4. CASE name = "SetupADCSoftwareSync"
  BY <1>4, TouchOthers DEF Body
<1>5. CASE name = "GPIO_EnableUnbondedIOPullups"
  BY <1>5, PullupTouches DEF Body
<1>6. QED
  BY <1>2, <1>3, <1>4, <1>5

\* A call of main() is entered.
LEMMA EnterKeepsPins == ASSUME SystemInv, PinInv, Enter PROVE PinInv'
<1> DEFINE s == Head(todo)
           R == {p \in Pins : Rests(p)}
<1>1. /\ todo # <<>> /\ s.kind = "call" /\ todo' = Body(s.name) \o Tail(todo)
      /\ pin' = pin /\ run' = run
  BY DEF Enter, Statement, write, pie
<1>2. run = <<>>
  BY <1>1, NotInRoutine DEF SystemInv
<1>3. s.name \in {"InitSysPll", "InitPeripheralClocks", "SetupADCSoftwareSync", "GPIO_EnableUnbondedIOPullups"}
  <2>1. PICK a, b \in Safe : Legal(s, a, b, Context)
    BY <1>1, <1>2, Executed DEF SystemInv
  <2>2. AdmitsCall(s.name, a, Context)
    BY <1>1, <2>1 DEF Legal, Admits
  <2>3. QED
    BY <2>2 DEF AdmitsCall
<1>4. GroupsSheltered(todo, R) /\ IsList(todo)
  BY <1>2, LeftIsList DEF PinInv
<1>5. R' = R
  BY <1>1 DEF Rests
<1>6. Len(todo) > 0
  <2>1. Len(todo) \in Nat /\ (Len(todo) = 0 => todo = <<>>)
    BY <1>4, ListLen, EmptyList, Equal
  <2>2. QED
    BY <1>1, <2>1
<1>7. \A p \in Pins : (p \in R /\ ~Disturbs(Head(todo), p)) \/ Zeroes(Head(todo), p) => p \in R
  BY <1>1 DEF Zeroes, Writes
<1> HIDE DEF R
<1>8. GroupsSheltered(Tail(todo), R) /\ IsList(Tail(todo))
  BY <1>4, <1>6, <1>7, ShelterRest, Rest
<1> DEFINE body == Body(s.name)
<1>9. Untouched(body, {"gmux"}, Pins) /\ Untouched(body, {"mux", "lock"}, R)
  <2>1. "pud" \notin {"gmux"} /\ "pud" \notin {"mux", "lock"}
    OBVIOUS
  <2> HIDE DEF s
  <2>2. QED
    BY <1>3, <2>1, BodyTouches
<1> HIDE DEF body
<1>10. GroupsSheltered(body \o Tail(todo), R)
  BY <1>8, <1>9, ShelterNone, ShelterJoined
<1>11. GroupsSheltered(todo', R')
  BY <1>1, <1>5, <1>10 DEF body
<1>12. QED
  BY <1>1, <1>2, <1>11 DEF PinInv, R

\* After a reset every pin is a GPIO.
LEMMA ResetPin == PinAfterReset = [f \in PinFields |-> PinAfterReset[f]] /\ PinAfterReset["mux"] = 0
BY DEF PinAfterReset, PinFields

\* The first time that main() starts, every pin rests.
LEMMA InitPins == Init => PinInv
<1> SUFFICES ASSUME Init PROVE PinInv
  OBVIOUS
<1>1. pin = [p \in Pins |-> PinAfterReset] /\ run = <<>> /\ todo = main(device)
  BY DEF Init, Main
<1>2. /\ pin = [p \in Pins |-> pin[p]]
      /\ \A p \in Pins : pin[p] = [f \in PinFields |-> pin[p][f]] /\ pin[p]["mux"] = 0
  <2>1. \A p \in Pins : pin[p] = PinAfterReset
    BY <1>1
  <2>2. QED
    BY <1>1, <2>1, ResetPin
<1>3. {p \in Pins : Rests(p)} = Pins
  BY <1>2 DEF Rests
<1>4. GroupsSheltered(todo, Pins)
  BY <1>1, MainSheltered
<1>5. QED
  BY <1>1, <1>2, <1>3, <1>4 DEF PinInv

\* And so it is after every reset.
LEMMA RestartPins == ASSUME SystemInv, NEW c, NEW f, Restart(c, f) PROVE PinInv' /\ todo' = Main[device]
<1>1. pin' = [p \in Pins |-> PinAfterReset] /\ run' = <<>> /\ todo' = Main[device] /\ device \in Devices
  BY DEF Restart, SystemInv
<1>2. todo' = main(device)
  BY <1>1 DEF Main
<1>3. /\ pin' = [p \in Pins |-> pin'[p]]
      /\ \A p \in Pins : pin'[p] = [g \in PinFields |-> pin'[p][g]] /\ pin'[p]["mux"] = 0
  <2>1. \A p \in Pins : pin'[p] = PinAfterReset
    BY <1>1
  <2>2. QED
    BY <1>1, <2>1, ResetPin
<1>4. {p \in Pins : Rests(p)'} = Pins
  BY <1>3 DEF Rests
<1>5. GroupsSheltered(todo', Pins)
  BY <1>2, MainSheltered
<1>6. QED
  BY <1>1, <1>3, <1>4, <1>5 DEF PinInv

\* A routine takes the list over and gives it back; a function that is called brings its own.
LEMMA SwitchesKeepPins == ASSUME SystemInv, PinInv, Take \/ Return \/ UserCall PROVE PinInv'
<1> DEFINE R == {p \in Pins : Rests(p)}
           left == IF run = <<>> THEN todo ELSE run[4]
<1>1. pin' = pin
  BY DEF Take, Return, UserCall, write
<1>2. R' = R
  BY <1>1 DEF Rests
<1>3. GroupsSheltered(left, R)
  BY DEF PinInv
<1>4. CASE Take
  <2>1. PICK c : c = Lowest(Pending)
    OBVIOUS
  <2>2. run = <<>> /\ run' = <<c, Entry(c), eallow, todo>>
    BY <1>4, <2>1 DEF Take
  <2>3. run' # <<>> /\ run'[4] = todo
    BY <2>2
  <2>4. left' = left
    BY <2>2, <2>3
  <2> HIDE DEF left, R
  <2>5. GroupsSheltered(left', R')
    BY <1>2, <1>3, <2>4
  <2>6. QED
    BY <1>1, <2>5 DEF PinInv, left, R
<1>5. CASE Return
  <2>1. run' = <<>> /\ todo' = run[4]
    BY <1>5 DEF Return
  <2>2. run # <<>>
    <3>1. ASSUME run = <<>> PROVE FALSE
      <4>1. todo # <<>> /\ Head(todo).kind = "iret"
        BY <1>5 DEF Return, Statement
      <4>2. PICK a, b \in Safe : Legal(Head(todo), a, b, Context)
        BY <3>1, <4>1, Executed DEF SystemInv
      <4>3. QED
        BY <4>1, <4>2 DEF Legal, Admits
    <3>2. QED
      BY <3>1
  <2>3. left' = left
    BY <2>1, <2>2
  <2> HIDE DEF left, R
  <2>4. GroupsSheltered(left', R')
    BY <1>2, <1>3, <2>3
  <2>5. QED
    BY <1>1, <2>4 DEF PinInv, left, R
<1>6. CASE UserCall
  <2>1. PICK c \in Calls : todo' = c.list
    BY <1>6 DEF UserCall
  <2>2. run' = <<>>
    BY <1>6 DEF UserCall, Idle, pie
  <2>3. left' = c.list
    BY <2>1, <2>2
  <2> HIDE DEF left, R
  <2>4. GroupsSheltered(left', R')
    BY <2>3, CallSheltered
  <2>5. QED
    BY <1>1, <2>4 DEF PinInv, left, R
<1>7. QED
  BY <1>4, <1>5, <1>6

\* Every step keeps the groups sheltered.
LEMMA PinsKept == SystemInv /\ PinInv /\ [Next]_vars => PinInv'
<1> SUFFICES ASSUME SystemInv, PinInv, [Next]_vars PROVE PinInv'
  OBVIOUS
<1>1. WakeFromHib \/ WatchdogReset \/ ExternalReset => PinInv'
  BY RestartPins DEF WakeFromHib, WatchdogReset, ExternalReset
<1>2. QED
  BY <1>1, OthersKeepPins, WritePinKeepsPins, EnterKeepsPins, SwitchesKeepPins DEF Next, Step

\* Whatever is left to execute, a pin whose group it changes is a GPIO, or locked, by then.
THEOREM PinInvAlways == Spec => []PinInv
<1>1. QED
  BY InitPins, PinsKept, SystemInvAlways, PTL DEF Spec

\* A pin's group changes only while the pin is a GPIO, or by a reset.
THEOREM NoGlitchAlways == Spec => NoGlitch
<1> DEFINE Changes == \A p \in Pins : pin'[p]["gmux"] # pin[p]["gmux"] =>
                        pin[p]["mux"] = 0 \/ todo' = Main[device]
<1>1. SystemInv /\ PinInv /\ [Next]_vars => [Changes]_vars
  <2> SUFFICES ASSUME SystemInv, PinInv, [Next]_vars PROVE Changes
    OBVIOUS
  <2>1. CASE WritePin
    <3> DEFINE s == Head(todo)
               open == {p \in s.keys : eallow /\ (s.field = "lock" \/ pin[p]["lock"] = 0)}
               R == {p \in Pins : Rests(p)}
    <3> SUFFICES ASSUME NEW p \in Pins, pin'[p]["gmux"] # pin[p]["gmux"] PROVE pin[p]["mux"] = 0
      OBVIOUS
    <3>1. /\ todo # <<>> /\ s.kind = "pin"
          /\ pin' = [q \in Pins |-> IF q \in open THEN [pin[q] EXCEPT ![s.field] = s.val] ELSE pin[q]]
      BY <2>1 DEF WritePin, Statement
    <3>2. run = <<>>
      BY <2>1, PinOpen DEF WritePin
    <3>3. GroupsSheltered(todo, R) /\ IsList(todo) /\ pin[p] = [f \in PinFields |-> pin[p][f]]
      BY <3>2, LeftIsList DEF PinInv
    <3>4. Len(todo) > 0 /\ 1 \in 1..Len(todo) /\ s = todo[1]
      <4>1. Len(todo) \in Nat /\ (Len(todo) = 0 => todo = <<>>)
        BY <3>3, ListLen, EmptyList, Equal
      <4>2. QED
        BY <3>1, <3>3, <4>1, Rest
    <3> HIDE DEF s
    <3>5. p \in open /\ s.field = "gmux"
      BY <3>1, <3>3
    <3>6. Writes(s, {"gmux"}, p)
      BY <3>1, <3>5 DEF Writes
    <3>7. Sheltered(todo, 1, p, R)
      BY <3>3, <3>4, <3>6 DEF GroupsSheltered
    <3>8. Rests(p)
      BY <3>7 DEF Sheltered
    <3>9. QED
      BY <3>5, <3>8 DEF Rests
  <2>2. CASE WakeFromHib \/ WatchdogReset \/ ExternalReset
    <3>1. todo' = Main[device]
      BY <2>2, RestartPins DEF WakeFromHib, WatchdogReset, ExternalReset
    <3>2. QED
      BY <3>1
  <2>3. ASSUME pin' = pin PROVE Changes
    BY <2>3
  <2>4. CASE Protect \/ WriteReg \/ GateClocks \/ WriteData \/ Enter \/ WaitLock \/ SeizePump \/ WritePie
             \/ WriteVectors \/ Loop
    BY <2>3, <2>4 DEF Protect, WriteReg, GateClocks, WriteData, Enter, WaitLock, SeizePump, WritePie,
                      WriteVectors, Loop, write
  <2>5. CASE Wake \/ Lock \/ Raise \/ Take \/ Return \/ UserCall \/ UserSetting \/ UNCHANGED vars
    BY <2>3, <2>5 DEF Wake, Lock, Raise, Take, Return, UserCall, UserSetting, vars, write
  <2>6. QED
    BY <2>1, <2>2, <2>4, <2>5 DEF Next, Step
<1>2. QED
  BY <1>1, SystemInvAlways, PinInvAlways, PTL DEF Spec, NoGlitch
==============================================================================
