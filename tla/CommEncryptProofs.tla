-------------------------- MODULE CommEncryptProofs --------------------------
(***************************************************************************)
(* Proofs about CommEncrypt, for any lists of types and any number of      *)
(* messages.                                                               *)
(***************************************************************************)
EXTENDS CommEncrypt, WellFoundedInduction, TLAPS

-----------------------------------------------------------------------------
(* The ciphers.                                                            *)

\* A nonempty set of natural numbers below a bound has a largest element, and
\* Max is it.
LEMMA MaxIs ==
  ASSUME NEW n \in Nat, NEW S \in SUBSET (0..n), S # {}
  PROVE  Max(S) \in S /\ \A k \in S : k <= Max(S)
<1> DEFINE R == OpToRel(<, Nat)
           T == {n - k : k \in S}
<1>1. IsWellFoundedOn(R, Nat)
  BY Zenon, NatLessThanWellFounded
<1>2. \A a, b \in Nat : a < b => <<a, b>> \in R
  BY DEF OpToRel
<1>3. T \subseteq Nat /\ T # {}
  <2>1. \A k \in S : n - k \in Nat
    OBVIOUS
  <2> QED
    BY Zenon, <2>1
<1> HIDE DEF R
<1>4. PICK t \in T : \A a \in T : ~(<<a, t>> \in R)
  <2> HIDE DEF T
  <2> QED
    BY Zenon, <1>1, <1>3, WFMin
<1>5. \A a \in T : ~(a < t)
  BY Zenon, <1>2, <1>3, <1>4
<1>6. PICK x \in S : t = n - x
  OBVIOUS
<1>7. \A y \in S : x >= y
  <2> TAKE y \in S
  <2>1. n - y \in T
    OBVIOUS
  <2>2. ~(n - y < n - x)
    BY Zenon, <1>5, <1>6, <2>1
  <2> QED
    BY <2>2
<1>8. Max(S) \in S /\ \A y \in S : Max(S) >= y
  BY Zenon, <1>7 DEF Max
<1> QED
  BY <1>8

Ciphers == {"AES", "RSA", "ZLib"}

Kinds == {"AES", "ZLib", "RSApri", "RSApub"}

Keys == {"RSApri", "RSApub"}

\* A packet, whatever it holds.
Packets == [msg : Msgs \cup {Null, Garbage}, layers : Seq(Kinds)]

\* The layers of a list of types.
LEMMA LayersAre ==
  ASSUME NEW types \in Seq(Ciphers), NEW key \in Keys
  PROVE  /\ Layers(types, key) \in Seq(Kinds) /\ Len(Layers(types, key)) = Len(types)
         /\ \A i \in 1..Len(types) :
               Layers(types, key)[i] = IF types[i] = "RSA" THEN key ELSE types[i]
<1>1. \A i \in 1..Len(types) : types[i] \in Ciphers
  OBVIOUS
<1>2. \A i \in 1..Len(types) : (IF types[i] = "RSA" THEN key ELSE types[i]) \in Kinds
  BY <1>1 DEF Ciphers, Kinds, Keys
<1>3. Len(types) \in Nat
  OBVIOUS
<1> QED
  BY <1>2, <1>3 DEF Layers

\* What a list adds to a message without a layer.
LEMMA WrappedIs ==
  ASSUME NEW types \in Seq(Ciphers), NEW key \in Keys, NEW m \in Msgs \cup {Null, Garbage}
  PROVE  /\ Wrapped(types, key, Plain(m)) = [msg |-> m, layers |-> Layers(types, key)]
         /\ Wrapped(types, key, Plain(m)) \in Packets
<1> DEFINE l == Layers(types, key)
<1>1. l \in Seq(Kinds)
  BY LayersAre
<1> HIDE DEF l
<1>2. << >> \o l = l
  BY <1>1
<1>3. Wrapped(types, key, Plain(m)) = [msg |-> m, layers |-> << >> \o l]
  BY DEF Wrapped, Plain, l
<1> QED
  BY <1>1, <1>2, <1>3 DEF Packets, l

\* How many types take off a layer: no more than there are of either.
LEMMA UndoneIs ==
  ASSUME NEW types \in Seq(Ciphers), NEW key \in Keys, NEW p \in Packets
  PROVE  LET l == Layers(types, key)
             fits(k) == SubSeq(l, Len(l) - k + 1, Len(l)) =
                          SubSeq(p.layers, Len(p.layers) - k + 1, Len(p.layers))
             u == Undone(types, key, p)
         IN  /\ u \in 0..Len(types) /\ u <= Len(p.layers) /\ fits(u)
             /\ \A k \in 0..Len(types) : k <= Len(p.layers) /\ fits(k) => k <= u
<1> DEFINE l == Layers(types, key)
           fits(k) == SubSeq(l, Len(l) - k + 1, Len(l)) =
                        SubSeq(p.layers, Len(p.layers) - k + 1, Len(p.layers))
           S == {k \in 0..Len(l) : k <= Len(p.layers) /\ fits(k)}
<1>1. l \in Seq(Kinds) /\ Len(l) = Len(types) /\ Len(l) \in Nat
  BY LayersAre
<1>2. p.layers \in Seq(Kinds) /\ Len(p.layers) \in Nat
  BY DEF Packets
<1>3. fits(0)
  <2> HIDE DEF l
  <2>1. SubSeq(l, Len(l) - 0 + 1, Len(l)) = << >>
    BY <1>1
  <2>2. SubSeq(p.layers, Len(p.layers) - 0 + 1, Len(p.layers)) = << >>
    BY <1>2
  <2> QED
    BY <2>1, <2>2
<1>4. S \in SUBSET (0..Len(l)) /\ 0 \in S
  <2> HIDE DEF fits, l
  <2>1. 0 \in 0..Len(l) /\ 0 <= Len(p.layers)
    BY <1>1, <1>2
  <2> QED
    BY Zenon, <1>3, <2>1
<1>5. Undone(types, key, p) = Max(S)
  BY Zenon DEF Undone
<1>6. Max(S) \in S /\ \A k \in S : k <= Max(S)
  <2> HIDE DEF S
  <2> QED
    BY Zenon, <1>1, <1>4, MaxIs
<1> QED
  BY Zenon, <1>1, <1>5, <1>6

\* Types that find the layers of their own list, be it under the other key: only
\* RSA can fail, and if none does the message is left without a layer.
LEMMA UndoneOwn ==
  ASSUME NEW types \in Seq(Ciphers), NEW key \in Keys, NEW other \in Keys, NEW m \in Msgs
  PROVE  LET p == [msg |-> m, layers |-> Layers(types, other)]
             u == Undone(types, key, p)
         IN  /\ u \in 0..Len(types)
             /\ u < Len(types) => types[Len(types) - u] = "RSA"
             /\ u = Len(types) => Peeled(p, u) = Plain(m)
<1> DEFINE l == Layers(types, key)
           o == Layers(types, other)
           n == Len(types)
           p == [msg |-> m, layers |-> o]
           u == Undone(types, key, p)
<1>1. /\ l \in Seq(Kinds) /\ o \in Seq(Kinds) /\ Len(l) = n /\ Len(o) = n /\ n \in Nat
      /\ \A i \in 1..n : types[i] # "RSA" => l[i] = o[i]
  <2>1. n \in Nat
    OBVIOUS
  <2> QED
    BY <2>1, LayersAre
<1>2. p \in Packets /\ p.layers = o /\ p.msg = m
  BY <1>1 DEF Packets
<1>3. /\ u \in 0..n /\ SubSeq(l, n - u + 1, n) = SubSeq(o, n - u + 1, n)
      /\ \A k \in 0..n : SubSeq(l, n - k + 1, n) = SubSeq(o, n - k + 1, n) => k <= u
  <2> HIDE DEF p
  <2>1. /\ u \in 0..n /\ SubSeq(l, Len(l) - u + 1, Len(l)) =
                           SubSeq(p.layers, Len(p.layers) - u + 1, Len(p.layers))
        /\ \A k \in 0..n : /\ k <= Len(p.layers)
                           /\ SubSeq(l, Len(l) - k + 1, Len(l)) =
                                SubSeq(p.layers, Len(p.layers) - k + 1, Len(p.layers))
                           => k <= u
    BY Zenon, <1>2, UndoneIs
  <2>2. \A k \in 0..n : k <= n
    BY <1>1
  <2> HIDE DEF u, l, o, n
  <2> QED
    BY Zenon, <1>1, <1>2, <2>1, <2>2
<1>4. ASSUME u < n PROVE types[n - u] = "RSA"
  <2> SUFFICES ASSUME types[n - u] # "RSA" PROVE FALSE
    OBVIOUS
  <2> HIDE DEF l, o, u, n
  <2> DEFINE j == n - u
  <2>1. j \in 1..n /\ u + 1 \in 0..n /\ n - u + 1 = j + 1 /\ n - (u + 1) + 1 = j /\ ~(u + 1 <= u)
    BY <1>1, <1>3, <1>4
  <2>2. l[j] = o[j]
    BY <1>1, <2>1
  <2>3. \A i \in j + 1..n : l[i] = o[i]
    <3> HIDE DEF j
    <3> TAKE i \in j + 1..n
    <3>1. i - j \in 1..n - j
      BY <1>1, <2>1
    <3>2. SubSeq(l, j + 1, n)[i - j] = l[i] /\ SubSeq(o, j + 1, n)[i - j] = o[i]
      BY <1>1, <2>1, <3>1
    <3>3. SubSeq(l, j + 1, n) = SubSeq(o, j + 1, n)
      BY Zenon, <1>3, <2>1
    <3> QED
      BY Zenon, <3>2, <3>3
  <2>4. SubSeq(l, j, n) = SubSeq(o, j, n)
    <3> HIDE DEF j
    <3>1. \A i \in j..n : l[i] = o[i]
      BY <2>1, <2>2, <2>3, <1>1
    <3> QED
      BY SMTT(30), <1>1, <2>1, <3>1
  <2>5. SubSeq(l, n - (u + 1) + 1, n) = SubSeq(o, n - (u + 1) + 1, n)
    BY Zenon, <2>1, <2>4
  <2> QED
    BY Zenon, <1>3, <2>1, <2>5
<1>5. ASSUME u = n PROVE Peeled(p, u) = Plain(m)
  <2>1. SubSeq(o, 1, n - n) = << >>
    BY <1>1
  <2>2. Peeled(p, u) = [msg |-> m, layers |-> SubSeq(o, 1, n - n)]
    <3> HIDE DEF o, u, n
    <3>1. Peeled(p, u) = [msg |-> m, layers |-> SubSeq(o, 1, Len(o) - u)]
      <4> DEFINE v == SubSeq(o, 1, Len(o) - u)
      <4>1. Peeled(p, u) = [p EXCEPT !.layers = v]
        BY DEF Peeled
      <4> HIDE DEF v
      <4>2. [p EXCEPT !.layers = v] = [msg |-> m, layers |-> v]
        OBVIOUS
      <4> QED
        BY <4>1, <4>2 DEF v
    <3> QED
      BY Zenon, <1>1, <1>5, <3>1
  <2> QED
    BY <2>1, <2>2 DEF Plain
<1> QED
  BY <1>3, <1>4, <1>5

\* What is left when layers are taken off is a packet.
LEMMA PeeledIs ==
  ASSUME NEW types \in Seq(Ciphers), NEW key \in Keys, NEW p \in Packets
  PROVE  Peeled(p, Undone(types, key, p)) \in Packets
<1> DEFINE u == Undone(types, key, p)
<1>1. u \in 0..Len(types) /\ u <= Len(p.layers)
  BY Zenon, UndoneIs
<1> HIDE DEF u
<1>2. p.layers \in Seq(Kinds) /\ p.msg \in Msgs \cup {Null, Garbage}
  BY DEF Packets
<1>3. u \in Nat /\ Len(p.layers) - u \in 0..Len(p.layers)
  <2>1. Len(p.layers) \in Nat /\ Len(types) \in Nat
    BY <1>2
  <2> QED
    BY <1>1, <2>1
<1>4. SubSeq(p.layers, 1, Len(p.layers) - u) \in Seq(Kinds)
  BY <1>2, <1>3
<1> DEFINE v == SubSeq(p.layers, 1, Len(p.layers) - u)
<1>5. Peeled(p, u) = [p EXCEPT !.layers = v]
  BY DEF Peeled
<1> HIDE DEF v
<1>6. [p EXCEPT !.layers = v] \in Packets
  BY Zenon, <1>4 DEF Packets, v
<1> QED
  BY <1>5, <1>6 DEF u

-----------------------------------------------------------------------------
(* One direction: its packets q, the messages s sent, what has been        *)
(* received, and whether the first packet, h = 1, is being handled.        *)

\* m as a list of types encodes it.
CodedBy(types, key, m) ==
    IF m = Empty THEN Plain(m) ELSE Wrapped(types, key, Plain(m))

Flow(types, key, q, s, g, h) ==
    /\ Len(g) + Len(q) = Len(s) + h /\ h <= Len(q) /\ Len(q) <= Len(s)
    /\ \A i \in 1..Len(q) : q[i] = CodedBy(types, key, s[Len(s) - Len(q) + i])
    /\ \A i \in 1..Len(g) : g[i] = Plain(s[i])

\* An encoded message is a packet, which has it inside.
LEMMA CodedIs ==
  ASSUME NEW types \in Seq(Ciphers), NEW key \in Keys, NEW m \in Msgs
  PROVE  /\ CodedBy(types, key, m) \in Packets
         /\ CodedBy(types, key, m).msg = m
         /\ m # Empty => CodedBy(types, key, m) = [msg |-> m, layers |-> Layers(types, key)]
         /\ m = Empty \/ types = << >> => CodedBy(types, key, m) = Plain(m)
<1>1. Plain(m) \in Packets /\ Plain(m).msg = m
  BY DEF Plain, Packets
<1>2. /\ Wrapped(types, key, Plain(m)) = [msg |-> m, layers |-> Layers(types, key)]
      /\ Wrapped(types, key, Plain(m)) \in Packets
  BY WrappedIs
<1>3. ASSUME types = << >> PROVE Layers(types, key) = << >>
  <2>1. Layers(types, key) \in Seq(Kinds) /\ Len(Layers(types, key)) = 0
    BY Zenon, <1>3, LayersAre
  <2> QED
    BY <2>1
<1>4. CASE m = Empty
  BY <1>1, <1>4 DEF CodedBy
<1>5. CASE m # Empty
  <2>1. CodedBy(types, key, m) = [msg |-> m, layers |-> Layers(types, key)]
    BY Zenon, <1>2, <1>5 DEF CodedBy
  <2>2. CodedBy(types, key, m) \in Packets
    BY Zenon, <1>2, <1>5 DEF CodedBy
  <2>3. CodedBy(types, key, m).msg = m
    BY <2>1
  <2>4. types = << >> => CodedBy(types, key, m) = Plain(m)
    BY <1>3, <2>1 DEF Plain
  <2> QED
    BY <1>5, <2>1, <2>2, <2>3, <2>4
<1> QED
  BY <1>4, <1>5

\* A message is sent.
LEMMA FlowSends ==
  ASSUME NEW types, NEW key, NEW q \in Seq(Packets), NEW s \in Seq(Msgs),
         NEW g \in Seq(Packets), NEW h \in {0, 1}, Flow(types, key, q, s, g, h),
         NEW m \in Msgs, CodedBy(types, key, m) \in Packets
  PROVE  Flow(types, key, Append(q, CodedBy(types, key, m)), Append(s, m), g, h)
<1> DEFINE c == CodedBy(types, key, m)
           r == Append(q, c)
           t == Append(s, m)
<1>1. /\ Len(q) \in Nat /\ Len(s) \in Nat /\ Len(g) \in Nat
      /\ Len(r) = Len(q) + 1 /\ Len(t) = Len(s) + 1
      /\ \A i \in 1..Len(q) : r[i] = q[i]
      /\ \A i \in 1..Len(s) : t[i] = s[i]
      /\ r[Len(q) + 1] = c /\ t[Len(s) + 1] = m
  <2> HIDE DEF c
  <2> QED
    BY DEF c
<1>2. /\ Len(g) + Len(q) = Len(s) + h /\ h <= Len(q) /\ Len(q) <= Len(s)
      /\ \A i \in 1..Len(q) : q[i] = CodedBy(types, key, s[Len(s) - Len(q) + i])
      /\ \A i \in 1..Len(g) : g[i] = Plain(s[i])
  BY Zenon DEF Flow
<1> HIDE DEF c, r, t
<1>3. Len(g) + Len(r) = Len(t) + h /\ h <= Len(r) /\ Len(r) <= Len(t)
  BY <1>1, <1>2
<1>4. ASSUME NEW i \in 1..Len(r) PROVE r[i] = CodedBy(types, key, t[Len(t) - Len(r) + i])
  <2>1. Len(t) - Len(r) + i = Len(s) - Len(q) + i
    BY <1>1
  <2>2. CASE i = Len(q) + 1
    <3>1. Len(s) - Len(q) + i = Len(s) + 1
      BY <1>1, <2>2
    <3> QED
      BY Zenon, <1>1, <2>1, <2>2, <3>1 DEF c
  <2>3. CASE i # Len(q) + 1
    <3>1. i \in 1..Len(q) /\ Len(s) - Len(q) + i \in 1..Len(s)
      BY <1>1, <1>2, <2>3
    <3> QED
      BY Zenon, <1>1, <1>2, <2>1, <3>1
  <2> QED
    BY <2>2, <2>3
<1>5. ASSUME NEW i \in 1..Len(g) PROVE g[i] = Plain(t[i])
  <2>1. i \in 1..Len(s)
    BY <1>1, <1>2
  <2> QED
    BY Zenon, <1>1, <1>2, <2>1
<1> QED
  BY Zenon, <1>3, <1>4, <1>5 DEF Flow, r, t, c

\* The first packet is handed over ...
LEMMA FlowGives ==
  ASSUME NEW types, NEW key, NEW q \in Seq(Packets), NEW s \in Seq(Msgs),
         NEW g \in Seq(Packets), Flow(types, key, q, s, g, 0), q # << >>,
         NEW p \in Packets,
         \A m \in Msgs : Head(q) = CodedBy(types, key, m) => p = Plain(m)
  PROVE  Flow(types, key, q, s, Append(g, p), 1)
<1> DEFINE b == Append(g, p)
<1>1. /\ Len(q) \in Nat \ {0} /\ Len(s) \in Nat /\ Len(g) \in Nat /\ Head(q) = q[1]
      /\ Len(b) = Len(g) + 1 /\ b[Len(g) + 1] = p
      /\ \A i \in 1..Len(g) : b[i] = g[i]
  OBVIOUS
<1>2. /\ Len(g) + Len(q) = Len(s) + 0 /\ Len(q) <= Len(s)
      /\ \A i \in 1..Len(q) : q[i] = CodedBy(types, key, s[Len(s) - Len(q) + i])
      /\ \A i \in 1..Len(g) : g[i] = Plain(s[i])
  BY Zenon DEF Flow
<1> HIDE DEF b
<1>3. Len(b) + Len(q) = Len(s) + 1 /\ 1 <= Len(q)
  <2>1. Len(q) \in Nat /\ Len(q) # 0 /\ Len(s) \in Nat /\ Len(g) \in Nat
    BY Zenon, <1>1
  <2>2. Len(g) + Len(q) = Len(s) + 0 /\ Len(b) = Len(g) + 1
    BY Zenon, <1>1, <1>2
  <2> DEFINE a == Len(g)
             n == Len(q)
             k == Len(s)
  <2>3. a \in Nat /\ n \in Nat /\ n # 0 /\ k \in Nat /\ a + n = k + 0
    BY Zenon, <2>1, <2>2
  <2> HIDE DEF a, n, k
  <2>4. (a + 1) + n = k + 1 /\ 1 <= n
    BY <2>3
  <2> QED
    BY Zenon, <2>2, <2>4 DEF a, n, k
<1>4. Len(s) - Len(q) + 1 = Len(g) + 1 /\ Len(g) + 1 \in 1..Len(s) /\ 1 \in 1..Len(q)
  <2>1. Len(q) \in Nat /\ Len(q) # 0 /\ Len(s) \in Nat /\ Len(g) \in Nat
    BY Zenon, <1>1
  <2>2. Len(g) + Len(q) = Len(s)
    BY <1>2, <2>1
  <2> QED
    BY <2>1, <2>2
<1>5. s[Len(g) + 1] \in Msgs
  <2>1. \A i \in 1..Len(s) : s[i] \in Msgs
    OBVIOUS
  <2> QED
    BY Zenon, <1>4, <2>1
<1>6. p = Plain(s[Len(g) + 1])
  <2>1. q[1] = CodedBy(types, key, s[Len(s) - Len(q) + 1])
    BY Zenon, <1>2, <1>4
  <2>2. Head(q) = CodedBy(types, key, s[Len(g) + 1])
    BY Zenon, <1>1, <1>4, <2>1
  <2> QED
    BY Zenon, <1>5, <2>2
<1>7. ASSUME NEW i \in 1..Len(b) PROVE b[i] = Plain(s[i])
  <2>1. i = Len(g) + 1 \/ i \in 1..Len(g)
    BY <1>1
  <2> QED
    BY Zenon, <1>1, <1>2, <1>6, <2>1
<1> QED
  BY Zenon, <1>2, <1>3, <1>7 DEF Flow, b

\* ... and deleted.
LEMMA FlowDeletes ==
  ASSUME NEW types, NEW key, NEW q \in Seq(Packets), NEW s \in Seq(Msgs),
         NEW g \in Seq(Packets), Flow(types, key, q, s, g, 1)
  PROVE  Flow(types, key, Tail(q), s, g, 0)
<1> DEFINE r == Tail(q)
<1>1. /\ Len(g) + Len(q) = Len(s) + 1 /\ 1 <= Len(q) /\ Len(q) <= Len(s)
      /\ \A i \in 1..Len(q) : q[i] = CodedBy(types, key, s[Len(s) - Len(q) + i])
      /\ \A i \in 1..Len(g) : g[i] = Plain(s[i])
  BY Zenon DEF Flow
<1>2. Len(q) \in Nat /\ Len(s) \in Nat /\ Len(g) \in Nat
  OBVIOUS
<1>3. Len(r) = Len(q) - 1 /\ \A i \in 1..Len(q) - 1 : r[i] = q[i + 1]
  BY <1>1, <1>2
<1> HIDE DEF r
<1>4. Len(g) + Len(r) = Len(s) + 0 /\ 0 <= Len(r) /\ Len(r) <= Len(s)
  BY <1>1, <1>2, <1>3
<1>5. ASSUME NEW i \in 1..Len(r) PROVE r[i] = CodedBy(types, key, s[Len(s) - Len(r) + i])
  <2>1. /\ i \in 1..Len(q) - 1 /\ i + 1 \in 1..Len(q)
        /\ Len(s) - Len(q) + (i + 1) = Len(s) - Len(r) + i
    BY <1>1, <1>2, <1>3
  <2> QED
    BY Zenon, <1>1, <1>3, <2>1
<1> QED
  BY Zenon, <1>1, <1>4, <1>5 DEF Flow, r

-----------------------------------------------------------------------------
(* The inductive invariant.                                                *)

\* The list, and the key of RSA, with which the sender of w encodes.
ListOf(w) ==
    IF "client" \in {w[1], w[2]} THEN m_vcClinetType["A"] ELSE m_vcSVLinkType["A"]

KeyOf(w) == IF w \in {<<"client", "A">>, <<"A", "B">>} THEN "RSApri" ELSE "RSApub"

\* Directions in which the sender encodes if and only if the receiver decodes.
Agreed(w) == "client" \in {w[1], w[2]} \/ BothOrNone

\* 1 while the receiver of w handles its first packet.
Handled(w) == IF w[2] \in Servers /\ handling[w[2]].peer = w[1] THEN 1 ELSE 0

Typed ==
    /\ m_vcClinetType \in [Servers -> Seq(Ciphers)]
    /\ m_vcSVLinkType \in [Servers -> Seq(Ciphers)]
    /\ m_vcClinetType["B"] = m_vcSVLinkType["A"]
    /\ m_objBuffer \in [Servers -> Packets]
    /\ wire \in [Wires -> Seq(Packets)]
    /\ sent \in [Wires -> Seq(Msgs)]
    /\ got \in [Wires -> Seq(Packets)]
    /\ handling \in [Servers -> [peer : {"client", "A", "B", Nobody},
                                 kept : BOOLEAN, wrote : BOOLEAN]]

\* A server waits, or handles the first packet of a session.
Busy(s) ==
    \/ handling[s] = Waiting
    \/ /\ <<handling[s].peer, s>> \in Wires
       /\ wire[<<handling[s].peer, s>>] # << >>
       /\ got[<<handling[s].peer, s>>] # << >>

\* What is on the wire, and what has come off it.
Carried(w) ==
    Agreed(w) => Flow(ListOf(w), KeyOf(w), wire[w], sent[w], got[w], Handled(w))

Reads(s) ==
    (handling[s].peer # Nobody /\ ~(handling[s].kept /\ handling[s].wrote)) =>
       LET g == got[<<handling[s].peer, s>>] IN Deref(s) = g[Len(g)]

IInv ==
    /\ Typed
    /\ \A s \in Servers : Busy(s) /\ Reads(s)
    /\ \A w \in Wires : Carried(w)

\* The list of a server for a session is that of both its directions, and in
\* directions agreed upon Passes looks at a list that is empty if and only if
\* this one is.
LEMMA ListIs ==
  ASSUME Typed, NEW s \in Servers, NEW peer, <<s, peer>> \in Wires
  PROVE  LET T == Types(s, bSVLink(s, peer)) IN
         /\ T \in Seq(Ciphers)
         /\ ListOf(<<s, peer>>) = T /\ ListOf(<<peer, s>>) = T
         /\ KeyOf(<<s, peer>>) = IF bSVLink(s, peer) THEN "RSApri" ELSE "RSApub"
         /\ KeyOf(<<peer, s>>) \in Keys /\ KeyOf(<<s, peer>>) \in Keys
         /\ Agreed(<<s, peer>>) \/ Agreed(<<peer, s>>) =>
               (m_vcClinetType[s] = << >> <=> T = << >>)
         /\ <<peer, s>> \in Wires
<1>1. \/ s = "A" /\ peer = "client"
      \/ s = "A" /\ peer = "B"
      \/ s = "B" /\ peer = "A"
  <2>1. \/ s = "client" /\ peer = "A"
        \/ s = "A" /\ peer = "client"
        \/ s = "A" /\ peer = "B"
        \/ s = "B" /\ peer = "A"
    BY DEF Wires
  <2>2. s # "client"
    BY DEF Servers
  <2> QED
    BY <2>1, <2>2
<1>2. /\ m_vcClinetType["A"] \in Seq(Ciphers) /\ m_vcSVLinkType["A"] \in Seq(Ciphers)
      /\ m_vcClinetType["B"] = m_vcSVLinkType["A"]
  BY DEF Typed, Servers
<1>3. BothOrNone <=> (m_vcClinetType["A"] = << >> <=> m_vcSVLinkType["A"] = << >>)
  BY DEF BothOrNone
<1>4. CASE s = "A" /\ peer = "client"
  BY <1>2, <1>4 DEF Types, bSVLink, ListOf, KeyOf, Keys, Agreed, Wires
<1>5. CASE s = "A" /\ peer = "B"
  BY <1>2, <1>3, <1>5 DEF Types, bSVLink, ListOf, KeyOf, Keys, Agreed, Wires
<1>6. CASE s = "B" /\ peer = "A"
  BY <1>2, <1>3, <1>6 DEF Types, bSVLink, ListOf, KeyOf, Keys, Agreed, Wires
<1> QED
  BY <1>1, <1>4, <1>5, <1>6

\* What a server sends.
LEMMA EncodeIs ==
  ASSUME Typed, NEW s \in Servers, NEW peer, <<s, peer>> \in Wires, NEW m \in Msgs
  PROVE  LET w == <<s, peer>>
             e == Encode(s, Plain(m), bSVLink(s, peer)) IN
         /\ e.out \in Packets /\ e.buf \in Packets
         /\ Passes(s, Plain(m)) => e.buf = m_objBuffer[s]
         /\ Agreed(w) => e.out = CodedBy(ListOf(w), KeyOf(w), m)
<1> DEFINE w == <<s, peer>>
           sv == bSVLink(s, peer)
           T == Types(s, sv)
           K == IF sv THEN "RSApri" ELSE "RSApub"
           e == Encode(s, Plain(m), sv)
           v == Wrapped(T, K, Plain(m))
           q == IF T = << >> THEN m_objBuffer[s] ELSE v
<1>1. /\ T \in Seq(Ciphers) /\ ListOf(w) = T /\ KeyOf(w) = K /\ K \in Keys
      /\ Agreed(w) => (m_vcClinetType[s] = << >> <=> T = << >>)
  BY Zenon, ListIs
<1>2. m_objBuffer[s] \in Packets
  BY DEF Typed
<1>3. Passes(s, Plain(m)) <=> m_vcClinetType[s] = << >> \/ m = Empty
  BY DEF Passes, Plain
<1>4. Plain(m) \in Packets
  BY DEF Plain, Packets
<1>5. e = IF Passes(s, Plain(m)) THEN [out |-> Plain(m), buf |-> m_objBuffer[s]]
          ELSE [out |-> q, buf |-> q]
  BY Zenon DEF Encode
<1> HIDE DEF w, sv, T, K, e
<1>6. v \in Packets /\ (m # Empty => CodedBy(T, K, m) = v)
  BY <1>1, WrappedIs DEF CodedBy
<1> HIDE DEF v
<1>7. m = Empty \/ T = << >> => CodedBy(T, K, m) = Plain(m)
  BY Zenon, <1>1, CodedIs
<1>8. CASE Passes(s, Plain(m))
  <2>1. e.out = Plain(m) /\ e.buf = m_objBuffer[s]
    BY <1>5, <1>8
  <2>2. Agreed(w) => e.out = CodedBy(ListOf(w), KeyOf(w), m)
    BY Zenon, <1>1, <1>3, <1>7, <1>8, <2>1
  <2> QED
    BY Zenon, <1>2, <1>4, <2>1, <2>2 DEF w, sv, e
<1>9. CASE ~Passes(s, Plain(m))
  <2>1. e.out = q /\ e.buf = q
    BY <1>5, <1>9
  <2>2. q \in Packets
    BY <1>2, <1>6
  <2>3. Agreed(w) => e.out = CodedBy(ListOf(w), KeyOf(w), m)
    BY Zenon, <1>1, <1>3, <1>6, <1>9, <2>1
  <2> QED
    BY Zenon, <1>9, <2>1, <2>2, <2>3 DEF w, sv, e
<1> QED
  BY <1>8, <1>9

\* What a server makes of a packet: if there is a result, it is the packet itself
\* or lies in the buffer, and in directions agreed upon it is the message.
LEMMA DecodeIs ==
  ASSUME Typed, NEW s \in Servers, NEW peer, <<s, peer>> \in Wires, NEW p \in Packets,
         NEW d \in Decode(s, p, bSVLink(s, peer))
  PROVE  LET w == <<peer, s>> IN
         /\ d.out \in Packets /\ d.buf \in Packets
         /\ d.out.msg # Null => d.out = IF Passes(s, p) THEN p ELSE d.buf
         /\ d.out.msg # Null /\ Agreed(w) =>
               \A m \in Msgs : p = CodedBy(ListOf(w), KeyOf(w), m) => d.out = Plain(m)
<1> DEFINE w == <<peer, s>>
           sv == bSVLink(s, peer)
           T == Types(s, sv)
           k == Undone(T, "RSApri", p)
           f == Peeled(p, k)
           q == IF k = 0 THEN m_objBuffer[s] ELSE f
           g == Plain(Garbage)
           z == Plain(Null)
           o == KeyOf(w)
<1>1. /\ T \in Seq(Ciphers) /\ ListOf(w) = T /\ o \in Keys
      /\ Agreed(w) => (m_vcClinetType[s] = << >> <=> T = << >>)
  BY Zenon, ListIs
<1>2. m_objBuffer[s] \in Packets /\ g \in Packets /\ z \in Packets /\ z.msg = Null
  BY DEF Typed, Plain, Packets
<1>3. Passes(s, p) <=> m_vcClinetType[s] = << >> \/ p.msg = Empty
  BY DEF Passes
<1>4. d \in IF Passes(s, p) THEN {[out |-> p, buf |-> m_objBuffer[s]]}
            ELSE IF k = Len(T) THEN {[out |-> q, buf |-> q]}
            ELSE {[out |-> z, buf |-> q]}
                   \cup IF T[Len(T) - k] # "AES" THEN {}
                        ELSE {[out |-> g, buf |-> g], [out |-> z, buf |-> g]}
  BY Zenon DEF Decode
<1>5. "RSApri" \in Keys
  BY DEF Keys
<1> HIDE DEF w, sv, T, o
<1>6. f \in Packets /\ k \in 0..Len(T)
  <2>1. f \in Packets
    BY Zenon, <1>1, <1>5, PeeledIs
  <2>2. k \in 0..Len(T)
    BY Zenon, <1>1, <1>5, UndoneIs
  <2> QED
    BY <2>1, <2>2
<1>7. ASSUME NEW m \in Msgs, p = CodedBy(T, o, m)
      PROVE  /\ p.msg = m
             /\ m = Empty \/ T = << >> => p = Plain(m)
             /\ m # Empty /\ k < Len(T) => T[Len(T) - k] = "RSA"
             /\ m # Empty /\ k = Len(T) => f = Plain(m)
  <2>1. /\ p.msg = m
        /\ m = Empty \/ T = << >> => p = Plain(m)
        /\ m # Empty => p = [msg |-> m, layers |-> Layers(T, o)]
    BY Zenon, <1>1, <1>7, CodedIs
  <2>2. CASE m # Empty
    <3>1. p = [msg |-> m, layers |-> Layers(T, o)]
      BY Zenon, <2>1, <2>2
    <3>2. /\ k < Len(T) => T[Len(T) - k] = "RSA"
          /\ k = Len(T) => f = Plain(m)
      BY Zenon, <1>1, <1>5, <3>1, UndoneOwn
    <3> QED
      BY Zenon, <2>1, <3>2
  <2> QED
    BY Zenon, <2>1, <2>2
<1> HIDE DEF k, f, g, z
<1>8. CASE Passes(s, p)
  <2>1. d.out = p /\ d.buf = m_objBuffer[s]
    BY <1>4, <1>8
  <2>2. ASSUME Agreed(w), NEW m \in Msgs, p = CodedBy(T, o, m) PROVE d.out = Plain(m)
    BY Zenon, <1>1, <1>3, <1>7, <1>8, <2>1, <2>2
  <2> QED
    BY Zenon, <1>1, <1>2, <1>8, <2>1, <2>2 DEF w, o
<1>9. CASE ~Passes(s, p) /\ k = Len(T)
  <2>1. d.out = q /\ d.buf = q
    BY <1>4, <1>9
  <2>2. q \in Packets
    BY <1>2, <1>6
  <2>3. ASSUME Agreed(w), NEW m \in Msgs, p = CodedBy(T, o, m) PROVE d.out = Plain(m)
    <3>1. T # << >> /\ m # Empty
      BY Zenon, <1>1, <1>3, <1>7, <1>9, <2>3
    <3>2. Len(T) # 0
      BY <1>1, <3>1
    <3> QED
      BY Zenon, <1>7, <1>9, <2>1, <2>3, <3>1, <3>2
  <2> QED
    BY Zenon, <1>1, <1>9, <2>1, <2>2, <2>3 DEF w, o
<1>10. CASE ~Passes(s, p) /\ k # Len(T)
  <2>1. \/ d.out = z /\ d.buf \in {q, g}
        \/ d.out = g /\ d.buf = g /\ T[Len(T) - k] = "AES"
    BY <1>4, <1>10
  <2>2. q \in Packets
    BY <1>2, <1>6
  <2>3. d.out \in Packets /\ d.buf \in Packets
    BY Zenon, <1>2, <2>1, <2>2
  <2>4. d.out.msg # Null => d.out = d.buf /\ T[Len(T) - k] = "AES"
    BY Zenon, <1>2, <2>1
  <2>5. ASSUME d.out.msg # Null, Agreed(w), NEW m \in Msgs, p = CodedBy(T, o, m)
        PROVE  d.out = Plain(m)
    <3>1. m # Empty /\ k < Len(T)
      <4>1. m # Empty
        BY Zenon, <1>3, <1>7, <1>10, <2>5
      <4>2. Len(T) \in Nat
        BY <1>1
      <4> QED
        BY <1>6, <1>10, <4>1, <4>2
    <3>2. T[Len(T) - k] = "RSA"
      BY Zenon, <1>7, <2>5, <3>1
    <3>3. "RSA" # "AES"
      OBVIOUS
    <3> QED
      BY Zenon, <2>4, <2>5, <3>2, <3>3
  <2> QED
    BY Zenon, <1>1, <1>10, <2>3, <2>4, <2>5 DEF w, o
<1> QED
  BY <1>8, <1>9, <1>10

-----------------------------------------------------------------------------
(* Every step keeps the invariant.                                         *)

\* Directions are pairs, and nobody is not one of the senders.
LEMMA WiresAre ==
  \A w \in Wires : /\ w = <<w[1], w[2]>> /\ w[1] # Nobody
                   /\ w[1] \in {"client", "A", "B", Nobody}
BY DEF Wires, Nobody

\* What is appended is the last element.
LEMMA AppendLast ==
  ASSUME NEW q \in Seq(Packets), NEW e \in Packets
  PROVE  /\ Append(q, e) \in Seq(Packets) /\ Append(q, e) # << >>
         /\ Append(q, e)[Len(Append(q, e))] = e
<1>1. Len(q) \in Nat /\ Len(Append(q, e)) = Len(q) + 1
  OBVIOUS
<1>2. Append(q, e)[Len(q) + 1] = e
  OBVIOUS
<1>3. Append(q, e) # << >>
  BY <1>1
<1> QED
  BY <1>1, <1>2, <1>3

\* The configuration stays.
LEMMA CarriedIf ==
  ASSUME UNCHANGED <<m_vcClinetType, m_vcSVLinkType>>, NEW w \in Wires,
         Agreed(w) => Flow(ListOf(w), KeyOf(w), wire'[w], sent'[w], got'[w], Handled(w)')
  PROVE  Carried(w)'
BY DEF Carried, Agreed, BothOrNone, ListOf, KeyOf

\* A server whose packet stays, and whose buffer stays or is noted as written.
LEMMA OthersKeep ==
  ASSUME NEW s \in Servers, Busy(s), Reads(s),
         handling[s] = Waiting => handling'[s] = Waiting,
         handling'[s].peer = handling[s].peer, handling'[s].kept = handling[s].kept,
         handling[s].wrote => handling'[s].wrote,
         handling[s].peer # Nobody =>
            LET v == <<handling[s].peer, s>> IN
            /\ got'[v] = got[v]
            /\ wire[v] # << >> => wire'[v] # << >> /\ Head(wire'[v]) = Head(wire[v])
            /\ handling[s].kept /\ ~handling'[s].wrote => m_objBuffer'[s] = m_objBuffer[s]
  PROVE  Busy(s)' /\ Reads(s)'
<1>1. CASE handling[s] = Waiting
  <2>1. handling'[s] = Waiting /\ handling'[s].peer = Nobody
    BY <1>1 DEF Waiting
  <2> QED
    BY <2>1 DEF Busy, Reads, Waiting
<1>2. CASE handling[s] # Waiting
  <2> DEFINE v == <<handling[s].peer, s>>
  <2>1. v \in Wires /\ wire[v] # << >> /\ got[v] # << >>
    BY <1>2 DEF Busy
  <2>2. handling[s].peer # Nobody
    BY <2>1 DEF Wires, Nobody
  <2>3. /\ got'[v] = got[v] /\ wire'[v] # << >> /\ Head(wire'[v]) = Head(wire[v])
        /\ handling[s].kept /\ ~handling'[s].wrote => m_objBuffer'[s] = m_objBuffer[s]
    BY <2>1, <2>2
  <2>4. v = <<handling'[s].peer, s>>
    OBVIOUS
  <2>5. ~(handling[s].kept /\ handling[s].wrote) => Deref(s) = got[v][Len(got[v])]
    BY <2>2 DEF Reads
  <2>6. Deref(s) = IF handling[s].kept THEN m_objBuffer[s] ELSE Head(wire[v])
    BY DEF Deref
  <2>7. Deref(s)' = IF handling'[s].kept THEN m_objBuffer'[s] ELSE Head(wire'[v])
    BY <2>4 DEF Deref
  <2> HIDE DEF v
  <2>8. Busy(s)'
    BY <2>1, <2>3, <2>4 DEF Busy
  <2>9. ~(handling'[s].kept /\ handling'[s].wrote) => Deref(s)' = got'[v][Len(got'[v])]
    BY <2>3, <2>5, <2>6, <2>7
  <2>10. Reads(s)'
    BY Zenon, <2>4, <2>9 DEF Reads
  <2> QED
    BY <2>8, <2>10
<1> QED
  BY <1>1, <1>2

\* Initially nothing has been sent.
LEMMA InitIInv == Init => IInv
<1> SUFFICES ASSUME Init PROVE IInv
  OBVIOUS
<1>1. PICK c \in Lists, l \in Lists :
        /\ m_vcClinetType = [s \in Servers |-> IF s = "A" THEN c ELSE l]
        /\ m_vcSVLinkType = [s \in Servers |-> IF s = "A" THEN l ELSE << >>]
  BY DEF Init
<1>2. /\ m_objBuffer = [s \in Servers |-> Plain(Null)] /\ wire = [w \in Wires |-> << >>]
      /\ handling = [s \in Servers |-> Waiting] /\ sent = [w \in Wires |-> << >>]
      /\ got = [w \in Wires |-> << >>]
  BY DEF Init
<1>3. /\ m_vcClinetType \in [Servers -> Seq(Ciphers)]
      /\ m_vcSVLinkType \in [Servers -> Seq(Ciphers)]
      /\ m_vcClinetType["B"] = m_vcSVLinkType["A"]
  <2>1. c \in Seq(Ciphers) /\ l \in Seq(Ciphers) /\ << >> \in Seq(Ciphers)
    BY ListsAssumption DEF Ciphers
  <2> QED
    BY <1>1, <2>1 DEF Servers
<1>4. m_objBuffer \in [Servers -> Packets]
  BY <1>2 DEF Plain, Packets
<1>5. /\ wire \in [Wires -> Seq(Packets)] /\ sent \in [Wires -> Seq(Msgs)]
      /\ got \in [Wires -> Seq(Packets)]
  BY <1>2
<1>6. handling \in [Servers -> [peer : {"client", "A", "B", Nobody},
                                kept : BOOLEAN, wrote : BOOLEAN]]
  BY Zenon, <1>2 DEF Waiting
<1>7. \A s \in Servers : Busy(s) /\ Reads(s)
  BY <1>2 DEF Busy, Reads, Waiting
<1>8. ASSUME NEW w \in Wires PROVE Carried(w)
  <2>1. wire[w] = << >> /\ sent[w] = << >> /\ got[w] = << >>
    BY <1>2
  <2>2. Handled(w) = 0
    <3>1. w[1] # Nobody
      BY WiresAre
    <3> QED
      BY <1>2, <3>1 DEF Handled, Waiting
  <2> QED
    BY <2>1, <2>2 DEF Carried, Flow
<1> QED
  BY Zenon, <1>3, <1>4, <1>5, <1>6, <1>7, <1>8 DEF IInv, Typed

\* Where the servers' scripts are.
Handling == [Servers -> [peer : {"client", "A", "B", Nobody}, kept : BOOLEAN, wrote : BOOLEAN]]

\* A message is put on a wire: whatever is at the head of one stays there.
LEMMA SendKeeps ==
  ASSUME IInv, NEW w \in Wires, NEW m \in Msgs, NEW c \in Packets,
         Agreed(w) => c = CodedBy(ListOf(w), KeyOf(w), m),
         wire' = [wire EXCEPT ![w] = Append(@, c)],
         sent' = [sent EXCEPT ![w] = Append(@, m)],
         UNCHANGED <<m_vcClinetType, m_vcSVLinkType, got>>,
         m_objBuffer' \in [Servers -> Packets], handling' \in Handling,
         \A s \in Servers : handling'[s].peer = handling[s].peer
  PROVE  /\ Typed' /\ \A v \in Wires : Carried(v)'
         /\ \A v \in Wires : wire[v] # << >> => /\ wire'[v] # << >>
                                                /\ Head(wire'[v]) = Head(wire[v])
<1>1. Typed
  BY DEF IInv
<1>2. wire[w] \in Seq(Packets) /\ sent[w] \in Seq(Msgs) /\ got[w] \in Seq(Packets)
  BY <1>1 DEF Typed
<1>3. /\ wire'[w] = Append(wire[w], c) /\ sent'[w] = Append(sent[w], m)
      /\ \A v \in Wires : v # w => wire'[v] = wire[v] /\ sent'[v] = sent[v]
  BY <1>1 DEF Typed
<1>4. wire' \in [Wires -> Seq(Packets)] /\ sent' \in [Wires -> Seq(Msgs)]
  <2>1. Append(wire[w], c) \in Seq(Packets) /\ Append(sent[w], m) \in Seq(Msgs)
    BY <1>2
  <2> QED
    BY <1>1, <2>1 DEF Typed
<1>5. Typed'
  BY Zenon, <1>1, <1>4 DEF Typed, Handling
<1>6. ASSUME NEW v \in Wires PROVE Carried(v)'
  <2>1. Handled(v)' = Handled(v) /\ Handled(v) \in {0, 1}
    BY DEF Handled
  <2>2. Agreed(v) => Flow(ListOf(v), KeyOf(v), wire[v], sent[v], got[v], Handled(v))
    BY DEF IInv, Carried
  <2>3. CASE v # w
    <3>1. wire'[v] = wire[v] /\ sent'[v] = sent[v] /\ got'[v] = got[v]
      BY <1>3, <2>3
    <3>2. Agreed(v) => Flow(ListOf(v), KeyOf(v), wire'[v], sent'[v], got'[v], Handled(v)')
      BY Zenon, <2>1, <2>2, <3>1
    <3> QED
      BY <3>2, CarriedIf
  <2>4. CASE v = w
    <3>1. ASSUME Agreed(w)
          PROVE  Flow(ListOf(w), KeyOf(w), wire'[w], sent'[w], got'[w], Handled(w)')
      <4>1. c = CodedBy(ListOf(w), KeyOf(w), m) /\ CodedBy(ListOf(w), KeyOf(w), m) \in Packets
        BY <3>1
      <4>2. Flow(ListOf(w), KeyOf(w), wire[w], sent[w], got[w], Handled(w))
        BY Zenon, <2>2, <2>4, <3>1
      <4>3. Handled(w) \in {0, 1}
        BY <2>1, <2>4
      <4> DEFINE T == ListOf(w)
                 K == KeyOf(w)
                 h == Handled(w)
      <4> HIDE DEF T, K, h
      <4>4. Flow(T, K, Append(wire[w], CodedBy(T, K, m)), Append(sent[w], m), got[w], h)
        BY Zenon, <1>2, <4>1, <4>2, <4>3, FlowSends DEF T, K, h
      <4>5. got'[w] = got[w] /\ Handled(w)' = h
        BY Zenon, <2>1, <2>4 DEF h
      <4> QED
        BY Zenon, <1>3, <4>1, <4>4, <4>5 DEF T, K
    <3> QED
      BY Zenon, <2>4, <3>1, CarriedIf
  <2> QED
    BY <2>3, <2>4
<1>7. ASSUME NEW v \in Wires, wire[v] # << >>
      PROVE  wire'[v] # << >> /\ Head(wire'[v]) = Head(wire[v])
  <2>1. CASE v # w
    BY <1>3, <1>7, <2>1
  <2>2. CASE v = w
    <3> DEFINE q == wire[w]
    <3>1. q \in Seq(Packets) /\ q # << >> /\ wire'[v] = Append(q, c)
      BY <1>2, <1>3, <1>7, <2>2
    <3> HIDE DEF q
    <3>2. Append(q, c) # << >> /\ Head(Append(q, c)) = Head(q)
      BY <3>1
    <3> QED
      BY Zenon, <2>2, <3>1, <3>2 DEF q
  <2> QED
    BY <2>1, <2>2
<1> QED
  BY <1>5, <1>6, <1>7

\* A server sends.  If that leaves something in the buffer, a script that reads
\* there has written.
LEMMA sendTcpKeeps ==
  ASSUME IInv, NEW s \in Servers, NEW peer, <<s, peer>> \in Wires, NEW m \in Msgs,
         sendTcp(s, peer, m)
  PROVE  IInv'
<1> DEFINE w == <<s, peer>>
           e == Encode(s, Plain(m), bSVLink(s, peer))
           b == handling[s].peer # Nobody /\ ~Passes(s, Plain(m))
<1>1. Typed
  BY DEF IInv
<1>2. /\ e.out \in Packets /\ e.buf \in Packets
      /\ Passes(s, Plain(m)) => e.buf = m_objBuffer[s]
      /\ Agreed(w) => e.out = CodedBy(ListOf(w), KeyOf(w), m)
  BY Zenon, <1>1, EncodeIs
<1>3. /\ wire' = [wire EXCEPT ![w] = Append(@, e.out)]
      /\ sent' = [sent EXCEPT ![w] = Append(@, m)]
      /\ m_objBuffer' = [m_objBuffer EXCEPT ![s] = e.buf]
      /\ handling' = [handling EXCEPT ![s].wrote = @ \/ b]
      /\ UNCHANGED <<m_vcClinetType, m_vcSVLinkType, got>>
  BY Zenon DEF sendTcp
<1>4. b \in BOOLEAN /\ (b <=> handling[s].peer # Nobody /\ ~Passes(s, Plain(m)))
  BY Zenon
<1> HIDE DEF w, e, b
<1>5. /\ m_objBuffer' \in [Servers -> Packets] /\ m_objBuffer'[s] = e.buf
      /\ \A t \in Servers : t # s => m_objBuffer'[t] = m_objBuffer[t]
  BY <1>1, <1>2, <1>3 DEF Typed
<1>6. /\ handling' \in Handling
      /\ handling'[s].peer = handling[s].peer /\ handling'[s].kept = handling[s].kept
      /\ handling'[s].wrote <=> handling[s].wrote \/ b
      /\ \A t \in Servers : t # s => handling'[t] = handling[t]
  BY Zenon, <1>1, <1>3, <1>4 DEF Typed, Handling
<1>7. /\ Typed' /\ \A v \in Wires : Carried(v)'
      /\ \A v \in Wires : wire[v] # << >> => /\ wire'[v] # << >>
                                             /\ Head(wire'[v]) = Head(wire[v])
  <2>1. \A t \in Servers : handling'[t].peer = handling[t].peer
    BY Zenon, <1>6
  <2>2. w \in Wires
    BY DEF w
  <2> QED
    BY Zenon, <1>2, <1>3, <1>5, <1>6, <2>1, <2>2, SendKeeps
<1>8. ASSUME NEW t \in Servers PROVE Busy(t)' /\ Reads(t)'
  <2>1. Busy(t) /\ Reads(t)
    BY DEF IInv
  <2>2. ASSUME handling[t].peer # Nobody PROVE <<handling[t].peer, t>> \in Wires
    BY <2>1, <2>2 DEF Busy, Waiting
  <2>3. CASE t # s
    <3>1. handling'[t] = handling[t] /\ m_objBuffer'[t] = m_objBuffer[t] /\ got' = got
      BY <1>3, <1>5, <1>6, <2>3
    <3> QED
      BY <1>7, <2>1, <2>2, <3>1, OthersKeep
  <2>4. CASE t = s
    <3>1. ASSUME handling[s] = Waiting PROVE handling'[s] = Waiting
      <4>1. handling[s].peer = Nobody /\ ~handling[s].kept /\ ~handling[s].wrote
        BY <3>1 DEF Waiting
      <4>2. handling'[s].peer = Nobody /\ ~handling'[s].kept /\ ~handling'[s].wrote
        BY <1>4, <1>6, <4>1
      <4> QED
        BY <1>6, <4>2 DEF Handling, Waiting
    <3>2. handling[s].peer # Nobody /\ ~handling'[s].wrote => m_objBuffer'[s] = m_objBuffer[s]
      BY <1>2, <1>4, <1>5, <1>6
    <3>3. got' = got
      BY <1>3
    <3> QED
      BY <1>6, <1>7, <2>1, <2>2, <2>4, <3>1, <3>2, <3>3, OthersKeep
  <2> QED
    BY <2>3, <2>4
<1> QED
  BY Zenon, <1>7, <1>8 DEF IInv

\* The client sends.
LEMMA clientSendsKeeps ==
  ASSUME IInv, NEW m \in Msgs, clientSends(m)
  PROVE  IInv'
<1> DEFINE w == <<"client", "A">>
           c == IF m = Empty THEN Plain(m)
                ELSE Wrapped(m_vcClinetType["A"], "RSApri", Plain(m))
<1>1. Typed
  BY DEF IInv
<1>2. /\ wire' = [wire EXCEPT ![w] = Append(@, c)] /\ sent' = [sent EXCEPT ![w] = Append(@, m)]
      /\ UNCHANGED <<m_vcClinetType, m_vcSVLinkType, m_objBuffer, handling, got>>
  BY Zenon DEF clientSends
<1>3. w \in Wires
  BY DEF Wires
<1>4. ListOf(w) = m_vcClinetType["A"] /\ KeyOf(w) = "RSApri" /\ "RSApri" \in Keys
  BY DEF ListOf, KeyOf, Keys
<1>5. m_vcClinetType["A"] \in Seq(Ciphers)
  BY <1>1 DEF Typed, Servers
<1>6. c = CodedBy(ListOf(w), KeyOf(w), m)
  BY Zenon, <1>4 DEF CodedBy
<1>7. c \in Packets
  <2>1. CodedBy(m_vcClinetType["A"], "RSApri", m) \in Packets
    BY <1>4, <1>5, CodedIs
  <2> QED
    BY Zenon, <1>4, <1>6, <2>1
<1>8. m_objBuffer' \in [Servers -> Packets] /\ handling' \in Handling
  BY Zenon, <1>1, <1>2 DEF Typed, Handling
<1> HIDE DEF w, c
<1>9. /\ Typed' /\ \A v \in Wires : Carried(v)'
      /\ \A v \in Wires : wire[v] # << >> => /\ wire'[v] # << >>
                                             /\ Head(wire'[v]) = Head(wire[v])
  BY Zenon, <1>2, <1>3, <1>6, <1>7, <1>8, SendKeeps
<1>10. ASSUME NEW t \in Servers PROVE Busy(t)' /\ Reads(t)'
  <2>1. Busy(t) /\ Reads(t)
    BY DEF IInv
  <2>2. ASSUME handling[t].peer # Nobody PROVE <<handling[t].peer, t>> \in Wires
    BY <2>1, <2>2 DEF Busy, Waiting
  <2> QED
    BY SMTT(30), <1>2, <1>9, <2>1, <2>2, OthersKeep
<1> QED
  BY Zenon, <1>9, <1>10 DEF IInv

\* A script is given a packet, and the buffer or the packet holds what it reads.
LEMMA dispTcpKeeps ==
  ASSUME IInv, NEW s \in Servers, NEW peer, <<s, peer>> \in Wires, dispTcp(s, peer)
  PROVE  IInv'
<1> DEFINE w == <<peer, s>>
           p == Head(wire[w])
           H == [peer |-> peer, kept |-> ~Passes(s, p), wrote |-> FALSE]
<1>1. Typed /\ w \in Wires
  <2>1. Typed
    BY DEF IInv
  <2> QED
    BY Zenon, <2>1, ListIs
<1>2. PICK d \in Decode(s, p, bSVLink(s, peer)) :
        /\ d.out.msg # Null
        /\ m_objBuffer' = [m_objBuffer EXCEPT ![s] = d.buf]
        /\ got' = [got EXCEPT ![w] = Append(@, d.out)]
  BY Zenon DEF dispTcp
<1>3. /\ handling[s] = Waiting /\ wire[w] # << >>
      /\ handling' = [handling EXCEPT ![s] = H]
      /\ UNCHANGED <<m_vcClinetType, m_vcSVLinkType, wire, sent>>
  BY Zenon DEF dispTcp
<1>4. wire[w] \in Seq(Packets) /\ got[w] \in Seq(Packets) /\ sent[w] \in Seq(Msgs)
  BY Zenon, <1>1 DEF Typed
<1>5. p \in Packets
  BY <1>3, <1>4
<1>6. /\ d.out \in Packets /\ d.buf \in Packets
      /\ d.out = IF Passes(s, p) THEN p ELSE d.buf
      /\ Agreed(w) => \A m \in Msgs : p = CodedBy(ListOf(w), KeyOf(w), m) => d.out = Plain(m)
  BY Zenon, <1>1, <1>2, <1>5, DecodeIs
<1>7. w[1] = peer /\ w[2] = s /\ peer # Nobody /\ peer \in {"client", "A", "B", Nobody}
  BY <1>1, WiresAre
<1> HIDE DEF p
<1>8. H.peer = peer /\ (H.kept <=> ~Passes(s, p)) /\ H.wrote = FALSE
      /\ H \in [peer : {"client", "A", "B", Nobody}, kept : BOOLEAN, wrote : BOOLEAN]
  BY Zenon, <1>7
<1> HIDE DEF H
<1>9. /\ handling' \in Handling /\ handling'[s] = H
      /\ \A t \in Servers : t # s => handling'[t] = handling[t]
  BY <1>1, <1>3, <1>8 DEF Typed, Handling
<1>10. /\ m_objBuffer' \in [Servers -> Packets] /\ m_objBuffer'[s] = d.buf
       /\ \A t \in Servers : t # s => m_objBuffer'[t] = m_objBuffer[t]
  BY <1>1, <1>2, <1>6 DEF Typed
<1> DEFINE g == got[w]
<1>11. /\ Append(g, d.out) \in Seq(Packets) /\ Append(g, d.out) # << >>
       /\ Append(g, d.out)[Len(Append(g, d.out))] = d.out
  <2>1. g \in Seq(Packets)
    BY <1>4
  <2> QED
    BY Zenon, <1>6, <2>1, AppendLast
<1>12. /\ got' \in [Wires -> Seq(Packets)] /\ got'[w] = Append(g, d.out)
       /\ \A v \in Wires : v # w => got'[v] = got[v]
  <2> HIDE DEF w
  <2>1. got' = [got EXCEPT ![w] = Append(g, d.out)]
    BY Zenon, <1>2
  <2> DEFINE a == Append(g, d.out)
  <2>2. a \in Seq(Packets) /\ w \in Wires /\ got \in [Wires -> Seq(Packets)]
    BY Zenon, <1>1, <1>11 DEF Typed
  <2> HIDE DEF a, g
  <2>3. got' = [got EXCEPT ![w] = a]
    BY Zenon, <2>1 DEF a
  <2> QED
    BY <2>2, <2>3 DEF a
<1>13. Typed'
  BY Zenon, <1>1, <1>3, <1>9, <1>10, <1>12 DEF Typed, Handling
<1>14. ASSUME NEW t \in Servers PROVE Busy(t)' /\ Reads(t)'
  <2>1. Busy(t) /\ Reads(t)
    BY DEF IInv
  <2>2. CASE t # s
    <3>1. handling'[t] = handling[t] /\ m_objBuffer'[t] = m_objBuffer[t] /\ wire' = wire
      BY <1>3, <1>9, <1>10, <2>2
    <3>2. ASSUME handling[t].peer # Nobody
          PROVE  got'[<<handling[t].peer, t>>] = got[<<handling[t].peer, t>>]
      <4>1. <<handling[t].peer, t>> \in Wires
        BY <2>1, <3>2 DEF Busy, Waiting
      <4>2. <<handling[t].peer, t>> # w
        BY <2>2
      <4> QED
        BY Zenon, <1>12, <4>1, <4>2
    <3> QED
      BY <2>1, <3>1, <3>2, OthersKeep
  <2>3. CASE t = s
    <3>1. handling'[t].peer = peer /\ <<handling'[t].peer, t>> = w
      BY <1>8, <1>9, <2>3
    <3>2. Busy(t)'
      BY Zenon, <1>1, <1>3, <1>11, <1>12, <3>1 DEF Busy
    <3>3. Deref(t)' = IF H.kept THEN d.buf ELSE p
      BY <1>3, <1>9, <1>10, <2>3, <3>1 DEF Deref, p
    <3>4. Deref(t)' = d.out
      BY <1>6, <1>8, <3>3
    <3>5. got'[w][Len(got'[w])] = d.out
      BY Zenon, <1>11, <1>12
    <3>6. Reads(t)'
      BY Zenon, <3>1, <3>4, <3>5 DEF Reads
    <3> QED
      BY <3>2, <3>6
  <2> QED
    BY <2>2, <2>3
<1>15. ASSUME NEW v \in Wires PROVE Carried(v)'
  <2>1. Agreed(v) => Flow(ListOf(v), KeyOf(v), wire[v], sent[v], got[v], Handled(v))
    BY DEF IInv, Carried
  <2>2. wire'[v] = wire[v] /\ sent'[v] = sent[v] /\ v[1] # Nobody
    BY <1>3, WiresAre
  <2>3. CASE v # w
    <3>1. got'[v] = got[v]
      BY Zenon, <1>12, <2>3
    <3>2. Handled(v)' = Handled(v)
      <4>1. CASE v[2] = s
        <5>1. v[1] # peer
          BY <2>3, <4>1, WiresAre
        <5>2. handling[s].peer = Nobody /\ handling'[s].peer = peer
          BY <1>3, <1>8, <1>9 DEF Waiting
        <5> QED
          BY <2>2, <4>1, <5>1, <5>2 DEF Handled
      <4>2. CASE v[2] # s
        BY <1>9, <4>2 DEF Handled
      <4> QED
        BY <4>1, <4>2
    <3>3. Agreed(v) => Flow(ListOf(v), KeyOf(v), wire'[v], sent'[v], got'[v], Handled(v)')
      BY Zenon, <2>1, <2>2, <3>1, <3>2
    <3> QED
      BY <1>3, <3>3, CarriedIf
  <2>4. CASE v = w
    <3>1. Handled(v) = 0 /\ Handled(v)' = 1
      <4>1. handling[s].peer = Nobody /\ handling'[s].peer = peer
        BY <1>3, <1>8, <1>9 DEF Waiting
      <4> QED
        BY <1>7, <2>4, <4>1 DEF Handled
    <3>2. ASSUME Agreed(v)
          PROVE  Flow(ListOf(v), KeyOf(v), wire'[v], sent'[v], got'[v], Handled(v)')
      <4> DEFINE T == ListOf(v)
                 K == KeyOf(v)
      <4>1. Flow(T, K, wire[v], sent[v], g, 0)
        BY Zenon, <2>1, <2>4, <3>1, <3>2
      <4>2. \A m \in Msgs : Head(wire[v]) = CodedBy(T, K, m) => d.out = Plain(m)
        BY Zenon, <1>6, <2>4, <3>2 DEF p
      <4> HIDE DEF T, K
      <4>3. Flow(T, K, wire[v], sent[v], Append(g, d.out), 1)
        BY Zenon, <1>3, <1>4, <1>6, <2>4, <4>1, <4>2, FlowGives
      <4> QED
        BY Zenon, <1>12, <2>2, <2>4, <3>1, <4>3 DEF T, K
    <3> QED
      BY <1>3, <3>2, CarriedIf
  <2> QED
    BY <2>3, <2>4
<1> QED
  BY Zenon, <1>13, <1>14, <1>15 DEF IInv

\* Decode has no result: the packet stays for another try.
LEMMA dispTcpNullKeeps ==
  ASSUME IInv, NEW s \in Servers, NEW peer, <<s, peer>> \in Wires, dispTcpNull(s, peer)
  PROVE  IInv'
<1> DEFINE w == <<peer, s>>
           p == Head(wire[w])
<1>1. Typed /\ w \in Wires
  <2>1. Typed
    BY DEF IInv
  <2> QED
    BY Zenon, <2>1, ListIs
<1>2. PICK d \in Decode(s, p, bSVLink(s, peer)) :
        m_objBuffer' = [m_objBuffer EXCEPT ![s] = d.buf]
  BY Zenon DEF dispTcpNull
<1>3. /\ handling[s] = Waiting /\ wire[w] # << >>
      /\ UNCHANGED <<m_vcClinetType, m_vcSVLinkType, wire, handling, sent, got>>
  BY Zenon DEF dispTcpNull
<1>4. p \in Packets
  <2>1. wire[w] \in Seq(Packets)
    BY Zenon, <1>1 DEF Typed
  <2> QED
    BY <1>3, <2>1
<1>5. d.buf \in Packets
  BY Zenon, <1>1, <1>4, DecodeIs
<1>6. /\ m_objBuffer' \in [Servers -> Packets]
      /\ \A t \in Servers : t # s => m_objBuffer'[t] = m_objBuffer[t]
  BY <1>1, <1>2, <1>5 DEF Typed
<1>7. Typed'
  BY Zenon, <1>1, <1>3, <1>6 DEF Typed
<1>8. ASSUME NEW t \in Servers PROVE Busy(t)' /\ Reads(t)'
  <2>1. Busy(t) /\ Reads(t)
    BY DEF IInv
  <2>2. handling[s].peer = Nobody
    BY <1>3 DEF Waiting
  <2>3. handling[t].peer # Nobody => m_objBuffer'[t] = m_objBuffer[t]
    BY Zenon, <1>6, <2>2
  <2> QED
    BY Zenon, <1>3, <2>1, <2>3, OthersKeep
<1>9. ASSUME NEW v \in Wires PROVE Carried(v)'
  <2>1. Agreed(v) => Flow(ListOf(v), KeyOf(v), wire[v], sent[v], got[v], Handled(v))
    BY DEF IInv, Carried
  <2>2. Handled(v)' = Handled(v)
    BY <1>3 DEF Handled
  <2>3. Agreed(v) => Flow(ListOf(v), KeyOf(v), wire'[v], sent'[v], got'[v], Handled(v)')
    BY Zenon, <1>3, <2>1, <2>2
  <2> QED
    BY <1>3, <2>3, CarriedIf
<1> QED
  BY Zenon, <1>7, <1>8, <1>9 DEF IInv

\* The script returns, and the packet goes.
LEMMA delBufferKeeps ==
  ASSUME IInv, NEW s \in Servers, delBuffer(s)
  PROVE  IInv'
<1> DEFINE peer == handling[s].peer
           w == <<peer, s>>
<1>1. Typed /\ w \in Wires
  BY DEF IInv, Busy, delBuffer
<1>2. /\ wire' = [wire EXCEPT ![w] = Tail(@)] /\ handling' = [handling EXCEPT ![s] = Waiting]
      /\ UNCHANGED <<m_vcClinetType, m_vcSVLinkType, m_objBuffer, sent, got>>
  BY Zenon DEF delBuffer
<1>3. /\ wire[w] \in Seq(Packets) /\ got[w] \in Seq(Packets) /\ sent[w] \in Seq(Msgs)
      /\ wire[w] # << >>
  BY <1>1 DEF Typed, IInv, Busy, delBuffer
<1>4. w[1] = peer /\ w[2] = s /\ peer # Nobody
  BY <1>1, WiresAre
<1>5. /\ handling' \in Handling /\ handling'[s].peer = Nobody /\ handling'[s] = Waiting
      /\ \A t \in Servers : t # s => handling'[t] = handling[t]
  <2>1. Waiting \in [peer : {"client", "A", "B", Nobody}, kept : BOOLEAN, wrote : BOOLEAN]
        /\ Waiting.peer = Nobody
    BY DEF Waiting
  <2> QED
    BY <1>1, <1>2, <2>1 DEF Typed, Handling
<1>6. /\ wire' \in [Wires -> Seq(Packets)] /\ wire'[w] = Tail(wire[w])
      /\ \A v \in Wires : v # w => wire'[v] = wire[v]
  <2> HIDE DEF w
  <2>1. Tail(wire[w]) \in Seq(Packets)
    BY <1>3
  <2> QED
    BY <1>1, <1>2, <2>1 DEF Typed
<1>7. Typed'
  BY Zenon, <1>1, <1>2, <1>5, <1>6 DEF Typed, Handling
<1>8. ASSUME NEW t \in Servers PROVE Busy(t)' /\ Reads(t)'
  <2>1. Busy(t) /\ Reads(t)
    BY DEF IInv
  <2>2. CASE t = s
    BY Zenon, <1>5, <2>2 DEF Busy, Reads
  <2>3. CASE t # s
    <3>1. handling'[t] = handling[t] /\ m_objBuffer' = m_objBuffer /\ got' = got
      BY <1>2, <1>5, <2>3
    <3>2. ASSUME handling[t].peer # Nobody
          PROVE  wire'[<<handling[t].peer, t>>] = wire[<<handling[t].peer, t>>]
      <4>1. <<handling[t].peer, t>> \in Wires
        BY <2>1, <3>2 DEF Busy, Waiting
      <4>2. <<handling[t].peer, t>> # w
        BY <2>3
      <4> QED
        BY Zenon, <1>6, <4>1, <4>2
    <3> QED
      BY <2>1, <3>1, <3>2, OthersKeep
  <2> QED
    BY <2>2, <2>3
<1> HIDE DEF peer, w
<1>9. ASSUME NEW v \in Wires PROVE Carried(v)'
  <2>1. Agreed(v) => Flow(ListOf(v), KeyOf(v), wire[v], sent[v], got[v], Handled(v))
    BY DEF IInv, Carried
  <2>2. v[1] # Nobody /\ sent'[v] = sent[v] /\ got'[v] = got[v]
    BY <1>2, WiresAre
  <2>3. CASE v # w
    <3>1. wire'[v] = wire[v]
      BY Zenon, <1>6, <2>3
    <3>2. Handled(v)' = Handled(v)
      <4>1. CASE v[2] = s
        <5>1. v[1] # peer
          BY <2>3, <4>1, WiresAre DEF w
        <5> QED
          BY <1>5, <2>2, <4>1, <5>1 DEF Handled, peer
      <4>2. CASE v[2] # s
        BY <1>5, <4>2 DEF Handled
      <4> QED
        BY <4>1, <4>2
    <3>3. Agreed(v) => Flow(ListOf(v), KeyOf(v), wire'[v], sent'[v], got'[v], Handled(v)')
      BY Zenon, <2>1, <2>2, <3>1, <3>2
    <3> QED
      BY <1>2, <3>3, CarriedIf
  <2>4. CASE v = w
    <3>1. Handled(v) = 1 /\ Handled(v)' = 0
      BY <1>4, <1>5, <2>2, <2>4 DEF Handled, peer
    <3>2. ASSUME Agreed(v)
          PROVE  Flow(ListOf(v), KeyOf(v), wire'[v], sent'[v], got'[v], Handled(v)')
      <4> DEFINE T == ListOf(v)
                 K == KeyOf(v)
      <4>1. Flow(T, K, wire[v], sent[v], got[v], 1)
        BY Zenon, <2>1, <3>1, <3>2
      <4> HIDE DEF T, K
      <4>2. Flow(T, K, Tail(wire[v]), sent[v], got[v], 0)
        BY Zenon, <1>3, <2>4, <4>1, FlowDeletes
      <4> QED
        BY Zenon, <1>6, <2>2, <2>4, <3>1, <4>2 DEF T, K
    <3> QED
      BY <1>2, <3>2, CarriedIf
  <2> QED
    BY <2>3, <2>4
<1> QED
  BY Zenon, <1>7, <1>8, <1>9 DEF IInv

\* The client takes a packet off.
LEMMA clientReadsKeeps ==
  ASSUME IInv, clientReads
  PROVE  IInv'
<1> DEFINE w == <<"A", "client">>
           p == Head(wire[w])
           T == m_vcClinetType["A"]
           k == Undone(T, "RSApub", p)
           x == IF p.msg = Empty THEN p ELSE Peeled(p, k)
<1>1. Typed /\ w \in Wires
  BY DEF IInv, Wires
<1>2. /\ wire[w] # << >> /\ (p.msg = Empty \/ k = Len(T))
      /\ wire' = [wire EXCEPT ![w] = Tail(@)]
      /\ got' = [got EXCEPT ![w] = Append(@, x)]
      /\ UNCHANGED <<m_vcClinetType, m_vcSVLinkType, m_objBuffer, handling, sent>>
  BY Zenon DEF clientReads
<1>3. wire[w] \in Seq(Packets) /\ got[w] \in Seq(Packets) /\ sent[w] \in Seq(Msgs)
  BY Zenon, <1>1 DEF Typed
<1>4. p \in Packets
  BY <1>2, <1>3
<1>5. T \in Seq(Ciphers) /\ "RSApub" \in Keys
  BY <1>1 DEF Typed, Servers, Keys
<1>6. x \in Packets
  <2>1. Peeled(p, k) \in Packets
    BY Zenon, <1>4, <1>5, PeeledIs
  <2> QED
    BY Zenon, <1>4, <2>1
<1>7. ListOf(w) = T /\ KeyOf(w) = "RSApub" /\ Agreed(w) /\ Handled(w) = 0
  BY DEF ListOf, KeyOf, Agreed, Handled, Servers
<1>8. ASSUME NEW m \in Msgs, p = CodedBy(T, "RSApub", m) PROVE x = Plain(m)
  <2> HIDE DEF p, T
  <2>1. /\ p.msg = m /\ (m = Empty => p = Plain(m))
        /\ m # Empty => p = [msg |-> m, layers |-> Layers(T, "RSApub")]
    BY Zenon, <1>5, <1>8, CodedIs
  <2>2. CASE m = Empty
    BY Zenon, <2>1, <2>2
  <2>3. CASE m # Empty
    <3>1. p = [msg |-> m, layers |-> Layers(T, "RSApub")] /\ k = Len(T) /\ x = Peeled(p, k)
      BY Zenon, <1>2, <2>1, <2>3
    <3>2. k = Len(T) => Peeled(p, k) = Plain(m)
      BY Zenon, <1>5, <3>1, UndoneOwn
    <3> QED
      BY Zenon, <3>1, <3>2
  <2> QED
    BY <2>2, <2>3
<1> HIDE DEF w, x, k, T
<1>9. /\ wire' \in [Wires -> Seq(Packets)] /\ wire'[w] = Tail(wire[w])
      /\ \A v \in Wires : v # w => wire'[v] = wire[v]
  <2>1. Tail(wire[w]) \in Seq(Packets)
    BY <1>2, <1>3
  <2> QED
    BY <1>1, <1>2, <2>1 DEF Typed
<1>10. /\ got' \in [Wires -> Seq(Packets)] /\ got'[w] = Append(got[w], x)
       /\ \A v \in Wires : v # w => got'[v] = got[v]
  <2> DEFINE a == Append(got[w], x)
  <2>1. a \in Seq(Packets) /\ got \in [Wires -> Seq(Packets)]
    BY Zenon, <1>1, <1>3, <1>6, AppendLast DEF Typed
  <2>2. got' = [got EXCEPT ![w] = a]
    BY Zenon, <1>2
  <2> HIDE DEF a
  <2> QED
    BY <1>1, <2>1, <2>2 DEF a
<1>11. Typed'
  BY Zenon, <1>1, <1>2, <1>9, <1>10 DEF Typed
<1>12. ASSUME NEW t \in Servers PROVE Busy(t)' /\ Reads(t)'
  <2>1. Busy(t) /\ Reads(t)
    BY DEF IInv
  <2>2. ASSUME handling[t].peer # Nobody
        PROVE  /\ wire'[<<handling[t].peer, t>>] = wire[<<handling[t].peer, t>>]
               /\ got'[<<handling[t].peer, t>>] = got[<<handling[t].peer, t>>]
    <3>1. <<handling[t].peer, t>> \in Wires
      BY <2>1, <2>2 DEF Busy, Waiting
    <3>2. <<handling[t].peer, t>> # w
      BY DEF Servers, w
    <3> QED
      BY Zenon, <1>9, <1>10, <3>1, <3>2
  <2> QED
    BY Zenon, <1>2, <2>1, <2>2, OthersKeep
<1>13. ASSUME NEW v \in Wires PROVE Carried(v)'
  <2>1. Agreed(v) => Flow(ListOf(v), KeyOf(v), wire[v], sent[v], got[v], Handled(v))
    BY DEF IInv, Carried
  <2>2. sent'[v] = sent[v] /\ Handled(v)' = Handled(v)
    BY <1>2 DEF Handled
  <2>3. CASE v # w
    <3>1. wire'[v] = wire[v] /\ got'[v] = got[v]
      BY Zenon, <1>9, <1>10, <2>3
    <3>2. Agreed(v) => Flow(ListOf(v), KeyOf(v), wire'[v], sent'[v], got'[v], Handled(v)')
      BY Zenon, <2>1, <2>2, <3>1
    <3> QED
      BY <1>2, <3>2, CarriedIf
  <2>4. CASE v = w
    <3> DEFINE K == KeyOf(w)
    <3>1. Flow(T, K, wire[w], sent[w], got[w], 0)
      BY Zenon, <1>7, <2>1, <2>4
    <3>2. \A m \in Msgs : Head(wire[w]) = CodedBy(T, K, m) => x = Plain(m)
      BY Zenon, <1>7, <1>8
    <3> HIDE DEF K
    <3>3. Flow(T, K, wire[w], sent[w], Append(got[w], x), 1)
      BY Zenon, <1>2, <1>3, <1>6, <3>1, <3>2, FlowGives
    <3>4. Append(got[w], x) \in Seq(Packets)
      BY Zenon, <1>3, <1>6, AppendLast
    <3>5. Flow(T, K, Tail(wire[w]), sent[w], Append(got[w], x), 0)
      BY Zenon, <1>3, <3>3, <3>4, FlowDeletes
    <3>6. Flow(ListOf(v), KeyOf(v), wire'[v], sent'[v], got'[v], Handled(v)')
      BY Zenon, <1>7, <1>9, <1>10, <2>2, <2>4, <3>5 DEF K
    <3> QED
      BY Zenon, <1>2, <3>6, CarriedIf
  <2> QED
    BY <2>3, <2>4
<1> QED
  BY Zenon, <1>11, <1>12, <1>13 DEF IInv

\* A step that changes nothing.
LEMMA StutterKeeps ==
  ASSUME IInv, UNCHANGED vars
  PROVE  IInv'
<1>1. UNCHANGED <<m_vcClinetType, m_vcSVLinkType, m_objBuffer, wire, handling, sent, got>>
  BY DEF vars
<1>2. Typed'
  BY Zenon, <1>1 DEF IInv, Typed
<1>3. ASSUME NEW s \in Servers PROVE Busy(s)' /\ Reads(s)'
  BY Zenon, <1>1, OthersKeep DEF IInv
<1>4. ASSUME NEW w \in Wires PROVE Carried(w)'
  <2>1. Agreed(w) => Flow(ListOf(w), KeyOf(w), wire[w], sent[w], got[w], Handled(w))
    BY DEF IInv, Carried
  <2>2. Handled(w)' = Handled(w)
    BY <1>1 DEF Handled
  <2>3. Agreed(w) => Flow(ListOf(w), KeyOf(w), wire'[w], sent'[w], got'[w], Handled(w)')
    BY Zenon, <1>1, <2>1, <2>2
  <2> QED
    BY <1>1, <2>3, CarriedIf
<1> QED
  BY Zenon, <1>2, <1>3, <1>4 DEF IInv

\* Every step keeps the invariant.
LEMMA NextIInv == IInv /\ [Next]_vars => IInv'
<1> SUFFICES ASSUME IInv, [Next]_vars PROVE IInv'
  OBVIOUS
<1>1. CASE UNCHANGED vars
  BY <1>1, StutterKeeps
<1>2. ASSUME NEW s \in Servers, NEW peer \in {"client"} \cup Servers, <<s, peer>> \in Wires,
             NEW m \in Msgs, sendTcp(s, peer, m)
      PROVE  IInv'
  BY Zenon, <1>2, sendTcpKeeps
<1>3. ASSUME NEW s \in Servers, NEW peer \in {"client"} \cup Servers, <<s, peer>> \in Wires,
             dispTcp(s, peer)
      PROVE  IInv'
  BY Zenon, <1>3, dispTcpKeeps
<1>4. ASSUME NEW s \in Servers, NEW peer \in {"client"} \cup Servers, <<s, peer>> \in Wires,
             dispTcpNull(s, peer)
      PROVE  IInv'
  BY Zenon, <1>4, dispTcpNullKeeps
<1>5. ASSUME NEW s \in Servers, delBuffer(s) PROVE IInv'
  BY Zenon, <1>5, delBufferKeeps
<1>6. ASSUME NEW m \in Msgs, clientSends(m) PROVE IInv'
  BY Zenon, <1>6, clientSendsKeeps
<1>7. CASE clientReads
  BY Zenon, <1>7, clientReadsKeeps
<1> QED
  BY Zenon, <1>1, <1>2, <1>3, <1>4, <1>5, <1>6, <1>7 DEF Next

-----------------------------------------------------------------------------
(* The theorems.                                                           *)

\* What IInv says about one direction is what Understood says about it.
LEMMA CarriedAsSent ==
  ASSUME Typed, NEW w \in Wires, Carried(w), Agreed(w)
  PROVE  AsSent(w)
<1>1. Flow(ListOf(w), KeyOf(w), wire[w], sent[w], got[w], Handled(w))
  BY DEF Carried
<1>2. /\ Len(got[w]) + Len(wire[w]) = Len(sent[w]) + Handled(w) /\ Handled(w) <= Len(wire[w])
      /\ \A i \in 1..Len(got[w]) : got[w][i] = Plain(sent[w][i])
  BY Zenon, <1>1 DEF Flow
<1>3. Handled(w) \in {0, 1}
  BY DEF Handled
<1>4. Len(got[w]) \in Nat /\ Len(wire[w]) \in Nat /\ Len(sent[w]) \in Nat
  <2>1. got[w] \in Seq(Packets) /\ wire[w] \in Seq(Packets) /\ sent[w] \in Seq(Msgs)
    BY DEF Typed
  <2> QED
    BY <2>1
<1>5. Len(got[w]) <= Len(sent[w])
  <2>1. \A g, q, n \in Nat : \A h \in {0, 1} : g + q = n + h /\ h <= q => g <= n
    OBVIOUS
  <2> QED
    BY Zenon, <1>2, <1>3, <1>4, <2>1
<1> QED
  BY <1>2, <1>5 DEF AsSent

\* For any lists of types and any number of messages: the sends and receipts of all
\* sessions go through one buffer, and still A and its client get each other's
\* messages as they were sent and in their order, and so do the two servers if A's
\* lists are both empty or both not.
THEOREM MessagesUnderstood == Spec => []Understood
<1>1. IInv => Understood
  <2> SUFFICES ASSUME IInv PROVE Understood
    OBVIOUS
  <2>1. Typed /\ \A w \in Wires : Carried(w)
    BY DEF IInv
  <2>2. ASSUME NEW w \in Wires, Agreed(w) PROVE AsSent(w)
    BY Zenon, <2>1, <2>2, CarriedAsSent
  <2>3. /\ <<"client", "A">> \in Wires /\ Agreed(<<"client", "A">>)
        /\ <<"A", "client">> \in Wires /\ Agreed(<<"A", "client">>)
    BY DEF Wires, Agreed
  <2>4. /\ <<"A", "B">> \in Wires /\ <<"B", "A">> \in Wires
        /\ BothOrNone => Agreed(<<"A", "B">>) /\ Agreed(<<"B", "A">>)
    BY DEF Wires, Agreed
  <2> QED
    BY Zenon, <2>2, <2>3, <2>4 DEF Understood
<1> QED
  BY <1>1, InitIInv, NextIInv, PTL DEF Spec

\* For any lists and any number of messages: what Decode has left for a script
\* stays where it was handed over, whatever other sessions do meanwhile, until the
\* script itself sends something that is encoded.
THEOREM MessageStaysReadable == Spec => []StaysReadable
<1>1. IInv => StaysReadable
  BY Zenon DEF IInv, StaysReadable, Reads
<1> QED
  BY <1>1, InitIInv, NextIInv, PTL DEF Spec
==============================================================================
