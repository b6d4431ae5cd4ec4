---------------------------- MODULE UtilityProofs ----------------------------
(***************************************************************************)
(* Proofs about two services that any thread may call: the log, for any    *)
(* threads, any records and any capacity of the socket pair, and, at the   *)
(* end, the identifiers of Snowflake, for any generators and any clock.    *)
(***************************************************************************)
EXTENDS Log, TLAPS

------------------------------------------------------------------------------
(* A stream of bytes that holds whole records, each behind its head.       *)

\* Record i of q begins behind byte st[i] of s; nothing is left over.
Positions(st, s, q) ==
  /\ st \in [1 .. Len(q) + 1 -> Nat]
  /\ st[1] = 0 /\ st[Len(q) + 1] = Len(s)
  /\ \A i, j \in 1 .. Len(q) + 1 : i <= j => st[i] <= st[j]
  /\ \A i \in 1 .. Len(q) :
       /\ s[st[i] + 1] = Len(q[i]) /\ st[i + 1] = st[i] + 1 + Len(q[i])
       /\ \A j \in 1 .. Len(q[i]) : s[st[i] + 1 + j] = q[i][j]

Framed(s, q) == \E st \in [1 .. Len(q) + 1 -> Nat] : Positions(st, s, q)

\* A stream with no records is empty.
LEMMA FramedNone == Framed(<< >>, << >>)
<1> DEFINE st == [i \in 1 .. 1 |-> 0]
<1>1. Positions(st, << >>, << >>)
  BY DEF Positions
<1> QED
  BY <1>1 DEF Framed

\* A record is added with its head and its body.
LEMMA FramedAdd ==
  \A s, r \in Seq(Nat), q \in Seq(Seq(Nat)) :
    Framed(s, q) => Framed((s \o << Len(r) >>) \o r, Append(q, r))
<1>0. SUFFICES ASSUME NEW s, NEW r, NEW q, s \in Seq(Nat), r \in Seq(Nat),
                      q \in Seq(Seq(Nat)), Framed(s, q)
               PROVE  Framed((s \o << Len(r) >>) \o r, Append(q, r))
  OBVIOUS
<1> DEFINE n == Len(q)
           t == (s \o << Len(r) >>) \o r
           p == Append(q, r)
<1>1. PICK st : st \in [1 .. n + 1 -> Nat] /\ Positions(st, s, q)
  BY <1>0 DEF Framed
<1> DEFINE u == [i \in 1 .. n + 2 |-> IF i <= n + 1 THEN st[i] ELSE Len(t)]
<1>2. n \in Nat /\ Len(p) = n + 1 /\ p[n + 1] = r /\ \A i \in 1 .. n : p[i] = q[i]
  BY <1>0
<1>3. /\ Len(t) = Len(s) + 1 + Len(r) /\ Len(t) \in Nat /\ Len(s) \in Nat /\ Len(r) \in Nat
      /\ \A i \in 1 .. Len(s) : t[i] = s[i]
      /\ t[Len(s) + 1] = Len(r)
      /\ \A j \in 1 .. Len(r) : t[Len(s) + 1 + j] = r[j]
  BY <1>0
<1> HIDE DEF n, t, p
<1>4. st[1] = 0 /\ st[n + 1] = Len(s)
  BY <1>1 DEF Positions, n
<1>a. \A i, j \in 1 .. n + 1 : i <= j => st[i] <= st[j]
  BY <1>1 DEF Positions, n
<1>b. \A i \in 1 .. n :
        /\ s[st[i] + 1] = Len(q[i]) /\ st[i + 1] = st[i] + 1 + Len(q[i])
        /\ \A j \in 1 .. Len(q[i]) : s[st[i] + 1 + j] = q[i][j]
  BY <1>1 DEF Positions, n
<1>c. n \in Nat
  BY <1>2
<1>d. Len(t) \in Nat /\ Len(s) \in Nat /\ Len(s) <= Len(t)
  BY <1>3
<1>5. u \in [1 .. n + 2 -> Nat] /\ u[n + 2] = Len(t) /\ \A i \in 1 .. n + 1 : u[i] = st[i]
  BY <1>1, <1>c, <1>d
<1> HIDE DEF u
<1>6. u[1] = 0
  BY <1>c, <1>4, <1>5
<1>7. ASSUME NEW i \in 1 .. n + 2, NEW j \in 1 .. n + 2, i <= j
      PROVE  u[i] <= u[j]
  <2>1. CASE j \in 1 .. n + 1
    <3>1. i \in 1 .. n + 1
      BY <1>c, <1>7, <2>1
    <3> QED
      BY <1>a, <1>5, <1>7, <2>1, <3>1
  <2>2. CASE j = n + 2 /\ i = n + 2
    BY <1>d, <1>5, <2>2
  <2>3. CASE j = n + 2 /\ i \in 1 .. n + 1
    <3>1. n + 1 \in 1 .. n + 1 /\ i <= n + 1
      BY <1>c, <2>3
    <3>2. st[i] <= Len(s) /\ st[i] \in Nat
      BY <1>1, <1>4, <1>a, <2>3, <3>1
    <3>3. u[i] = st[i] /\ u[j] = Len(t)
      BY <1>5, <2>3
    <3> QED
      BY <1>d, <3>2, <3>3
  <2> QED
    BY <1>c, <2>1, <2>2, <2>3
<1>8. ASSUME NEW i \in 1 .. n
      PROVE  /\ t[u[i] + 1] = Len(p[i]) /\ u[i + 1] = u[i] + 1 + Len(p[i])
             /\ \A j \in 1 .. Len(p[i]) : t[u[i] + 1 + j] = p[i][j]
  <2>1. i \in 1 .. n + 1 /\ i + 1 \in 1 .. n + 1 /\ n + 1 \in 1 .. n + 1 /\ i + 1 <= n + 1
    BY <1>c
  <2>2. u[i] = st[i] /\ u[i + 1] = st[i + 1] /\ p[i] = q[i] /\ st[i] \in Nat
    BY <1>1, <1>2, <1>5, <2>1
  <2>3. q[i] \in Seq(Nat) /\ Len(q[i]) \in Nat
    BY <1>0 DEF n
  <2>4. st[i + 1] = st[i] + 1 + Len(q[i]) /\ st[i + 1] <= Len(s)
    BY <1>4, <1>a, <1>b, <2>1
  <2>a. st[i] \in Nat /\ Len(q[i]) \in Nat /\ Len(s) \in Nat
    BY <1>d, <2>2, <2>3
  <2>5. st[i] + 1 \in 1 .. Len(s) /\ \A j \in 1 .. Len(q[i]) : st[i] + 1 + j \in 1 .. Len(s)
    BY <2>4, <2>a
  <2>6. t[st[i] + 1] = Len(q[i])
    BY Zenon, <1>3, <1>b, <2>5
  <2>7. ASSUME NEW j \in 1 .. Len(q[i]) PROVE t[st[i] + 1 + j] = q[i][j]
    <3>1. s[st[i] + 1 + j] = q[i][j]
      BY <1>b
    <3>2. st[i] + 1 + j \in 1 .. Len(s)
      BY <2>5
    <3> QED
      BY <1>3, <3>1, <3>2
  <2> QED
    BY <2>2, <2>4, <2>6, <2>7
<1>9. /\ t[u[n + 1] + 1] = Len(p[n + 1]) /\ u[n + 2] = u[n + 1] + 1 + Len(p[n + 1])
      /\ \A j \in 1 .. Len(p[n + 1]) : t[u[n + 1] + 1 + j] = p[n + 1][j]
  <2>1. u[n + 1] = Len(s)
    BY <1>c, <1>4, <1>5
  <2> QED
    BY <1>2, <1>3, <1>5, <2>1
<1>10. Positions(u, t, p)
  <2>1. Len(p) + 1 = n + 2 /\ \A i \in 1 .. Len(p) : i \in 1 .. n \/ i = n + 1
    BY <1>2
  <2>2. (n + 1) + 1 = n + 2
    BY <1>2
  <2>3. \A i \in 1 .. Len(p) :
          /\ t[u[i] + 1] = Len(p[i]) /\ u[i + 1] = u[i] + 1 + Len(p[i])
          /\ \A j \in 1 .. Len(p[i]) : t[u[i] + 1 + j] = p[i][j]
    BY <1>8, <1>9, <2>1, <2>2
  <2> QED
    BY <1>5, <1>6, <1>7, <2>1, <2>3 DEF Positions
<1>11. u \in [1 .. Len(p) + 1 -> Nat]
  BY <1>10 DEF Positions
<1>12. Framed(t, p)
  BY <1>10, <1>11 DEF Framed
<1> QED
  BY <1>12 DEF t, p

\* The first record is taken off when the stream is as long as its head says.
LEMMA FramedTake ==
  \A s \in Seq(Nat), q \in Seq(Seq(Nat)) :
    Framed(s, q) /\ Len(s) >= 1 =>
      /\ q # << >>
      /\ SubSeq(s, 2, 1 + s[1]) = q[1]
      /\ Framed(SubSeq(s, 2 + s[1], Len(s)), Tail(q))
<1>0. SUFFICES ASSUME NEW s, NEW q, s \in Seq(Nat), q \in Seq(Seq(Nat)), Framed(s, q),
                      Len(s) >= 1
               PROVE  /\ q # << >>
                      /\ SubSeq(s, 2, 1 + s[1]) = q[1]
                      /\ Framed(SubSeq(s, 2 + s[1], Len(s)), Tail(q))
  OBVIOUS
<1> DEFINE n == Len(q)
           h == s[1]
           t == SubSeq(s, 2 + h, Len(s))
           p == Tail(q)
<1>1. PICK st : st \in [1 .. n + 1 -> Nat] /\ Positions(st, s, q)
  BY <1>0 DEF Framed
<1>2. st[1] = 0 /\ st[n + 1] = Len(s)
  BY <1>1 DEF Positions
<1>3. \A i, j \in 1 .. n + 1 : i <= j => st[i] <= st[j]
  BY <1>1 DEF Positions
<1>4. \A i \in 1 .. n :
        /\ s[st[i] + 1] = Len(q[i]) /\ st[i + 1] = st[i] + 1 + Len(q[i])
        /\ \A j \in 1 .. Len(q[i]) : s[st[i] + 1 + j] = q[i][j]
  BY <1>1 DEF Positions
<1>a. n \in Nat \ {0} /\ q # << >>
  BY <1>0, <1>2
<1>5. n \in Nat \ {0} /\ h \in Nat /\ Len(s) \in Nat
  BY <1>0, <1>a
<1>6. Len(p) = n - 1 /\ p \in Seq(Seq(Nat)) /\ \A i \in 1 .. n - 1 : p[i] = q[i + 1]
  BY <1>0, <1>a
<1> HIDE DEF n, h, t, p
<1>7. 1 \in 1 .. n /\ 2 \in 1 .. n + 1 /\ n + 1 \in 1 .. n + 1 /\ 2 <= n + 1 /\ 1 + 1 = 2 /\ 0 + 1 = 1
  BY <1>5
<1>8. q[1] \in Seq(Nat) /\ Len(q[1]) \in Nat
  BY <1>0, <1>7 DEF n
<1>9. s[1] = Len(q[1]) /\ st[2] = 0 + 1 + Len(q[1]) /\ \A j \in 1 .. Len(q[1]) : s[0 + 1 + j] = q[1][j]
  BY <1>2, <1>4, <1>7
<1>b. h = Len(q[1])
  BY <1>9 DEF h
<1>10. st[2] = 1 + h /\ 1 + h <= Len(s)
  <2>1. st[2] <= Len(s)
    BY <1>2, <1>3, <1>7
  <2>2. st[2] = 0 + 1 + h
    BY <1>9, <1>b
  <2> QED
    BY <1>5, <2>1, <2>2
<1>11. SubSeq(s, 2, 1 + h) = q[1]
  <2>1. /\ SubSeq(s, 2, 1 + h) \in Seq(Nat) /\ Len(SubSeq(s, 2, 1 + h)) = h
        /\ \A j \in 1 .. h : SubSeq(s, 2, 1 + h)[j] = s[1 + j]
    BY <1>0, <1>5, <1>10
  <2>2. \A j \in 1 .. h : s[1 + j] = q[1][j]
    BY <1>5, <1>9, <1>b
  <2> QED
    BY <1>8, <1>b, <2>1, <2>2
<1>12. Len(t) = Len(s) - (1 + h) /\ Len(t) \in Nat
  BY <1>0, <1>5, <1>10 DEF t
<1>c. ASSUME NEW k \in 1 .. Len(t) PROVE t[k] = s[1 + h + k]
  <2>1. k \in 1 .. Len(s) - (2 + h) + 1 /\ (2 + h) + k - 1 = 1 + h + k
    BY <1>5, <1>12
  <2>2. t[k] = s[(2 + h) + k - 1]
    BY <1>0, <1>5, <1>10, <2>1 DEF t
  <2> QED
    BY <2>1, <2>2
<1> DEFINE u == [i \in 1 .. n |-> st[i + 1] - (1 + h)]
<1>13. ASSUME NEW i \in 1 .. n
       PROVE  u[i] \in Nat /\ st[i + 1] = u[i] + (1 + h) /\ i + 1 \in 1 .. n + 1
  <2>1. i + 1 \in 1 .. n + 1 /\ 2 <= i + 1
    BY <1>5
  <2>2. st[i + 1] \in Nat /\ st[2] <= st[i + 1]
    BY <1>1, <1>3, <1>7, <2>1
  <2> QED
    BY <1>5, <1>10, <2>1, <2>2
<1>14. u \in [1 .. n -> Nat]
  BY <1>13
<1> HIDE DEF u
<1>15. u[1] = 0 /\ u[n] = Len(t)
  <2>1. u[1] \in Nat /\ st[2] = u[1] + (1 + h)
    BY <1>7, <1>13
  <2>2. n \in 1 .. n
    BY <1>5
  <2>3. u[n] \in Nat /\ Len(s) = u[n] + (1 + h)
    BY <1>2, <1>13, <2>2
  <2> DEFINE a == u[1]
             b == u[n]
             c == Len(s)
             d == Len(t)
  <2>4. a \in Nat /\ 1 + h = a + (1 + h) /\ b \in Nat /\ c = b + (1 + h) /\ d = c - (1 + h) /\ h \in Nat
    BY <1>5, <1>10, <1>12, <2>1, <2>3
  <2> HIDE DEF a, b, c, d
  <2>5. a = 0 /\ b = d
    BY <2>4
  <2> QED
    BY <2>5 DEF a, b, d
<1>16. ASSUME NEW i \in 1 .. n, NEW j \in 1 .. n, i <= j
       PROVE  u[i] <= u[j]
  <2>1. st[i + 1] <= st[j + 1]
    BY <1>3, <1>5, <1>13, <1>16
  <2>2. st[i + 1] = u[i] + (1 + h) /\ st[j + 1] = u[j] + (1 + h) /\ u[i] \in Nat /\ u[j] \in Nat
    BY <1>13
  <2> QED
    BY <1>5, <2>1, <2>2
<1>17. ASSUME NEW i \in 1 .. n - 1
       PROVE  /\ t[u[i] + 1] = Len(p[i]) /\ u[i + 1] = u[i] + 1 + Len(p[i])
              /\ \A j \in 1 .. Len(p[i]) : t[u[i] + 1 + j] = p[i][j]
  <2> DEFINE m == Len(q[i + 1])
  <2>1. i \in 1 .. n /\ i + 1 \in 1 .. n /\ i + 1 <= n /\ n \in 1 .. n
    BY <1>5
  <2> DEFINE k == i + 1
  <2>g. k \in 1 .. Len(q) /\ k = i + 1
    BY <2>1 DEF n
  <2> HIDE DEF k
  <2>h. Len(q[k]) \in Nat
    BY <1>0, <2>g
  <2>2. m \in Nat /\ p[i] = q[i + 1]
    BY <1>6, <2>1, <2>g, <2>h
  <2>3. s[st[i + 1] + 1] = m
    BY <1>4, <2>1
  <2>a. \A j \in 1 .. m : s[st[i + 1] + 1 + j] = q[i + 1][j]
    BY <1>4, <2>1
  <2>b. st[i + 1 + 1] = st[i + 1] + 1 + m
    BY <1>4, <2>1
  <2> HIDE DEF m
  <2>4. /\ u[i] \in Nat /\ u[i + 1] \in Nat /\ st[i + 1] = u[i] + (1 + h)
        /\ st[i + 1 + 1] = u[i + 1] + (1 + h)
    BY <1>13, <2>1
  <2>7. Len(t) \in Nat /\ m \in Nat
    BY <1>12, <2>2
  <2> DEFINE a == u[i]
             b == u[i + 1]
             c == st[i + 1]
             d == st[i + 1 + 1]
             e == Len(t)
  <2>c. a \in Nat /\ b \in Nat /\ c = a + (1 + h) /\ d = b + (1 + h) /\ d = c + 1 + m
    BY <2>4, <2>b
  <2>d. e \in Nat /\ m \in Nat /\ h \in Nat
    BY <1>5, <2>7
  <2>6. b <= e
    BY <1>15, <1>16, <2>1
  <2> HIDE DEF a, b, c, d, e
  <2>5. b = a + 1 + m
    BY <2>c, <2>d
  <2>e. a + 1 \in 1 .. e /\ 1 + h + (a + 1) = c + 1
    BY <2>c, <2>d, <2>5, <2>6
  <2>f. \A j \in 1 .. m : a + 1 + j \in 1 .. e /\ 1 + h + (a + 1 + j) = c + 1 + j
    BY <2>c, <2>d, <2>5, <2>6
  <2>8. u[i] + 1 \in 1 .. Len(t) /\ 1 + h + (u[i] + 1) = st[i + 1] + 1
    BY <2>e DEF a, c, e
  <2>9. t[u[i] + 1] = m
    BY <1>c, <2>3, <2>8
  <2>10. ASSUME NEW j \in 1 .. m PROVE t[u[i] + 1 + j] = q[i + 1][j]
    <3>1. u[i] + 1 + j \in 1 .. Len(t) /\ 1 + h + (u[i] + 1 + j) = st[i + 1] + 1 + j
      BY <2>f DEF a, c, e
    <3> QED
      BY <1>c, <2>a, <3>1
  <2> QED
    BY <2>2, <2>5, <2>9, <2>10 DEF m, a, b
<1>18. Positions(u, t, p)
  <2>1. Len(p) + 1 = n /\ 1 .. Len(p) = 1 .. n - 1
    BY <1>5, <1>6
  <2> QED
    BY <1>14, <1>15, <1>16, <1>17, <2>1 DEF Positions
<1>19. u \in [1 .. Len(p) + 1 -> Nat]
  BY <1>18 DEF Positions
<1>20. Framed(t, p)
  BY <1>18, <1>19 DEF Framed
<1> QED
  BY <1>a, <1>11, <1>20 DEF t, p, h

------------------------------------------------------------------------------
(* Sequences.                                                              *)

\* Where the elements of two joined sequences are.
LEMMA JoinParts ==
  ASSUME NEW a \in Seq(Nat), NEW b \in Seq(Nat)
  PROVE  /\ a \o b \in Seq(Nat) /\ Len(a \o b) = Len(a) + Len(b)
         /\ \A i \in 1 .. Len(a) : (a \o b)[i] = a[i]
         /\ \A i \in 1 .. Len(b) : (a \o b)[Len(a) + i] = b[i]
OBVIOUS

\* A part of a sequence.
LEMMA PartTyped ==
  ASSUME NEW a \in Seq(Nat), NEW i \in Nat \ {0}, NEW j \in 0 .. Len(a)
  PROVE  SubSeq(a, i, j) \in Seq(Nat)
OBVIOUS

\* Joining three sequences.
LEMMA JoinJoin ==
  ASSUME NEW a \in Seq(Nat), NEW b \in Seq(Nat), NEW c \in Seq(Nat)
  PROVE  (a \o b) \o c = a \o (b \o c)
OBVIOUS

\* A sequence is what it begins with and the rest.
LEMMA CutJoin ==
  ASSUME NEW b \in Seq(Nat), NEW n \in 1 .. Len(b)
  PROVE  SubSeq(b, 1, n) \o SubSeq(b, n + 1, Len(b)) = b
OBVIOUS

\* What begins a sequence is not touched by what follows it.
LEMMA TakeOffJoin ==
  \A a, b \in Seq(Nat) : \A k \in 1 .. Len(a) :
    /\ SubSeq(a \o b, 2, k) = SubSeq(a, 2, k)
    /\ SubSeq(a \o b, k + 1, Len(a \o b)) = SubSeq(a, k + 1, Len(a)) \o b
<1>0. SUFFICES ASSUME NEW a, NEW b, a \in Seq(Nat), b \in Seq(Nat), NEW k \in 1 .. Len(a)
               PROVE  /\ SubSeq(a \o b, 2, k) = SubSeq(a, 2, k)
                      /\ SubSeq(a \o b, k + 1, Len(a \o b)) = SubSeq(a, k + 1, Len(a)) \o b
  BY Zenon
<1> DEFINE j == a \o b
           n == Len(a)
           m == Len(b)
           x == SubSeq(j, k + 1, n + m)
           c == SubSeq(a, k + 1, n)
           y == c \o b
<1>1. n \in Nat /\ m \in Nat
  BY <1>0
<1>2. j \in Seq(Nat) /\ Len(j) = n + m
  BY <1>0
<1>3. (\A i \in 1 .. n : j[i] = a[i]) /\ \A i \in 1 .. m : j[n + i] = b[i]
  BY <1>0
<1>4. SubSeq(j, 2, k) = SubSeq(a, 2, k)
  BY <1>0
<1>5. c \in Seq(Nat) /\ Len(c) = n - k
  BY <1>0, <1>1
<1>6. \A i \in 1 .. n - k : c[i] = a[k + i]
  BY <1>0, <1>1
<1>a. k \in 1 .. n
  OBVIOUS
<1>d. b \in Seq(Nat) /\ Len(b) = m
  BY <1>0
<1> HIDE DEF c, j, n, m
<1> DEFINE l == n - k
<1>e. l \in Nat /\ Len(c) = l /\ c \in Seq(Nat)
  BY <1>1, <1>5, <1>a
<1> HIDE DEF l
<1>f. /\ y \in Seq(Nat) /\ Len(y) = l + m
      /\ (\A i \in 1 .. l : y[i] = c[i]) /\ \A i \in 1 .. m : y[l + i] = b[i]
  BY Zenon, <1>1, <1>d, <1>e, JoinParts
<1> HIDE DEF y
<1>9. y \in Seq(Nat) /\ Len(y) = n - k + m
  BY <1>f DEF l
<1>10. (\A i \in 1 .. n - k : y[i] = c[i]) /\ \A i \in 1 .. m : y[n - k + i] = b[i]
  BY <1>f DEF l
<1>b. 1 <= k + 1 /\ k + 1 \in Nat /\ n + m \in Nat /\ k + 1 <= n + m + 1 /\ n + m <= n + m
  BY <1>1, <1>a
<1> DEFINE p == k + 1
           q == n + m
<1>c. /\ SubSeq(j, p, q) \in Seq(Nat) /\ Len(SubSeq(j, p, q)) = q - p + 1
      /\ \A i \in 1 .. q - p + 1 : SubSeq(j, p, q)[i] = j[p + i - 1]
  <2>1. p \in Nat /\ q \in Nat /\ 1 <= p /\ p <= q + 1 /\ j \in Seq(Nat) /\ Len(j) = q
    BY <1>2, <1>b
  <2> HIDE DEF p, q
  <2> QED
    BY <2>1
<1>7. x \in Seq(Nat) /\ Len(x) = n + m - k
  <2>1. q - p + 1 = n + m - k
    BY <1>1, <1>a
  <2> QED
    BY <1>c, <2>1
<1>8. ASSUME NEW i \in 1 .. n + m - k PROVE x[i] = j[k + i]
  <2>1. i \in 1 .. q - p + 1 /\ p + i - 1 = k + i
    BY <1>1, <1>a
  <2> QED
    BY <1>c, <2>1
<1> HIDE DEF x
<1>11. n + m - k = n - k + m
  BY <1>1
<1>12. ASSUME NEW i \in 1 .. n + m - k PROVE x[i] = y[i]
  <2>1. CASE i <= n - k
    <3>1. i \in 1 .. n - k /\ k + i \in 1 .. n
      BY <1>1, <2>1
    <3> QED
      BY <1>3, <1>6, <1>8, <1>10, <3>1
  <2>2. CASE i > n - k
    <3> DEFINE h == i - (n - k)
    <3>1. h \in 1 .. m /\ i = n - k + h /\ k + i = n + h
      BY <1>1, <2>2
    <3> HIDE DEF h
    <3> QED
      BY <1>3, <1>8, <1>10, <3>1
  <2> QED
    BY <1>1, <2>1, <2>2
<1>13. x = y
  BY <1>7, <1>9, <1>11, <1>12
<1> QED
  BY Zenon, <1>2, <1>4, <1>13 DEF j, x, c, y, n, m

\* A part of a sequence up to its end grows when the sequence does.
LEMMA RestAppend ==
  ASSUME NEW a \in Seq(Seq(Nat)), NEW r \in Seq(Nat), NEW k \in 1 .. Len(a) + 1
  PROVE  SubSeq(Append(a, r), k, Len(Append(a, r))) = Append(SubSeq(a, k, Len(a)), r)
OBVIOUS

\* It shrinks by its first element when it begins one later.
LEMMA RestTail ==
  ASSUME NEW a \in Seq(Seq(Nat)), NEW k \in 1 .. Len(a) + 1, SubSeq(a, k, Len(a)) # << >>
  PROVE  /\ k <= Len(a) /\ SubSeq(a, k, Len(a))[1] = a[k]
         /\ Tail(SubSeq(a, k, Len(a))) = SubSeq(a, k + 1, Len(a))
<1>1. k \in 1 .. Len(a)
  OBVIOUS
<1>4. k <= Len(a)
  BY <1>1
<1>2. SubSeq(a, k, Len(a))[1] = a[k]
  BY <1>1
<1>3. Tail(SubSeq(a, k, Len(a))) = SubSeq(a, k + 1, Len(a))
  BY <1>1
<1> QED
  BY <1>2, <1>3, <1>4, Zenon

------------------------------------------------------------------------------
(* The inductive invariant.                                                *)

Typed ==
  /\ kind \in {"txt", "db", "mail"}
  /\ phase \in {"none", "added", "reading", "closed", "unread"}
  /\ pair \in Seq(Nat) /\ buf \in Seq(Nat) /\ head \in Nat
  /\ pc \in [Writers -> {"off", "idle", "built", "head", "done"}]
  /\ rec \in [Writers -> Seq(Nat)]
  /\ accepted \in Seq(Seq(Nat)) /\ out \in Seq(Seq(Nat)) /\ stored \in Seq(Seq(Nat))

\* One writer at most is between its head and its body.
Alone ==
  \A w \in Writers :
    /\ pc[w] = "head" /\ kind # "mail" => lock = w
    /\ pc[w] \in {"built", "head"} /\ kind = "mail" => w = Worker

\* The head is right for every writer that has built it.
HeadFits == \A w \in Writers : pc[w] = "built" => head = Len(rec[w])

\* The records that have not been taken out.
Pending == SubSeq(accepted, Len(out) + 1, Len(accepted))

Prefix(s, t) == Len(s) <= Len(t) /\ \A i \in 1 .. Len(s) : s[i] = t[i]

\* What is under way is what was accepted and not taken out, until the pair is
\* freed; behind the last head its body may be missing.
UnderWay ==
  /\ Prefix(out, accepted)
  /\ phase \in {"none", "added", "reading"} =>
       /\ \A w \in Writers : pc[w] = "head" => Framed((buf \o pair) \o rec[w], Pending)
       /\ (\A w \in Writers : pc[w] # "head") => Framed(buf \o pair, Pending)

\* As long as the file is open it has every record.
FileWhole ==
  kind = "txt" => Prefix(stored, out) /\ (sinkOk => stored = out)

IInv ==
  /\ Typed /\ Alone /\ FileWhole
  /\ ~raced /\ ~short => HeadFits /\ UnderWay

------------------------------------------------------------------------------
(* The steps.                                                              *)

\* What Q_SockWrite leaves in the pair; a write that did not fail is whole.
LEMMA SockWrites ==
  ASSUME Typed, NEW bytes \in Seq(Nat), Q_SockWrite(bytes)
  PROVE  /\ pair' \in Seq(Nat)
         /\ ~short' => ~short /\ pair' = pair \o bytes
<1> DEFINE room == IF phase = "closed" THEN 0 ELSE Cap - Len(pair)
           n == IF room < Len(bytes) THEN room ELSE Len(bytes)
<1>1. pair \in Seq(Nat) /\ Len(pair) \in Nat /\ Len(bytes) \in Nat
  BY DEF Typed
<1>2. room \in Int /\ n \in Int /\ n <= Len(bytes)
  BY <1>1, CapAssumption
<1>3. pair' = pair \o SubSeq(bytes, 1, n) /\ short' = (short \/ n < Len(bytes))
  BY DEF Q_SockWrite
<1> HIDE DEF n, room
<1>4. SubSeq(bytes, 1, n) \in Seq(Nat)
  BY <1>1, <1>2
<1>5. ASSUME ~short' PROVE ~short /\ pair' = pair \o bytes
  <2>3. ~short /\ ~(n < Len(bytes))
    BY <1>3, <1>5, Zenon
  <2>1. ~short /\ n = Len(bytes)
    BY <1>1, <1>2, <2>3
  <2>2. SubSeq(bytes, 1, n) = bytes
    BY <2>1
  <2> QED
    BY <1>3, <2>1, <2>2
<1>6. pair' \in Seq(Nat)
  BY <1>1, <1>3, <1>4, JoinParts, Zenon
<1> QED
  BY <1>5, <1>6, Zenon

\* The inductive invariant holds at the start.
LEMMA InitIInv == Init => IInv
<1> SUFFICES ASSUME Init PROVE IInv
  OBVIOUS
<1>1. Typed
  BY DEF Init, Typed
<1>2. Alone /\ HeadFits
  BY DEF Init, Alone, HeadFits
<1>7. FileWhole
  BY DEF Init, FileWhole, Prefix
<1>3. buf \o pair = << >> /\ Pending = << >>
  BY DEF Init, Pending
<1>4. \A w \in Writers : pc[w] # "head"
  BY DEF Init
<1>5. Prefix(out, accepted)
  BY DEF Init, Prefix
<1>6. UnderWay
  BY <1>3, <1>4, <1>5, FramedNone DEF UnderWay
<1> QED
  BY <1>1, <1>2, <1>6, <1>7 DEF IInv

\* Adding a record keeps what was a prefix a prefix.
LEMMA PrefixAppend ==
  ASSUME NEW a \in Seq(Seq(Nat)), NEW b \in Seq(Seq(Nat)), NEW r \in Seq(Nat), Prefix(a, b)
  PROVE  Prefix(a, Append(b, r)) /\ (a = b => Prefix(Append(a, r), Append(b, r)))
BY DEF Prefix

\* A writer's first step.
LEMMA createHeadKeeps ==
  ASSUME IInv, NEW w \in Writers, NEW r \in Records, createHead(w, r)
  PROVE  IInv'
<1>1. r \in Seq(Nat) /\ Len(r) \in Nat
  BY RecordsAssumption
<1>2. Typed /\ pc[w] = "idle"
  BY DEF IInv, createHead
<1>3. /\ pc' \in [Writers -> {"off", "idle", "built", "head", "done"}]
      /\ pc'[w] = "built" /\ \A v \in Writers : v # w => pc'[v] = pc[v]
      /\ rec' \in [Writers -> Seq(Nat)]
      /\ rec'[w] = r /\ \A v \in Writers : v # w => rec'[v] = rec[v]
  BY <1>1, <1>2 DEF Typed, createHead
<1>4. /\ head' = Len(r)
      /\ UNCHANGED <<kind, phase, sock, pair, short, lock, on, accepted, reader>>
  BY DEF createHead
<1>5. Typed'
  BY <1>1, <1>2, <1>3, <1>4 DEF Typed, reader
<1>6. Alone'
  <2>1. kind = "mail" => w = Worker
    BY DEF createHead
  <2> QED
    BY <1>3, <1>4, <2>1 DEF IInv, Alone
<1>7. FileWhole'
  BY <1>4 DEF IInv, FileWhole, Prefix, reader
<1>8. ASSUME ~raced', ~short' PROVE HeadFits' /\ UnderWay'
  <2>1. ~(raced \/ \E v \in Writers : pc[v] = "built" /\ Len(rec[v]) # Len(r))
    BY Zenon, <1>8 DEF createHead
  <2>2. ~short
    BY <1>4, <1>8
  <2>3. HeadFits /\ UnderWay
    BY <2>1, <2>2 DEF IInv
  <2>4. HeadFits'
    BY Zenon, <1>3, <1>4, <2>1, <2>3 DEF HeadFits
  <2>5. \A v \in Writers : pc'[v] = "head" <=> pc[v] = "head"
    BY <1>2, <1>3
  <2>6. \A v \in Writers : pc'[v] = "head" => rec'[v] = rec[v]
    BY <1>3
  <2>7. Pending' = Pending /\ phase' = phase /\ buf' = buf /\ pair' = pair /\ (Prefix(out, accepted))' = Prefix(out, accepted)
    BY <1>4 DEF Pending, reader, Prefix
  <2>8. UnderWay'
    BY <2>3, <2>5, <2>6, <2>7 DEF UnderWay
  <2> QED
    BY <2>4, <2>8
<1> QED
  BY <1>5, <1>6, <1>7, <1>8 DEF IInv

\* A head is written while no other writer is between its head and its body.
LEMMA HeadWritten ==
  ASSUME IInv, NEW w \in Writers, pc[w] = "built", Q_SockWrite(<< head >>),
         \A v \in Writers : pc[v] # "head",
         accepted' = Append(accepted, rec[w]), pc' = [pc EXCEPT ![w] = "head"],
         UNCHANGED <<kind, phase, sock, head, rec, on, made, raced, reader>>,
         ~raced', ~short'
  PROVE  HeadFits' /\ UnderWay'
<1>1. Typed /\ rec[w] \in Seq(Nat) /\ << head >> \in Seq(Nat)
  BY DEF IInv, Typed
<1>2. ~short /\ pair' = pair \o << head >>
  BY Zenon, <1>1, SockWrites
<1>3. HeadFits /\ UnderWay /\ head = Len(rec[w])
  <2>1. HeadFits /\ UnderWay
    BY <1>2 DEF IInv
  <2> QED
    BY <2>1 DEF HeadFits
<1>4. /\ pc' \in [Writers -> {"off", "idle", "built", "head", "done"}]
      /\ pc'[w] = "head" /\ \A v \in Writers : v # w => pc'[v] = pc[v]
  BY <1>1 DEF Typed
<1>5. HeadFits'
  BY <1>3, <1>4 DEF HeadFits
<1>6. out' = out /\ buf' = buf /\ rec' = rec /\ phase' = phase
  BY DEF reader
<1>7. accepted \in Seq(Seq(Nat)) /\ out \in Seq(Seq(Nat)) /\ buf \in Seq(Nat) /\ pair \in Seq(Nat)
  BY <1>1 DEF Typed
<1>8. Prefix(out, accepted) /\ Prefix(out, accepted)'
  <2>1. Prefix(out, accepted)
    BY <1>3 DEF UnderWay
  <2>2. Prefix(out, Append(accepted, rec[w]))
    BY <1>1, <1>7, <2>1, PrefixAppend
  <2> QED
    BY <1>6, <2>1, <2>2 DEF Prefix
<1>9. Pending' = Append(Pending, rec[w]) /\ Pending \in Seq(Seq(Nat))
  <2> DEFINE k == Len(out) + 1
  <2>1. k \in 1 .. Len(accepted) + 1
    BY <1>7, <1>8 DEF Prefix
  <2> HIDE DEF k
  <2>2. /\ SubSeq(Append(accepted, rec[w]), k, Len(Append(accepted, rec[w])))
             = Append(SubSeq(accepted, k, Len(accepted)), rec[w])
    BY Zenon, <1>1, <1>7, <2>1, RestAppend
  <2>3. SubSeq(accepted, k, Len(accepted)) \in Seq(Seq(Nat))
    BY <1>7, <2>1
  <2> QED
    BY Zenon, <1>6, <2>2, <2>3 DEF Pending, k
<1>10. ASSUME phase \in {"none", "added", "reading"}
       PROVE  Framed((buf' \o pair') \o rec[w], Pending')
  <2>1. Framed(buf \o pair, Pending) /\ buf \o pair \in Seq(Nat)
    BY <1>3, <1>7, <1>10 DEF UnderWay
  <2>2. Framed(((buf \o pair) \o << Len(rec[w]) >>) \o rec[w], Append(Pending, rec[w]))
    BY Zenon, <1>1, <1>9, <2>1, FramedAdd
  <2>3. (buf \o pair) \o << head >> = buf \o (pair \o << head >>)
    BY <1>1, <1>7, JoinJoin, ZenonT(30)
  <2> QED
    BY Zenon, <1>2, <1>3, <1>6, <1>9, <2>2, <2>3
<1>11. UnderWay'
  BY <1>4, <1>6, <1>8, <1>10 DEF UnderWay
<1> QED
  BY <1>5, <1>11

\* A logger writes its head under the mutex.
LEMMA writeHeadKeeps ==
  ASSUME IInv, NEW w \in Writers, writeHead(w)
  PROVE  IInv'
<1>1. Typed /\ rec[w] \in Seq(Nat) /\ << head >> \in Seq(Nat) /\ accepted \in Seq(Seq(Nat))
  BY DEF IInv, Typed
<1>2. /\ pc[w] = "built" /\ kind # "mail" /\ lock = NoThread /\ lock' = w
      /\ Q_SockWrite(<< head >>) /\ accepted' = Append(accepted, rec[w])
      /\ pc' = [pc EXCEPT ![w] = "head"]
      /\ UNCHANGED <<kind, phase, sock, head, rec, on, made, raced, reader>>
  BY DEF writeHead
<1>3. pair' \in Seq(Nat)
  BY Zenon, <1>1, <1>2, SockWrites
<1>4. /\ pc' \in [Writers -> {"off", "idle", "built", "head", "done"}]
      /\ pc'[w] = "head" /\ \A v \in Writers : v # w => pc'[v] = pc[v]
  BY <1>1, <1>2 DEF Typed
<1>5. Typed'
  BY <1>1, <1>2, <1>3, <1>4 DEF Typed, reader
<1>6. \A v \in Writers : pc[v] # "head"
  BY <1>2, ThreadsAssumption DEF IInv, Alone, Writers
<1>7. Alone'
  BY <1>2, <1>4, <1>6 DEF IInv, Alone
<1>8. FileWhole'
  BY <1>2 DEF IInv, FileWhole, Prefix, reader
<1>9. ~raced' /\ ~short' => HeadFits' /\ UnderWay'
  BY Zenon, <1>2, <1>6, HeadWritten
<1> QED
  BY <1>5, <1>7, <1>8, <1>9 DEF IInv

\* Only the worker sends mails; its head is written, or the mail is given up.
LEMMA mailHeadKeeps ==
  ASSUME IInv, NEW w \in Writers, mailHead(w)
  PROVE  IInv'
<1> DEFINE ok == pair' # pair
<1>1. /\ Typed /\ rec[w] \in Seq(Nat) /\ << head >> \in Seq(Nat) /\ accepted \in Seq(Seq(Nat))
      /\ pair \in Seq(Nat)
  BY DEF IInv, Typed
<1>2. /\ pc[w] = "built" /\ kind = "mail"
      /\ Q_SockWrite(<< head >>) /\ accepted' = (IF ok THEN Append(accepted, rec[w]) ELSE accepted)
      /\ pc' = [pc EXCEPT ![w] = IF ok THEN "head" ELSE "idle"]
      /\ UNCHANGED <<kind, phase, sock, head, lock, rec, on, made, raced, reader>>
  BY DEF mailHead
<1>3. pair' \in Seq(Nat)
  BY Zenon, <1>1, <1>2, SockWrites
<1>4. /\ pc' \in [Writers -> {"off", "idle", "built", "head", "done"}]
      /\ pc'[w] \in {"head", "idle"} /\ \A v \in Writers : v # w => pc'[v] = pc[v]
  BY <1>1, <1>2 DEF Typed
<1>5. Typed'
  <2>1. accepted' \in Seq(Seq(Nat))
    BY <1>1, <1>2
  <2> QED
    BY <1>1, <1>2, <1>3, <1>4, <2>1 DEF Typed, reader
<1>6. \A v \in Writers : pc[v] \in {"built", "head"} => v = w
  BY <1>2 DEF IInv, Alone
<1>7. \A v \in Writers : pc[v] # "head"
  BY <1>2, <1>6
<1>8. Alone'
  BY <1>2, <1>4, <1>6 DEF IInv, Alone
<1>9. FileWhole'
  BY <1>2 DEF IInv, FileWhole, Prefix, reader
<1>10. ASSUME ~raced', ~short' PROVE HeadFits' /\ UnderWay'
  <2>1. pair' = pair \o << head >>
    BY Zenon, <1>1, <1>2, <1>10, SockWrites
  <2>2. ok
    <3>1. Len(pair \o << head >>) = Len(pair) + 1 /\ Len(pair) \in Nat
      BY <1>1
    <3>2. Len(pair) + 1 # Len(pair)
      BY <3>1
    <3> QED
      BY <2>1, <3>1, <3>2
  <2> QED
    BY Zenon, <1>2, <1>7, <1>10, <2>2, HeadWritten
<1> QED
  BY <1>5, <1>8, <1>9, <1>10 DEF IInv

\* The body is written behind its head, and the mutex is given back.
LEMMA writeBodyKeeps ==
  ASSUME IInv, NEW w \in Writers, writeBody(w)
  PROVE  IInv'
<1>1. /\ Typed /\ rec[w] \in Seq(Nat) /\ pair \in Seq(Nat) /\ buf \in Seq(Nat)
  BY DEF IInv, Typed
<1>2. /\ pc[w] = "head" /\ Q_SockWrite(rec[w])
      /\ pc' = [pc EXCEPT ![w] = IF w = Sig THEN "done" ELSE "idle"]
      /\ rec' = [rec EXCEPT ![w] = << >>]
      /\ UNCHANGED <<kind, phase, sock, head, made, accepted, raced, reader>>
  BY DEF writeBody
<1>3. pair' \in Seq(Nat)
  BY <1>1, <1>2, SockWrites
<1>4. /\ pc' \in [Writers -> {"off", "idle", "built", "head", "done"}]
      /\ pc'[w] \in {"done", "idle"} /\ \A v \in Writers : v # w => pc'[v] = pc[v]
      /\ rec' \in [Writers -> Seq(Nat)] /\ \A v \in Writers : v # w => rec'[v] = rec[v]
  BY <1>1, <1>2 DEF Typed
<1>5. Typed'
  BY <1>1, <1>2, <1>3, <1>4 DEF Typed, reader
<1>6. \A v \in Writers : pc[v] = "head" => v = w
  BY <1>2 DEF IInv, Alone
<1>7. \A v \in Writers : pc'[v] # "head"
  BY Zenon, <1>4, <1>6
<1>8. Alone'
  BY <1>2, <1>4, <1>7 DEF IInv, Alone
<1>9. FileWhole'
  BY <1>2 DEF IInv, FileWhole, Prefix, reader
<1>10. ASSUME ~raced', ~short' PROVE HeadFits' /\ UnderWay'
  <2>1. ~short /\ pair' = pair \o rec[w]
    BY Zenon, <1>1, <1>2, <1>10, SockWrites
  <2>2. HeadFits /\ UnderWay
    BY <1>2, <1>10, <2>1 DEF IInv
  <2>3. HeadFits'
    BY <1>2, <1>4, <2>2 DEF HeadFits
  <2>4. out' = out /\ buf' = buf /\ phase' = phase /\ accepted' = accepted /\ Pending' = Pending
    BY <1>2 DEF reader, Pending
  <2>5. Prefix(out, accepted)'
    BY <2>2, <2>4 DEF UnderWay, Prefix
  <2>6. phase \in {"none", "added", "reading"} => Framed(buf' \o pair', Pending')
    <3>1. (buf \o pair) \o rec[w] = buf \o (pair \o rec[w])
      BY Zenon, <1>1, JoinJoin
    <3> QED
      BY Zenon, <1>2, <2>1, <2>2, <2>4, <3>1 DEF UnderWay
  <2> QED
    BY <1>7, <2>3, <2>4, <2>5, <2>6 DEF UnderWay
<1> QED
  BY <1>5, <1>8, <1>9, <1>10 DEF IInv

\* Steps that leave the writers alone, and either the stream or nothing that is
\* still read.
LEMMA WritersKept ==
  ASSUME IInv, UNCHANGED <<kind, short, writers, out>>, Typed', FileWhole',
         \/ phase' \notin {"none", "added", "reading"}
         \/ /\ phase \in {"none", "added", "reading"}
            /\ buf' \o pair' = buf \o pair
  PROVE  IInv'
<1>1. Alone'
  BY DEF IInv, Alone, writers
<1>2. ASSUME ~raced', ~short' PROVE HeadFits' /\ UnderWay'
  <2>1. HeadFits /\ UnderWay
    BY <1>2 DEF IInv, writers
  <2>2. HeadFits'
    BY <2>1 DEF HeadFits, writers
  <2>3. pc' = pc /\ rec' = rec /\ Pending' = Pending /\ Prefix(out, accepted)'
    BY <2>1 DEF writers, Pending, UnderWay, Prefix
  <2>4. UnderWay'
    BY Zenon, <2>1, <2>3 DEF UnderWay
  <2> QED
    BY <2>2, <2>4
<1> QED
  BY <1>1, <1>2 DEF IInv

\* The signal handler begins.
LEMMA SigHandEntryKeeps ==
  ASSUME IInv, NEW t \in Threads, SigHandEntry(t)
  PROVE  IInv'
<1>1. /\ pc' = [pc EXCEPT ![Sig] = "idle"] /\ pc[Sig] = "off" /\ Sig \in Writers
      /\ UNCHANGED <<kind, phase, sock, pair, short, head, lock, rec, accepted, raced, reader>>
  BY DEF SigHandEntry, Writers
<1>2. /\ pc' \in [Writers -> {"off", "idle", "built", "head", "done"}]
      /\ pc'[Sig] = "idle" /\ \A v \in Writers : v # Sig => pc'[v] = pc[v]
  BY <1>1 DEF IInv, Typed
<1>3. Typed'
  BY <1>1, <1>2 DEF IInv, Typed, reader
<1>4. Alone'
  BY <1>1, <1>2 DEF IInv, Alone
<1>5. FileWhole'
  BY <1>1 DEF IInv, FileWhole, Prefix, reader
<1>6. ASSUME ~raced', ~short' PROVE HeadFits' /\ UnderWay'
  <2>1. HeadFits /\ UnderWay
    BY <1>1, <1>6 DEF IInv
  <2>2. HeadFits'
    BY <1>1, <1>2, <2>1 DEF HeadFits
  <2>3. \A v \in Writers : pc'[v] = "head" <=> pc[v] = "head"
    BY <1>1, <1>2
  <2>4. /\ rec' = rec /\ buf' = buf /\ pair' = pair /\ phase' = phase
        /\ Pending' = Pending /\ Prefix(out, accepted)'
    BY <1>1, <2>1 DEF reader, Pending, UnderWay, Prefix
  <2>5. UnderWay'
    BY <2>1, <2>3, <2>4 DEF UnderWay
  <2> QED
    BY <2>2, <2>5
<1> QED
  BY <1>3, <1>4, <1>5, <1>6 DEF IInv

\* Bytes move from the pair to the loop's buffer in their order.
LEMMA ArriveKeeps ==
  ASSUME IInv, Arrive
  PROVE  IInv'
<1>1. PICK n \in 1 .. Len(pair) :
        buf' = buf \o SubSeq(pair, 1, n) /\ pair' = SubSeq(pair, n + 1, Len(pair))
  BY Zenon DEF Arrive
<1>2. buf \in Seq(Nat) /\ pair \in Seq(Nat)
  BY DEF IInv, Typed
<1>3. SubSeq(pair, 1, n) \in Seq(Nat) /\ pair' \in Seq(Nat) /\ buf' \in Seq(Nat)
  <2>1. n \in 0 .. Len(pair) /\ Len(pair) \in 0 .. Len(pair) /\ n + 1 \in Nat \ {0} /\ 1 \in Nat \ {0}
    BY <1>2
  <2>2. SubSeq(pair, 1, n) \in Seq(Nat) /\ pair' \in Seq(Nat)
    BY <1>1, <1>2, <2>1, PartTyped
  <2> QED
    BY <1>1, <1>2, <2>2
<1>4. buf' \o pair' = buf \o pair
  <2>1. (buf \o SubSeq(pair, 1, n)) \o pair' = buf \o (SubSeq(pair, 1, n) \o pair')
    BY <1>2, <1>3, JoinJoin, ZenonT(30)
  <2>2. SubSeq(pair, 1, n) \o pair' = pair
    BY <1>1, <1>2, CutJoin
  <2> QED
    BY Zenon, <1>1, <2>1, <2>2
<1>5. phase = "reading" /\ UNCHANGED <<kind, phase, sock, short, writers, out, stored, sinkOk>>
  BY DEF Arrive
<1>6. Typed'
  BY <1>3, <1>5 DEF IInv, Typed, writers
<1>7. FileWhole'
  BY <1>5 DEF IInv, FileWhole, Prefix
<1> QED
  BY <1>4, <1>5, <1>6, <1>7, WritersKept

\* The loop is told of the pair, gets it, or frees it; a sink's state changes;
\* the loop stops.
LEMMA LoopKeeps ==
  ASSUME IInv,
         \/ \E ok \in BOOLEAN : addLoger(ok)
         \/ \E ok \in BOOLEAN : onMainRead(ok)
         \/ dbLost
         \/ onStop
         \/ UNCHANGED vars
  PROVE  IInv'
<1>0. << >> \in Seq(Nat)
  OBVIOUS
<1>1. ASSUME NEW ok \in BOOLEAN, addLoger(ok) PROVE IInv'
  <2>1. /\ UNCHANGED <<kind, pair, short, writers, reader>>
        /\ phase = "none" /\ phase' \in {"added", "closed"}
    BY <1>1 DEF addLoger
  <2>2. Typed'
    BY <2>1 DEF IInv, Typed, writers, reader
  <2>3. FileWhole'
    BY <2>1 DEF IInv, FileWhole, Prefix, reader
  <2> QED
    BY <2>1, <2>2, <2>3, WritersKept DEF reader
<1>2. ASSUME NEW ok \in BOOLEAN, onMainRead(ok) PROVE IInv'
  <2>1. /\ UNCHANGED <<kind, short, writers, reader>> /\ phase = "added"
        /\ \/ phase' = "reading" /\ pair' = pair
           \/ phase' = "closed" /\ pair' = << >>
    BY <1>2 DEF onMainRead
  <2>2. Typed'
    BY Zenon, <1>0, <2>1 DEF IInv, Typed, writers, reader
  <2>3. FileWhole'
    BY <2>1 DEF IInv, FileWhole, Prefix, reader
  <2> QED
    BY <2>1, <2>2, <2>3, WritersKept DEF reader
<1>3. ASSUME dbLost PROVE IInv'
  <2>1. /\ UNCHANGED <<kind, phase, sock, pair, short, writers, buf, out, stored>>
        /\ kind = "db"
    BY <1>3 DEF dbLost
  <2>2. Typed'
    BY <2>1 DEF IInv, Typed, writers
  <2>3. FileWhole'
    BY <2>1 DEF FileWhole
  <2>4. phase \in {"none", "added", "reading"} \/ phase' \notin {"none", "added", "reading"}
    BY <2>1
  <2> QED
    BY <2>1, <2>2, <2>3, <2>4, WritersKept
<1>4. ASSUME onStop PROVE IInv'
  <2>1. /\ UNCHANGED <<kind, short, writers, out, stored, sinkOk>>
        /\ phase' \in {"closed", "unread"} /\ pair' \in {pair, << >>} /\ buf' \in {buf, << >>}
    BY <1>4 DEF onStop
  <2>2. Typed'
    BY Zenon, <1>0, <2>1 DEF IInv, Typed, writers
  <2>3. FileWhole'
    BY <2>1 DEF IInv, FileWhole, Prefix
  <2> QED
    BY <2>1, <2>2, <2>3, WritersKept
<1>5. ASSUME UNCHANGED vars PROVE IInv'
  <2>1. UNCHANGED <<kind, phase, pair, short, writers, reader>>
    BY <1>5 DEF vars
  <2>2. Typed'
    BY <2>1 DEF IInv, Typed, writers, reader
  <2>3. FileWhole'
    BY <2>1 DEF IInv, FileWhole, Prefix, reader
  <2>4. phase \in {"none", "added", "reading"} \/ phase' \notin {"none", "added", "reading"}
    BY <2>1
  <2> QED
    BY <2>1, <2>2, <2>3, <2>4, WritersKept DEF reader
<1> QED
  BY <1>1, <1>2, <1>3, <1>4, <1>5

\* What is in the file after a record was taken out.
LEMMA FileAfterWrite ==
  ASSUME IInv, NEW stores \in BOOLEAN, Write(stores), NEW r \in Seq(Nat),
         out' = Append(out, r), stored' = (IF stores THEN Append(stored, r) ELSE stored)
  PROVE  FileWhole'
<1>1. out \in Seq(Seq(Nat)) /\ stored \in Seq(Seq(Nat)) /\ kind' = kind
  BY DEF IInv, Typed, Write
<1>2. SUFFICES ASSUME kind = "txt"
               PROVE  Prefix(stored, out)' /\ (sinkOk' => stored' = out')
  BY <1>1 DEF FileWhole
<1>3. Prefix(stored, out) /\ (sinkOk => stored = out)
  BY <1>2 DEF IInv, FileWhole
<1>4. (stores => sinkOk) /\ sinkOk' = stores
  BY <1>2 DEF Write, txtWrite, dbWrite, mailWrite
<1>5. CASE stores
  <2>1. stored = out /\ stored' = Append(out, r)
    BY <1>3, <1>4, <1>5
  <2> QED
    BY <1>1, <2>1 DEF Prefix
<1>6. CASE ~stores
  <2>1. stored' = stored /\ ~sinkOk'
    BY <1>4, <1>6
  <2>2. Prefix(stored, Append(out, r))
    BY <1>1, <1>3, PrefixAppend
  <2> QED
    BY <2>1, <2>2 DEF Prefix
<1> QED
  BY <1>5, <1>6

\* The loop takes out the record at the front.
LEMMA WriteKeeps ==
  ASSUME IInv, NEW stores \in BOOLEAN, Write(stores)
  PROVE  IInv'
<1> DEFINE h == buf[1]
           r == SubSeq(buf, 2, 1 + h)
           k == 1 + h
<1>1. /\ buf' = SubSeq(buf, 2 + h, Len(buf)) /\ out' = Append(out, r)
      /\ stored' = (IF stores THEN Append(stored, r) ELSE stored)
      /\ phase = "reading" /\ Len(buf) >= 1 /\ Len(buf) >= 1 + h
      /\ UNCHANGED <<kind, phase, sock, pair, short, writers>>
  BY DEF Write, Whole
<1>2. /\ buf \in Seq(Nat) /\ pair \in Seq(Nat) /\ out \in Seq(Seq(Nat))
      /\ stored \in Seq(Seq(Nat)) /\ accepted \in Seq(Seq(Nat)) /\ rec \in [Writers -> Seq(Nat)]
  BY DEF IInv, Typed
<1>3. h \in Nat /\ k \in 1 .. Len(buf) /\ 2 + h = k + 1
  <2>1. Len(buf) \in Nat /\ Len(buf) >= 1 /\ Len(buf) >= 1 + h
    BY <1>2 DEF Write, Whole
  <2>2. h \in Nat
    BY <1>2, <2>1
  <2> HIDE DEF h
  <2> QED
    BY <2>1, <2>2
<1>4. r \in Seq(Nat) /\ buf' \in Seq(Nat)
  <2> HIDE DEF h
  <2>2. Len(buf) \in Nat
    BY <1>2
  <2>1. Len(buf) \in 0 .. Len(buf) /\ 1 + h \in 0 .. Len(buf) /\ 2 \in Nat \ {0} /\ 2 + h \in Nat \ {0}
    BY <1>3, <2>2
  <2> QED
    BY Zenon, <1>1, <1>2, <2>1, PartTyped
<1>5. buf' = SubSeq(buf, k + 1, Len(buf)) /\ r = SubSeq(buf, 2, k)
  BY Zenon, <1>1, <1>3
<1> HIDE DEF h, r, k
<1>6. Typed'
  <2>1. out' \in Seq(Seq(Nat)) /\ stored' \in Seq(Seq(Nat))
    BY <1>1, <1>2, <1>4
  <2> QED
    BY <1>1, <1>4, <2>1 DEF IInv, Typed, writers
<1>7. Alone'
  BY <1>1 DEF IInv, Alone, writers
<1>8. FileWhole'
  BY Zenon, <1>1, <1>4, FileAfterWrite
<1>9. ASSUME ~raced', ~short' PROVE HeadFits' /\ UnderWay'
  <2>1. HeadFits /\ UnderWay
    BY <1>1, <1>9 DEF IInv, writers
  <2>2. HeadFits'
    BY <1>1, <2>1 DEF HeadFits, writers
  <2>3. pc' = pc /\ rec' = rec /\ accepted' = accepted
    BY <1>1 DEF writers
  <2>4. Prefix(out, accepted)
    BY <2>1 DEF UnderWay
  <2>5. Pending \in Seq(Seq(Nat))
    BY <1>2, <2>4 DEF Pending, Prefix
  <2>6. ASSUME NEW m, m \in Seq(Nat), Framed((buf \o pair) \o m, Pending)
        PROVE  /\ Pending # << >> /\ r = Pending[1]
               /\ Framed((buf' \o pair) \o m, Tail(Pending))
    <3> DEFINE x == pair \o m
               s == buf \o x
    <3>a. buf \in Seq(Nat) /\ pair \in Seq(Nat) /\ m \in Seq(Nat)
      BY <1>2, <2>6
    <3>b. x \in Seq(Nat)
      BY <3>a, JoinParts, Zenon
    <3>c. s \in Seq(Nat)
      BY <3>a, <3>b, JoinParts, Zenon
    <3>d. (buf \o pair) \o m = s
      BY <3>a, JoinJoin, ZenonT(30)
    <3>1. (buf \o pair) \o m = s /\ x \in Seq(Nat) /\ s \in Seq(Nat)
      BY <3>b, <3>c, <3>d
    <3>2. (buf' \o pair) \o m = buf' \o x
      BY <1>4, <3>a, JoinJoin, ZenonT(30)
    <3> HIDE DEF x
    <3>3. s[1] = h /\ Len(s) >= 1
      <4>1. 1 \in 1 .. Len(buf) /\ Len(buf) \in Nat /\ Len(x) \in Nat
        BY <1>1, <1>2, <3>1
      <4>2. Len(s) = Len(buf) + Len(x) /\ s[1] = buf[1]
        BY <1>2, <3>1, <4>1, JoinParts
      <4> QED
        BY <4>1, <4>2 DEF h
    <3>4. SubSeq(s, 2, k) = r /\ SubSeq(s, k + 1, Len(s)) = buf' \o x
      BY Zenon, <1>2, <1>3, <1>5, <3>1, TakeOffJoin
    <3>5. k = 1 + s[1] /\ k + 1 = 2 + s[1]
      BY <1>3, <3>3 DEF k
    <3> HIDE DEF s
    <3>6. /\ Pending # << >> /\ SubSeq(s, 2, 1 + s[1]) = Pending[1]
          /\ Framed(SubSeq(s, 2 + s[1], Len(s)), Tail(Pending))
      BY Zenon, <2>5, <2>6, <3>1, <3>3, FramedTake
    <3> QED
      BY Zenon, <3>2, <3>4, <3>5, <3>6
  <2>7. Pending # << >> /\ r = Pending[1]
    <3>1. CASE \E w \in Writers : pc[w] = "head"
      BY <1>1, <1>2, <2>1, <2>6, <3>1 DEF UnderWay
    <3>2. CASE \A w \in Writers : pc[w] # "head"
      <4>1. (buf \o pair) \o << >> = buf \o pair /\ << >> \in Seq(Nat)
        BY <1>2
      <4>2. Framed((buf \o pair) \o << >>, Pending)
        BY <1>1, <2>1, <3>2, <4>1 DEF UnderWay
      <4> QED
        BY Zenon, <2>6, <4>1, <4>2
    <3> QED
      BY <3>1, <3>2
  <2>8. Pending' = Tail(Pending) /\ Prefix(out, accepted)'
    <3> DEFINE n == Len(out) + 1
    <3>1. n \in 1 .. Len(accepted) + 1 /\ Len(out') = n
      <4>1. Len(out') = n
        BY <1>1, <1>2, <1>4
      <4>2. Len(out) \in Nat /\ Len(accepted) \in Nat /\ Len(out) <= Len(accepted)
        BY <1>2, <2>4 DEF Prefix
      <4> QED
        BY <4>1, <4>2
    <3>2. out' \in Seq(Seq(Nat)) /\ out'[n] = r /\ \A i \in 1 .. n - 1 : out'[i] = out[i]
      BY <1>1, <1>2, <1>4
    <3>3. \A i \in 1 .. n - 1 : out[i] = accepted[i]
      <4>1. 1 .. n - 1 = 1 .. Len(out)
        BY <1>2
      <4> QED
        BY <2>4, <4>1 DEF Prefix
    <3> HIDE DEF n
    <3>4. /\ n <= Len(accepted) /\ SubSeq(accepted, n, Len(accepted))[1] = accepted[n]
          /\ Tail(SubSeq(accepted, n, Len(accepted))) = SubSeq(accepted, n + 1, Len(accepted))
      BY Zenon, <1>2, <2>7, <3>1, RestTail DEF Pending, n
    <3>5. r = accepted[n]
      BY <2>7, <3>4 DEF Pending, n
    <3>6. Pending' = Tail(Pending)
      BY <2>3, <3>1, <3>4 DEF Pending, n
    <3>7. \A i \in 1 .. n : out'[i] = accepted[i]
      BY <3>1, <3>2, <3>3, <3>5
    <3> QED
      BY <2>3, <3>1, <3>4, <3>6, <3>7 DEF Prefix
  <2>9. \A w \in Writers : pc[w] = "head" => Framed((buf' \o pair) \o rec[w], Tail(Pending))
    BY <1>1, <1>2, <2>1, <2>6 DEF UnderWay
  <2>10. (\A w \in Writers : pc[w] # "head") => Framed(buf' \o pair, Tail(Pending))
    <3>1. /\ (buf \o pair) \o << >> = buf \o pair /\ << >> \in Seq(Nat)
          /\ (buf' \o pair) \o << >> = buf' \o pair
      BY <1>2, <1>4
    <3> QED
      BY Zenon, <1>1, <2>1, <2>6, <3>1 DEF UnderWay
  <2>11. UnderWay'
    BY <1>1, <2>3, <2>8, <2>9, <2>10 DEF UnderWay
  <2> QED
    BY <2>2, <2>11
<1> QED
  BY <1>6, <1>7, <1>8, <1>9 DEF IInv

------------------------------------------------------------------------------
\* The inductive invariant is kept by every step.
LEMMA NextIInv == IInv /\ [Next]_vars => IInv'
<1> SUFFICES ASSUME IInv, [Next]_vars PROVE IInv'
  OBVIOUS
<1>1. CASE \E w \in Writers : WriterStep(w)
  BY <1>1, createHeadKeeps, writeHeadKeeps, mailHeadKeeps, writeBodyKeeps DEF WriterStep
<1>2. CASE \E t \in Threads : SigHandEntry(t)
  BY <1>2, SigHandEntryKeeps
<1>3. CASE Loop
  BY <1>3, ArriveKeeps, WriteKeeps, LoopKeeps DEF Loop
<1>4. CASE (\E ok \in BOOLEAN : addLoger(ok)) \/ dbLost \/ onStop \/ UNCHANGED vars
  BY <1>4, LoopKeeps
<1> QED
  BY <1>1, <1>2, <1>3, <1>4 DEF Next

\* The inductive invariant holds in every state.
LEMMA AlwaysIInv == Spec => []IInv
BY InitIInv, NextIInv, PTL DEF Spec

\* For any number of threads, any records and any size of the socket pair: the
\* loop takes out the records whole and in the order of their heads, as long as
\* no head was built over another one's and no write was short (writeLog,
\* writeDBLog, sendMail and LogerReadCB).
THEOREM RecordsInOrder == Spec => []InOrder
<1>1. IInv => InOrder
  BY DEF IInv, UnderWay, Prefix, InOrder
<1> QED
  BY <1>1, AlwaysIInv, PTL

\* A log file has no hole, whatever was lost on the way to it and whenever it did
\* not open again (CTxtLoger::Write).
THEOREM NoGapInFile == Spec => []FileHasNoGap
<1>1. IInv => FileHasNoGap
  BY DEF IInv, FileWhole, Prefix, FileHasNoGap
<1> QED
  BY <1>1, AlwaysIInv, PTL

------------------------------------------------------------------------------
(* The identifiers.                                                        *)

CONSTANTS Seqs, Machines, Gens, machine

VARIABLES m_iIndex, laps, calls

Ids == INSTANCE Snowflake

\* What is known of a call.
Call == [gen : Gens, time : Nat, index : 0..Seqs - 1, lap : Nat, id : Int]

IdsInv ==
  /\ m_iIndex \in [Gens -> 0..Seqs - 1]
  /\ laps \in [Gens -> Nat]
  /\ calls \subseteq Call
  /\ \A c \in calls : c.id = Ids!Id(c.time, machine[c.gen], c.index)
  /\ \A c \in calls :
       \/ c.lap < laps[c.gen]
       \/ c.lap = laps[c.gen] /\ c.index < m_iIndex[c.gen]
  /\ \A c, d \in calls :
       c.gen = d.gen /\ c.lap = d.lap /\ c.index = d.index => c = d

\* A sum of a multiple of n and a rest below n determines both.
LEMMA Digits ==
  ASSUME NEW n \in Nat \ {0}, NEW a \in Nat, NEW b \in Nat,
         NEW r \in 0..n - 1, NEW s \in 0..n - 1, a * n + r = b * n + s
  PROVE  a = b /\ r = s
  <1>1. CASE a = b
    <2>1. a * n = b * n
      BY <1>1
    <2> QED BY <1>1, <2>1
  <1>2. ASSUME a < b PROVE FALSE
    <2>1. b - a - 1 \in Nat
      BY <1>2
    <2>2. (b - a - 1) * n >= 0
      BY <2>1
    <2>3. (b - a - 1) * n = b * n - a * n - n
      OBVIOUS
    <2>4. a * n \in Nat /\ b * n \in Nat
      OBVIOUS
    <2> QED BY <2>2, <2>3, <2>4
  <1>3. ASSUME b < a PROVE FALSE
    <2>1. a - b - 1 \in Nat
      BY <1>3
    <2>2. (a - b - 1) * n >= 0
      BY <2>1
    <2>3. (a - b - 1) * n = a * n - b * n - n
      OBVIOUS
    <2>4. a * n \in Nat /\ b * n \in Nat
      OBVIOUS
    <2> QED BY <2>2, <2>3, <2>4
  <1> QED BY <1>1, <1>2, <1>3

\* An id determines the time, the machine id and the index it was made of.
LEMMA IdParts ==
  ASSUME Ids!Assumptions, NEW t \in Nat, NEW u \in Nat,
         NEW m \in 0..Machines - 1, NEW k \in 0..Machines - 1,
         NEW i \in 0..Seqs - 1, NEW j \in 0..Seqs - 1, Ids!Id(t, m, i) = Ids!Id(u, k, j)
  PROVE  t = u /\ m = k /\ i = j
  <1> DEFINE a == t * Machines + m
             b == u * Machines + k
  <1>1. a \in Nat /\ b \in Nat /\ Seqs \in Nat \ {0} /\ a * Seqs + i = b * Seqs + j
    BY DEF Ids!Assumptions, Ids!Id
  <1>2. a = b /\ i = j
    <2> HIDE DEF a, b
    <2> QED BY <1>1, Digits
  <1>3. t = u /\ m = k
    BY <1>2, Digits DEF Ids!Assumptions
  <1> QED BY <1>2, <1>3

\* A call that is further on in its generator is one of a later lap, or of the
\* same lap with a higher index; equal indices are whole laps apart.
LEMMA LapsApart ==
  ASSUME NEW n \in Nat \ {0}, NEW a \in Nat, NEW b \in Nat, NEW i \in 0..n - 1, a < b
  PROVE  (b * n + i) - (a * n + i) >= n
  <1>1. (b - a - 1) * n >= 0 /\ (b - a - 1) * n = b * n - a * n - n
    <2>1. b - a - 1 \in Nat
      OBVIOUS
    <2>2. (b - a - 1) * n >= 0
      BY <2>1
    <2> QED BY <2>2
  <1>2. a * n \in Nat /\ b * n \in Nat
    OBVIOUS
  <1> QED BY <1>1, <1>2

\* The invariant says enough about the calls.
LEMMA Enough == ASSUME Ids!Assumptions, IdsInv PROVE Ids!RepeatsFarApart
  <1> SUFFICES ASSUME NEW c \in calls, NEW d \in calls, c # d, c.id = d.id
               PROVE  /\ c.time = d.time
                      /\ machine[c.gen] = machine[d.gen]
                      /\ c.gen = d.gen =>
                           Ids!Number(d) - Ids!Number(c) >= Seqs \/ Ids!Number(c) - Ids!Number(d) >= Seqs
    BY DEF Ids!RepeatsFarApart
  <1>1. c \in Call /\ d \in Call
    BY DEF IdsInv
  <1>2. /\ c.time \in Nat /\ d.time \in Nat /\ c.lap \in Nat /\ d.lap \in Nat
        /\ c.index \in 0..Seqs - 1 /\ d.index \in 0..Seqs - 1
        /\ machine[c.gen] \in 0..Machines - 1 /\ machine[d.gen] \in 0..Machines - 1
    BY <1>1 DEF Call, Ids!Assumptions
  <1>3. Ids!Id(c.time, machine[c.gen], c.index) = Ids!Id(d.time, machine[d.gen], d.index)
    BY DEF IdsInv
  <1>4. c.time = d.time /\ machine[c.gen] = machine[d.gen] /\ c.index = d.index
    <2> DEFINE t == c.time
               u == d.time
               m == machine[c.gen]
               k == machine[d.gen]
               i == c.index
               j == d.index
    <2>1. /\ t \in Nat /\ u \in Nat /\ m \in 0..Machines - 1 /\ k \in 0..Machines - 1
          /\ i \in 0..Seqs - 1 /\ j \in 0..Seqs - 1 /\ Ids!Id(t, m, i) = Ids!Id(u, k, j)
      BY <1>2, <1>3
    <2> HIDE DEF t, u, m, k, i, j
    <2>2. t = u /\ m = k /\ i = j
      BY <2>1, IdParts
    <2> QED BY <2>2 DEF t, u, m, k, i, j
  <1>5. ASSUME c.gen = d.gen
        PROVE  Ids!Number(d) - Ids!Number(c) >= Seqs \/ Ids!Number(c) - Ids!Number(d) >= Seqs
    <2>1. c.lap # d.lap
      BY <1>4, <1>5 DEF IdsInv
    <2>2. c.lap < d.lap \/ d.lap < c.lap
      BY <2>1, <1>2
    <2>3. Seqs \in Nat \ {0}
      BY DEF Ids!Assumptions
    <2>4. CASE c.lap < d.lap
      BY <2>3, <2>4, <1>2, <1>4, LapsApart DEF Ids!Number
    <2>5. CASE d.lap < c.lap
      BY <2>3, <2>5, <1>2, <1>4, LapsApart DEF Ids!Number
    <2> QED BY <2>2, <2>4, <2>5
  <1> QED BY <1>4, <1>5

\* A call of Generate gets a pair of lap and index that no earlier one had.
LEMMA GenerateKeeps ==
  ASSUME Ids!Assumptions, IdsInv, NEW g \in Gens, NEW time \in Nat, Ids!Generate(g, time)
  PROVE  IdsInv'
  <1> DEFINE new == [gen |-> g, time |-> time, index |-> m_iIndex[g], lap |-> laps[g],
                     id |-> Ids!Id(time, machine[g], m_iIndex[g])]
  <1>1. /\ m_iIndex \in [Gens -> 0..Seqs - 1] /\ laps \in [Gens -> Nat]
        /\ m_iIndex[g] \in 0..Seqs - 1 /\ laps[g] \in Nat /\ Seqs \in Nat \ {0}
    BY DEF IdsInv, Ids!Assumptions
  <1>2. new \in Call
    <2>1. Ids!Id(time, machine[g], m_iIndex[g]) \in Int
      BY <1>1 DEF Ids!Id, Ids!Assumptions
    <2> QED BY <1>1, <2>1 DEF Call
  <1>3. calls' = calls \cup {new}
    BY DEF Ids!Generate
  <1>4. m_iIndex' \in [Gens -> 0..Seqs - 1] /\ laps' \in [Gens -> Nat]
    BY <1>1 DEF Ids!Generate
  <1>5. calls' \subseteq Call
    BY <1>2, <1>3 DEF IdsInv
  <1>6. \A c \in calls' : c.id = Ids!Id(c.time, machine[c.gen], c.index)
    BY <1>3 DEF IdsInv
  <1>7. \/ laps'[g] = laps[g] + 1
        \/ laps'[g] = laps[g] /\ m_iIndex'[g] = m_iIndex[g] + 1
    BY <1>1 DEF Ids!Generate
  <1>8. \A h \in Gens : h # g => laps'[h] = laps[h] /\ m_iIndex'[h] = m_iIndex[h]
    BY <1>1 DEF Ids!Generate
  <1>9. ASSUME NEW c \in calls'
        PROVE  \/ c.lap < laps'[c.gen]
               \/ c.lap = laps'[c.gen] /\ c.index < m_iIndex'[c.gen]
    <2>1. CASE c = new
      <3>1. c.gen = g /\ c.lap = laps[g] /\ c.index = m_iIndex[g]
        BY <2>1
      <3> HIDE DEF new
      <3> QED BY <3>1, <1>1, <1>7
    <2>2. CASE c \in calls /\ c.gen = g
      <3>1. c.lap \in Nat /\ c.index \in 0..Seqs - 1
        BY <2>2 DEF IdsInv, Call
      <3>2. c.lap < laps[g] \/ (c.lap = laps[g] /\ c.index < m_iIndex[g])
        BY <2>2 DEF IdsInv
      <3> QED BY <3>1, <3>2, <2>2, <1>1, <1>7
    <2>3. CASE c \in calls /\ c.gen # g
      <3>1. c.gen \in Gens
        BY <2>3 DEF IdsInv, Call
      <3>2. c.lap < laps[c.gen] \/ (c.lap = laps[c.gen] /\ c.index < m_iIndex[c.gen])
        BY <2>3 DEF IdsInv
      <3> QED BY <3>1, <3>2, <2>3, <1>8
    <2> HIDE DEF new
    <2> QED BY <2>1, <2>2, <2>3, <1>3
  <1>10. \A c \in calls : ~(c.gen = g /\ c.lap = laps[g] /\ c.index = m_iIndex[g])
    <2> SUFFICES ASSUME NEW c \in calls, c.gen = g, c.lap = laps[g], c.index = m_iIndex[g]
                 PROVE  FALSE
      OBVIOUS
    <2>1. c.lap < laps[g] \/ (c.lap = laps[g] /\ c.index < m_iIndex[g])
      BY DEF IdsInv
    <2> QED BY <2>1, <1>1
  <1>11. ASSUME NEW c \in calls', NEW d \in calls',
                c.gen = d.gen, c.lap = d.lap, c.index = d.index
         PROVE  c = d
    <2>1. CASE c \in calls /\ d \in calls
      BY <2>1, <1>11 DEF IdsInv
    <2>2. CASE c = new /\ d = new
      BY <2>2
    <2>3. CASE c = new /\ d \in calls
      BY <2>3, <1>10, <1>11
    <2>4. CASE c \in calls /\ d = new
      BY <2>4, <1>10, <1>11
    <2> QED BY <2>1, <2>2, <2>3, <2>4, <1>3
  <1> HIDE DEF new
  <1> QED BY <1>4, <1>5, <1>6, <1>9, <1>11 DEF IdsInv

\* Ids of CSnowflakeID repeat only within a millisecond, and there only after a
\* whole round of the index or between generators with one machine id.
THEOREM IdsRepeatFarApart == ASSUME Ids!Assumptions PROVE Ids!Spec => []Ids!RepeatsFarApart
  <1>1. Ids!Init => IdsInv
    BY DEF Ids!Init, IdsInv, Ids!Assumptions
  <1>2. IdsInv /\ [Ids!Next]_(Ids!vars) => IdsInv'
    <2> SUFFICES ASSUME IdsInv, [Ids!Next]_(Ids!vars) PROVE IdsInv'
      OBVIOUS
    <2>1. CASE Ids!Next
      BY <2>1, GenerateKeeps DEF Ids!Next
    <2>2. CASE UNCHANGED Ids!vars
      BY <2>2 DEF Ids!vars, IdsInv
    <2> QED BY <2>1, <2>2
  <1>3. IdsInv => Ids!RepeatsFarApart
    BY Enough
  <1> QED BY <1>1, <1>2, <1>3, PTL DEF Ids!Spec
==============================================================================
