---------------------------- MODULE BytesProofs -----------------------------
(***************************************************************************)
(* Facts about bytes, about cuts of a sequence and about the functions     *)
(* that walk over one, for FramingProofs and WireProofs.                   *)
(***************************************************************************)
EXTENDS Bytes, SequenceTheorems, WellFoundedInduction, TLAPS

(* ntohl of four bytes is a number.                                        *)
LEMMA TotalIsInt ==
  ASSUME NEW s \in Seq(Byte), Len(s) >= 4
  PROVE  Total(s) \in Int
<1>1. s[1] \in Int /\ s[2] \in Int /\ s[3] \in Int /\ s[4] \in Int
  <2>1. s[1] \in Byte /\ s[2] \in Byte /\ s[3] \in Byte /\ s[4] \in Byte
    OBVIOUS
  <2>2. Byte \subseteq Int
    BY BytesAssumption DEF Byte
  <2> QED BY <2>1, <2>2
<1>2. \A x, y \in Int : x * Base + y \in Int
  BY BytesAssumption
<1>3. s[1] * Base + s[2] \in Int
  BY <1>1, <1>2
<1>4. (s[1] * Base + s[2]) * Base + s[3] \in Int
  BY <1>1, <1>2, <1>3
<1>5. ((s[1] * Base + s[2]) * Base + s[3]) * Base + s[4] \in Int
  BY <1>1, <1>2, <1>4
<1> QED BY <1>5 DEF Total

(* What SubSeq gives of a sequence within its bounds.                      *)
LEMMA Cut ==
  ASSUME NEW S, NEW s \in Seq(S), NEW m \in 1 .. Len(s) + 1, NEW n \in 0 .. Len(s),
         m <= n + 1
  PROVE  /\ SubSeq(s, m, n) \in Seq(S)
         /\ Len(SubSeq(s, m, n)) = n - m + 1
         /\ \A i \in 1 .. n - m + 1 : SubSeq(s, m, n)[i] = s[m + i - 1]
<1>1. \A i \in m .. n : s[i] \in S
  OBVIOUS
<1> QED BY <1>1, SubSeqProperties

(* Two neighbouring cuts make one: what is read next continues what has    *)
(* been read.                                                              *)
LEMMA CutsJoin ==
  ASSUME NEW S, NEW s \in Seq(S), NEW a \in 0 .. Len(s), NEW b \in 0 .. Len(s),
         NEW c \in 0 .. Len(s), a <= b, b <= c
  PROVE  SubSeq(s, a + 1, b) \o SubSeq(s, b + 1, c) = SubSeq(s, a + 1, c)
<1> DEFINE l == SubSeq(s, a + 1, b)
           r == SubSeq(s, b + 1, c)
           t == SubSeq(s, a + 1, c)
<1>1. /\ l \in Seq(S) /\ Len(l) = b - a
      /\ \A i \in 1 .. b - a : l[i] = s[a + i]
  BY Cut
<1>2. /\ r \in Seq(S) /\ Len(r) = c - b
      /\ \A i \in 1 .. c - b : r[i] = s[b + i]
  BY Cut
<1>3. /\ t \in Seq(S) /\ Len(t) = c - a
      /\ \A i \in 1 .. c - a : t[i] = s[a + i]
  BY Cut
<1> HIDE DEF l, r, t
<1>4. /\ l \o r \in Seq(S) /\ Len(l \o r) = c - a
      /\ \A i \in 1 .. c - a : (l \o r)[i] = IF i <= b - a THEN l[i] ELSE r[i - (b - a)]
  <2>1. Len(l) + Len(r) = c - a
    BY <1>1, <1>2
  <2>2. /\ l \o r \in Seq(S) /\ Len(l \o r) = Len(l) + Len(r)
        /\ \A i \in 1 .. Len(l) + Len(r) :
              (l \o r)[i] = IF i <= Len(l) THEN l[i] ELSE r[i - Len(l)]
    BY <1>1, <1>2, ConcatProperties
  <2> QED BY <2>1, <2>2, <1>1
<1>5. \A i \in 1 .. c - a : (l \o r)[i] = t[i]
  <2> SUFFICES ASSUME NEW i \in 1 .. c - a PROVE (l \o r)[i] = t[i]
    OBVIOUS
  <2>1. CASE i <= b - a
    <3>1. i \in 1 .. b - a /\ (l \o r)[i] = l[i]
      BY <2>1, <1>4
    <3> QED BY <3>1, <1>1, <1>3
  <2>2. CASE ~(i <= b - a)
    <3>1. i - (b - a) \in 1 .. c - b /\ b + (i - (b - a)) = a + i
      BY <2>2
    <3> QED BY <2>2, <3>1, <1>2, <1>3, <1>4
  <2> QED BY <2>1, <2>2
<1>6. l \o r = t
  BY <1>3, <1>4, <1>5, SeqEqual
<1> QED BY <1>6 DEF l, r, t

(* The end of a cut is a cut with the same end: what is left after taking  *)
(* something from its front.                                               *)
LEMMA CutOfCut ==
  ASSUME NEW S, NEW s \in Seq(S), NEW a \in 0 .. Len(s), NEW c \in 0 .. Len(s),
         a <= c, NEW k \in 0 .. c - a
  PROVE  SubSeq(SubSeq(s, a + 1, c), k + 1, c - a) = SubSeq(s, a + k + 1, c)
<1> DEFINE t == SubSeq(s, a + 1, c)
           u == SubSeq(t, k + 1, c - a)
           v == SubSeq(s, a + k + 1, c)
<1>1. /\ t \in Seq(S) /\ Len(t) = c - a
      /\ \A i \in 1 .. c - a : t[i] = s[a + i]
  BY Cut
<1> HIDE DEF t
<1>2. /\ u \in Seq(S) /\ Len(u) = c - a - k
      /\ \A i \in 1 .. c - a - k : u[i] = t[k + i]
  BY <1>1, Cut
<1>3. /\ v \in Seq(S) /\ Len(v) = c - a - k
      /\ \A i \in 1 .. c - a - k : v[i] = s[a + k + i]
  BY Cut
<1> HIDE DEF u, v
<1>4. \A i \in 1 .. c - a - k : u[i] = v[i]
  <2> SUFFICES ASSUME NEW i \in 1 .. c - a - k PROVE u[i] = v[i]
    OBVIOUS
  <2>1. k + i \in 1 .. c - a /\ a + (k + i) = a + k + i
    OBVIOUS
  <2> QED BY <2>1, <1>1, <1>2, <1>3
<1>5. u = v
  BY <1>2, <1>3, <1>4, SeqEqual
<1> QED BY <1>5 DEF t, u, v

(* The beginning of a cut is a cut with the same beginning.                *)
LEMMA FrontOfCut ==
  ASSUME NEW S, NEW s \in Seq(S), NEW a \in 0 .. Len(s), NEW c \in 0 .. Len(s),
         a <= c, NEW k \in 0 .. c - a
  PROVE  SubSeq(SubSeq(s, a + 1, c), 1, k) = SubSeq(s, a + 1, a + k)
<1> DEFINE t == SubSeq(s, a + 1, c)
           u == SubSeq(t, 1, k)
           v == SubSeq(s, a + 1, a + k)
<1>1. /\ t \in Seq(S) /\ Len(t) = c - a
      /\ \A i \in 1 .. c - a : t[i] = s[a + i]
  BY Cut
<1> HIDE DEF t
<1>2. /\ u \in Seq(S) /\ Len(u) = k
      /\ \A i \in 1 .. k : u[i] = t[i]
  BY <1>1, Cut
<1>3. /\ v \in Seq(S) /\ Len(v) = k
      /\ \A i \in 1 .. k : v[i] = s[a + i]
  BY Cut
<1> HIDE DEF u, v
<1>4. \A i \in 1 .. k : u[i] = v[i]
  <2> SUFFICES ASSUME NEW i \in 1 .. k PROVE u[i] = v[i]
    OBVIOUS
  <2>1. i \in 1 .. c - a
    OBVIOUS
  <2> QED BY <2>1, <1>1, <1>2, <1>3
<1>5. u = v
  BY <1>2, <1>3, <1>4, SeqEqual
<1> QED BY <1>5 DEF t, u, v

(* A cut of a cut is a cut.                                                *)
LEMMA CutInCut ==
  ASSUME NEW S, NEW s \in Seq(S), NEW a \in 0 .. Len(s), NEW c \in 0 .. Len(s), a <= c,
         NEW i \in 0 .. c - a, NEW j \in 0 .. c - a, i <= j
  PROVE  SubSeq(SubSeq(s, a + 1, c), i + 1, j) = SubSeq(s, a + i + 1, a + j)
<1> DEFINE t == SubSeq(s, a + 1, c)
           u == SubSeq(t, i + 1, j)
           v == SubSeq(s, a + i + 1, a + j)
<1>1. /\ t \in Seq(S) /\ Len(t) = c - a
      /\ \A k \in 1 .. c - a : t[k] = s[a + k]
  BY Cut
<1> HIDE DEF t
<1>2. /\ u \in Seq(S) /\ Len(u) = j - i
      /\ \A k \in 1 .. j - i : u[k] = t[i + k]
  BY <1>1, Cut
<1>3. /\ v \in Seq(S) /\ Len(v) = j - i
      /\ \A k \in 1 .. j - i : v[k] = s[a + i + k]
  BY Cut
<1> HIDE DEF u, v
<1>4. \A k \in 1 .. j - i : u[k] = v[k]
  <2> SUFFICES ASSUME NEW k \in 1 .. j - i PROVE u[k] = v[k]
    OBVIOUS
  <2>1. i + k \in 1 .. c - a /\ a + (i + k) = a + i + k
    OBVIOUS
  <2> QED BY <2>1, <1>1, <1>2, <1>3
<1>5. u = v
  BY <1>2, <1>3, <1>4, SeqEqual
<1> QED BY <1>5 DEF t, u, v
-----------------------------------------------------------------------------
(* Induction over an interval, on sets: a nonempty set of numbers has a    *)
(* least one, so a set that is left nowhere holds the interval.            *)

LEMMA Least ==
  ASSUME NEW Z, Z \subseteq Nat, Z # {}
  PROVE  \E m \in Z : \A n \in Z : m <= n
<1>1. PICK m \in Z : \A n \in Z : ~(<<n, m>> \in OpToRel(<, Nat))
  BY WFMin, NatLessThanWellFounded
<1>2. \A n \in Z : ~(n < m)
  BY <1>1 DEF OpToRel
<1>3. \A n \in Z : m <= n
  BY <1>2
<1> QED BY <1>3

LEMMA Upward ==
  ASSUME NEW lo \in Nat, NEW hi \in Nat, NEW Z,
         lo \in Z, \A k \in lo .. hi - 1 : k \in Z => k + 1 \in Z
  PROVE  lo .. hi \subseteq Z
<1> DEFINE Y == (lo .. hi) \ Z
<1>1. SUFFICES ASSUME Y # {} PROVE FALSE
  OBVIOUS
<1>2. Y \subseteq Nat
  OBVIOUS
<1>3. PICK m \in Y : \A n \in Y : m <= n
  <2> HIDE DEF Y
  <2> QED BY <1>1, <1>2, Least
<1>4. m \in lo .. hi /\ m \notin Z /\ m # lo
  OBVIOUS
<1>5. m - 1 \in lo .. hi - 1 /\ (m - 1) + 1 = m /\ m - 1 \in lo .. hi /\ ~(m <= m - 1)
  BY <1>4
<1>6. m - 1 \in Z
  BY <1>3, <1>5
<1> QED BY <1>4, <1>5, <1>6

LEMMA Downward ==
  ASSUME NEW lo \in Nat, NEW hi \in Nat, NEW Z,
         hi \in Z, \A k \in lo .. hi - 1 : k + 1 \in Z => k \in Z
  PROVE  lo .. hi \subseteq Z
<1> DEFINE Y == {k \in 0 .. hi : hi - k \in lo .. hi /\ hi - k \notin Z}
<1>1. ASSUME NEW k \in lo .. hi PROVE k \in Z
  <2>1. SUFFICES ASSUME k \notin Z PROVE FALSE
    OBVIOUS
  <2>2. hi - k \in 0 .. hi /\ hi - (hi - k) = k
    OBVIOUS
  <2>3. hi - k \in Y
    BY <2>1, <2>2
  <2>4. Y \subseteq Nat
    OBVIOUS
  <2>5. PICK m \in Y : \A n \in Y : m <= n
    <3> HIDE DEF Y
    <3> QED BY <2>3, <2>4, Least
  <2>6. m \in 0 .. hi /\ hi - m \in lo .. hi /\ hi - m \notin Z
    OBVIOUS
  <2>7. m # 0
    <3>1. hi - 0 = hi
      OBVIOUS
    <3> QED BY <2>6, <3>1
  <2>8. /\ m - 1 \in 0 .. hi /\ ~(m <= m - 1) /\ hi - (m - 1) = (hi - m) + 1
        /\ hi - m \in lo .. hi - 1 /\ hi - (m - 1) \in lo .. hi
    BY <2>6, <2>7
  <2>9. hi - (m - 1) \in Z
    BY <2>5, <2>8
  <2> QED BY <2>6, <2>8, <2>9
<1> QED BY <1>1

-----------------------------------------------------------------------------
(* Recursive functions.  A walk to the right, which collects head[i] and   *)
(* goes on at next[i] until it stops, is a function, and just one.         *)
Walks(f, lo, hi, stop, head, next) ==
    f = [i \in lo .. hi |-> IF i \in stop THEN <<>> ELSE head[i] \o f[next[i]]]

LEMMA WalkExists ==
  ASSUME NEW N \in Nat, NEW stop, NEW head, NEW next,
         \A i \in 1 .. N : i \notin stop => next[i] \in i + 1 .. N
  PROVE  \E f : Walks(f, 1, N, stop, head, next)
<1> DEFINE Z == {lo \in 1 .. N + 1 : \E f : Walks(f, lo, N, stop, head, next)}
<1>1. N + 1 \in Z
  <2> DEFINE f == [i \in N + 1 .. N |-> <<>>]
  <2>1. \A i \in N + 1 .. N : FALSE
    OBVIOUS
  <2>2. Walks(f, N + 1, N, stop, head, next)
    BY <2>1 DEF Walks
  <2> QED BY <2>2
<1>2. ASSUME NEW lo \in 1 .. (N + 1) - 1, lo + 1 \in Z PROVE lo \in Z
  <2>1. lo \in 1 .. N
    OBVIOUS
  <2>2. PICK g : Walks(g, lo + 1, N, stop, head, next)
    BY <1>2
  <2> DEFINE f == [i \in lo .. N |-> IF i = lo THEN (IF lo \in stop THEN <<>> ELSE head[lo] \o g[next[lo]])
                                     ELSE g[i]]
             h == [i \in lo .. N |-> IF i \in stop THEN <<>> ELSE head[i] \o f[next[i]]]
  <2>3. ASSUME NEW i \in lo .. N PROVE f[i] = h[i]
    <3>1. CASE i \in stop
      <4>1. CASE i = lo
        BY <3>1, <4>1
      <4>2. CASE i # lo
        <5>1. i \in lo + 1 .. N
          BY <2>1, <4>2
        <5>2. g[i] = <<>>
          BY <2>2, <3>1, <5>1 DEF Walks
        <5> QED BY <3>1, <4>2, <5>2
      <4> QED BY <4>1, <4>2
    <3>2. CASE i \notin stop
      <4>1. next[i] \in lo + 1 .. N /\ i \in 1 .. N
        BY <2>1, <3>2
      <4>2. next[i] \in lo .. N /\ next[i] # lo
        BY <2>1, <4>1
      <4>3. f[next[i]] = g[next[i]]
        BY <4>2
      <4>4. CASE i = lo
        BY <3>2, <4>3, <4>4
      <4>5. CASE i # lo
        <5>1. i \in lo + 1 .. N
          BY <2>1, <4>5
        <5>2. g[i] = head[i] \o g[next[i]]
          BY <2>2, <3>2, <5>1 DEF Walks
        <5> QED BY <3>2, <4>3, <4>5, <5>2
      <4> QED BY <4>4, <4>5
    <3> QED BY <3>1, <3>2
  <2>4. f = h
    <3>1. DOMAIN f = lo .. N /\ DOMAIN h = lo .. N
      OBVIOUS
    <3>2. f = [i \in lo .. N |-> f[i]] /\ h = [i \in lo .. N |-> h[i]]
      OBVIOUS
    <3> HIDE DEF f, h
    <3> QED BY <2>3, <3>2
  <2> HIDE DEF f
  <2>5. Walks(f, lo, N, stop, head, next)
    BY <2>4 DEF Walks
  <2>6. lo \in 1 .. N + 1
    BY <2>1
  <2> QED BY <2>5, <2>6
<1>3. 1 \in 1 .. N + 1 /\ N + 1 \in Nat
  OBVIOUS
<1> HIDE DEF Z
<1>4. 1 .. N + 1 \subseteq Z
  BY <1>1, <1>2, <1>3, Downward
<1> QED BY <1>3, <1>4 DEF Z

LEMMA WalkUnique ==
  ASSUME NEW N \in Nat, NEW stop, NEW head, NEW next,
         \A i \in 1 .. N : i \notin stop => next[i] = i + 1 /\ next[i] \in 1 .. N,
         NEW f, Walks(f, 1, N, stop, head, next),
         NEW g, Walks(g, 1, N, stop, head, next)
  PROVE  f = g
<1> DEFINE Z == {i \in 1 .. N + 1 : i <= N => f[i] = g[i]}
<1>1. N + 1 \in Z
  OBVIOUS
<1>2. ASSUME NEW i \in 1 .. (N + 1) - 1, i + 1 \in Z PROVE i \in Z
  <2>1. i \in 1 .. N
    OBVIOUS
  <2>2. ASSUME i \in stop PROVE f[i] = g[i]
    BY <2>1, <2>2 DEF Walks
  <2>3. ASSUME i \notin stop PROVE f[i] = g[i]
    <3>1. next[i] = i + 1 /\ i + 1 \in 1 .. N
      BY <2>1, <2>3
    <3>2. f[i + 1] = g[i + 1]
      BY <1>2, <3>1
    <3>3. f[i] = head[i] \o f[i + 1] /\ g[i] = head[i] \o g[i + 1]
      BY <2>1, <2>3, <3>1 DEF Walks
    <3> QED BY <3>2, <3>3
  <2>4. i \in 1 .. N + 1
    BY <2>1
  <2> QED BY <2>2, <2>3, <2>4
<1>3. N + 1 \in Nat /\ 1 \in Nat
  OBVIOUS
<1> HIDE DEF Z
<1>4. 1 .. N + 1 \subseteq Z
  <2> DEFINE M == N + 1
  <2>1. /\ M \in Nat /\ 1 \in Nat /\ M \in Z
        /\ \A i \in 1 .. M - 1 : i + 1 \in Z => i \in Z
    BY <1>1, <1>2, <1>3
  <2> HIDE DEF M
  <2>2. 1 .. M \subseteq Z
    BY <2>1, Downward
  <2> QED BY <2>2 DEF M
<1>5. \A i \in 1 .. N : f[i] = g[i]
  BY <1>4 DEF Z
<1>6. f = [i \in 1 .. N |-> f[i]] /\ g = [i \in 1 .. N |-> g[i]]
  BY DEF Walks
<1> QED BY <1>5, <1>6

(* Where the pieces of a payload begin that are n[k] + 3 bytes long.       *)
Starts(at, N, n) == at = [k \in 1 .. N |-> IF k = 1 THEN 1 ELSE at[k - 1] + n[k - 1] + 3]

LEMMA StartsExist ==
  ASSUME NEW N \in Nat, NEW n
  PROVE  \E at : Starts(at, N, n)
<1> DEFINE Z == {d \in 0 .. N : \E f : Starts(f, d, n)}
<1>1. 0 \in Z
  <2> DEFINE f == [i \in 1 .. 0 |-> 1]
  <2>1. \A i \in 1 .. 0 : FALSE
    OBVIOUS
  <2>2. Starts(f, 0, n)
    BY <2>1 DEF Starts
  <2> QED BY <2>2
<1>2. ASSUME NEW c \in 0 .. N - 1, c \in Z PROVE c + 1 \in Z
  <2> DEFINE d == c + 1
  <2>1. PICK g : Starts(g, d - 1, n)
    BY <1>2
  <2>2. d \in 1 .. N
    OBVIOUS
  <2> HIDE DEF d
  <2> USE <2>2
  <2> DEFINE f == [k \in 1 .. d |-> IF k # d THEN g[k] ELSE IF k = 1 THEN 1 ELSE g[k - 1] + n[k - 1] + 3]
             h == [k \in 1 .. d |-> IF k = 1 THEN 1 ELSE f[k - 1] + n[k - 1] + 3]
  <2>3. ASSUME NEW k \in 1 .. d PROVE f[k] = h[k]
    <3>1. CASE k = 1
      <4>1. CASE k = d
        BY <3>1, <4>1
      <4>2. CASE k # d
        <5>1. k \in 1 .. d - 1
          BY <4>2
        <5>2. g[k] = 1
          BY <2>1, <3>1, <5>1 DEF Starts
        <5> QED BY <3>1, <4>2, <5>2
      <4> QED BY <4>1, <4>2
    <3>2. CASE k # 1
      <4>1. k - 1 \in 1 .. d /\ k - 1 # d
        BY <3>2
      <4>2. f[k - 1] = g[k - 1]
        BY <4>1
      <4>3. CASE k = d
        BY <3>2, <4>2, <4>3
      <4>4. CASE k # d
        <5>1. k \in 1 .. d - 1
          BY <4>4
        <5>2. g[k] = g[k - 1] + n[k - 1] + 3
          BY <2>1, <3>2, <5>1 DEF Starts
        <5> QED BY <3>2, <4>2, <4>4, <5>2
      <4> QED BY <4>3, <4>4
    <3> QED BY <3>1, <3>2
  <2>4. f = h
    <3>1. f = [k \in 1 .. d |-> f[k]] /\ h = [k \in 1 .. d |-> h[k]]
      OBVIOUS
    <3> HIDE DEF f, h
    <3> QED BY <2>3, <3>1
  <2> HIDE DEF f
  <2>5. Starts(f, d, n)
    BY <2>4 DEF Starts
  <2>6. d \in 0 .. N
    OBVIOUS
  <2> QED BY <2>5, <2>6 DEF d
<1>3. 0 \in Nat /\ N \in 0 .. N
  OBVIOUS
<1> HIDE DEF Z
<1>4. 0 .. N \subseteq Z
  BY <1>1, <1>2, <1>3, Upward
<1> QED BY <1>3, <1>4 DEF Z

(* They follow one another.                                                *)
LEMMA StartsGrow ==
  ASSUME NEW N \in Nat, NEW n \in [1 .. N -> Nat], NEW at, Starts(at, N + 1, n)
  PROVE  /\ at[1] = 1
         /\ \A k \in 1 .. N : at[k + 1] = at[k] + n[k] + 3
         /\ \A k \in 1 .. N + 1 : at[k] \in Nat /\ at[k] <= at[N + 1]
<1>1. at[1] = 1
  BY DEF Starts
<1>2. ASSUME NEW k \in 1 .. N PROVE at[k + 1] = at[k] + n[k] + 3
  <2>1. k + 1 \in 1 .. N + 1 /\ k + 1 # 1 /\ (k + 1) - 1 = k
    OBVIOUS
  <2>2. at[k + 1] = at[(k + 1) - 1] + n[(k + 1) - 1] + 3
    BY <2>1 DEF Starts
  <2> QED BY <2>1, <2>2
<1>3. 1 \in Nat /\ N + 1 \in Nat /\ (N + 1) - 1 = N
  OBVIOUS
<1>4. \A k \in 1 .. N + 1 : at[k] \in Nat
  <2> DEFINE Z == {k \in 1 .. N + 1 : at[k] \in Nat}
  <2>1. 1 \in Z
    BY <1>1
  <2>2. ASSUME NEW k \in 1 .. N, k \in Z PROVE k + 1 \in Z
    BY <1>2, <2>2
  <2> HIDE DEF Z
  <2>3. 1 .. N + 1 \subseteq Z
    BY <1>3, <2>1, <2>2, Upward
  <2> QED BY <2>3 DEF Z
<1>5. \A k \in 1 .. N + 1 : at[k] <= at[N + 1]
  <2> DEFINE Z == {k \in 1 .. N + 1 : at[k] <= at[N + 1]}
  <2>1. N + 1 \in Z
    BY <1>4
  <2>2. ASSUME NEW k \in 1 .. N, k + 1 \in Z PROVE k \in Z
    <3>1. k \in 1 .. N + 1 /\ k + 1 \in 1 .. N + 1 /\ N + 1 \in 1 .. N + 1
      OBVIOUS
    <3>2. at[k] \in Nat /\ at[k + 1] \in Nat /\ at[N + 1] \in Nat /\ n[k] \in Nat
      BY <1>4, <3>1
    <3>3. at[k + 1] = at[k] + n[k] + 3 /\ at[k + 1] <= at[N + 1]
      BY <1>2, <2>2
    <3>4. at[k] <= at[k + 1]
      BY <3>2, <3>3
    <3>5. at[k] <= at[N + 1]
      BY <3>2, <3>3, <3>4
    <3> QED BY <3>1, <3>5
  <2> HIDE DEF Z
  <2>3. 1 .. N + 1 \subseteq Z
    BY <1>3, <2>1, <2>2, Downward
  <2> QED BY <2>3 DEF Z
<1> QED BY <1>1, <1>2, <1>4, <1>5
=============================================================================
