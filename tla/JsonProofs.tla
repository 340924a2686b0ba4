----------------------------- MODULE JsonProofs ------------------------------
(***************************************************************************)
(* Reals with any number of digits and any exponent survive being written  *)
(* and read again.                                                         *)
(***************************************************************************)
EXTENDS JsonReals, SequenceTheorems, WellFoundedInduction, TLAPS

-----------------------------------------------------------------------------
(* Reading digits *)

\* Digits that are not all zero have a first and a last one that is none.
LEMMA EndsExist ==
  ASSUME NEW s \in Seq(Digits), NEW k \in 1..Len(s), s[k] # 0
  PROVE  /\ \E i \in 1..Len(s) : StartsAt(s, i)
         /\ \E i \in 1..Len(s) : EndsAt(s, i)
<1> DEFINE R == OpToRel(<, Nat)
           F == {i \in Nat : i \in 1..Len(s) /\ s[i] # 0}
           L == {i \in Nat : Len(s) - i \in 1..Len(s) /\ s[Len(s) - i] # 0}
<1>1. IsWellFoundedOn(R, Nat)
  BY NatLessThanWellFounded
<1>2. Len(s) \in Nat
  OBVIOUS
<1>3. k \in F /\ F \subseteq Nat
  BY <1>2
<1>4. Len(s) - k \in L /\ L \subseteq Nat
  BY <1>2
<1>5. PICK i \in F : \A j \in F : <<j, i>> \notin R
  <2> HIDE DEF R, F
  <2> QED BY <1>1, <1>3, WFMin
<1>6. PICK e \in L : \A j \in L : <<j, e>> \notin R
  <2> HIDE DEF R, L
  <2> QED BY <1>1, <1>4, WFMin
<1>7. \A j \in F : ~(j < i)
  BY <1>5 DEF OpToRel
<1>8. \A j \in L : ~(j < e)
  BY <1>6 DEF OpToRel
<1>9. StartsAt(s, i)
  <2>1. \A j \in 1..(i - 1) : j \in 1..Len(s) /\ j \in Nat /\ j < i
    BY <1>2
  <2> QED BY <1>7, <2>1 DEF StartsAt
<1>10. EndsAt(s, Len(s) - e)
  <2> SUFFICES ASSUME NEW j \in (Len(s) - e + 1)..Len(s) PROVE s[j] = 0
    BY DEF EndsAt
  <2>1. Len(s) - j \in Nat /\ Len(s) - (Len(s) - j) = j /\ j \in 1..Len(s) /\ Len(s) - j < e
    BY <1>2
  <2> QED BY <1>8, <2>1
<1> QED BY <1>9, <1>10

\* The digits s are d, without zeros at its ends, with m zeros in front of it
\* and zeros behind it.
Padded(s, d, m) ==
  /\ Len(d) > 0 /\ d[1] # 0 /\ d[Len(d)] # 0 /\ m + Len(d) <= Len(s)
  /\ \A i \in 1..Len(d) : s[m + i] = d[i]
  /\ \A i \in 1..m : s[i] = 0
  /\ \A i \in (m + Len(d) + 1)..Len(s) : s[i] = 0

\* Where the digits are found between the zeros.
LEMMA DigitsFound ==
  ASSUME NEW s \in Seq(Digits), NEW d \in Seq(Digits), NEW m \in Nat, Padded(s, d, m)
  PROVE  /\ (CHOOSE i \in 1..Len(s) : StartsAt(s, i)) = m + 1
         /\ (CHOOSE i \in 1..Len(s) : EndsAt(s, i)) = m + Len(d)
         /\ SubSeq(s, m + 1, m + Len(d)) = d
         /\ ~(\A i \in 1..Len(s) : s[i] = 0)
<1> SUFFICES ASSUME NEW n, n = Len(d), NEW c, c = Len(s),
                    n > 0, d[1] # 0, d[n] # 0, m + n <= c,
                    \A i \in 1..n : s[m + i] = d[i],
                    \A i \in 1..m : s[i] = 0,
                    \A i \in (m + n + 1)..c : s[i] = 0
             PROVE  /\ (CHOOSE i \in 1..c : StartsAt(s, i)) = m + 1
                    /\ (CHOOSE i \in 1..c : EndsAt(s, i)) = m + n
                    /\ SubSeq(s, m + 1, m + n) = d
                    /\ ~(\A i \in 1..c : s[i] = 0)
  BY Zenon DEF Padded
<1> DEFINE a == CHOOSE i \in 1..c : StartsAt(s, i)
           b == CHOOSE i \in 1..c : EndsAt(s, i)
           t == SubSeq(s, m + 1, m + n)
<1>1. n \in Nat /\ c \in Nat /\ \A i \in 1..c : s[i] \in Digits
  OBVIOUS
<1>2. m + 1 \in 1..c /\ m + n \in 1..c
  BY <1>1
<1>3. s[m + 1] # 0 /\ s[m + n] # 0
  <2>1. 1 \in 1..n /\ n \in 1..n
    BY <1>1
  <2> QED BY <2>1
<1>4. StartsAt(s, m + 1)
  <2>1. (m + 1) - 1 = m
    OBVIOUS
  <2> QED BY <1>3, <2>1 DEF StartsAt
<1>5. EndsAt(s, m + n)
  BY <1>3 DEF EndsAt
<1>6. a = m + 1
  <2>1. a \in 1..c /\ StartsAt(s, a)
    BY <1>2, <1>4
  <2> HIDE DEF a
  <2>2. ~(a < m + 1)
    <3>1. a < m + 1 => a \in 1..m
      BY <1>1, <2>1
    <3> QED BY <2>1, <3>1 DEF StartsAt
  <2>3. ~(m + 1 < a)
    <3>1. m + 1 < a => m + 1 \in 1..(a - 1)
      BY <1>1, <2>1
    <3> QED BY <1>3, <2>1, <3>1 DEF StartsAt
  <2> QED BY <1>1, <2>1, <2>2, <2>3
<1>7. b = m + n
  <2>1. b \in 1..c /\ EndsAt(s, b)
    BY <1>2, <1>5
  <2> HIDE DEF b
  <2>2. ~(b < m + n)
    <3>1. b < m + n => m + n \in (b + 1)..c
      BY <1>1, <1>2, <2>1
    <3> QED BY <1>3, <2>1, <3>1 DEF EndsAt
  <2>3. ~(m + n < b)
    <3>1. m + n < b => b \in (m + n + 1)..c
      BY <1>1, <2>1
    <3> QED BY <2>1, <3>1 DEF EndsAt
  <2> QED BY <1>1, <2>1, <2>2, <2>3
<1>8. ~(\A i \in 1..c : s[i] = 0)
  BY <1>2, <1>3
<1>9. t \in Seq(Digits) /\ Len(t) = n /\ \A i \in 1..n : t[i] = s[m + i]
  <2>1. /\ m + 1 \in Int /\ m + n \in Int /\ m + 1 <= m + n /\ m + n - (m + 1) + 1 = n
        /\ \A i \in (m + 1)..(m + n) : i \in 1..c
    BY <1>1
  <2>2. \A i \in (m + 1)..(m + n) : s[i] \in Digits
    BY <1>1, <2>1
  <2>3. /\ t \in Seq(Digits)
        /\ Len(t) = IF m + 1 <= m + n THEN m + n - (m + 1) + 1 ELSE 0
        /\ \A i \in 1..(m + n - (m + 1) + 1) : t[i] = s[m + 1 + i - 1]
    BY <2>1, <2>2, SubSeqProperties
  <2> HIDE DEF t
  <2>4. \A i \in 1..n : m + 1 + i - 1 = m + i
    BY <1>1
  <2> QED BY <2>1, <2>3, <2>4
<1> HIDE DEF t
<1>10. t = d
  BY <1>9, SeqEqual
<1> QED BY <1>6, <1>7, <1>8, <1>10 DEF t

\* What a literal is read as whose digits are d with zeros around them.
LEMMA ReadsBack ==
  ASSUME NEW l, IsLiteral(l), NEW d \in Seq(Digits), NEW m \in Nat,
         Padded(l.whole \o l.fraction, d, m)
  PROVE  RealOf(l) = [negative |-> l.negative, digits |-> d, point |-> Len(l.whole) - m]
<1> DEFINE s == l.whole \o l.fraction
           a == CHOOSE i \in 1..Len(s) : StartsAt(s, i)
           b == CHOOSE i \in 1..Len(s) : EndsAt(s, i)
<1>1. s \in Seq(Digits) /\ Len(l.whole) \in Nat
  BY DEF IsLiteral
<1>2. a = m + 1 /\ b = m + Len(d) /\ SubSeq(s, m + 1, m + Len(d)) = d
      /\ ~(\A i \in 1..Len(s) : s[i] = 0)
  <2> HIDE DEF s
  <2>1. Padded(s, d, m)
    BY DEF s
  <2> QED BY <1>1, <2>1, DigitsFound
<1>3. RealOf(l) = [negative |-> l.negative, digits |-> SubSeq(s, a, b),
                   point |-> Len(l.whole) - (a - 1)]
  BY <1>2, Zenon DEF RealOf
<1> HIDE DEF s, a, b
<1>4. Len(l.whole) - (a - 1) = Len(l.whole) - m
  BY <1>1, <1>2
<1> QED BY <1>2, <1>3, <1>4

\* What a literal is read as has no zeros at its ends.
LEMMA RealOfIsReal ==
  ASSUME NEW l, IsLiteral(l)
  PROVE  IsReal(RealOf(l))
<1> DEFINE s == l.whole \o l.fraction
           a == CHOOSE i \in 1..Len(s) : StartsAt(s, i)
           b == CHOOSE i \in 1..Len(s) : EndsAt(s, i)
           t == SubSeq(s, a, b)
<1>1. s \in Seq(Digits) /\ Len(l.whole) \in Nat /\ l.negative \in BOOLEAN
  BY DEF IsLiteral
<1>2. CASE \A i \in 1..Len(s) : s[i] = 0
  <2>1. RealOf(l) = [negative |-> FALSE, digits |-> <<>>, point |-> 0]
    BY <1>2, Zenon DEF RealOf
  <2> QED BY <2>1 DEF IsReal
<1>3. CASE ~(\A i \in 1..Len(s) : s[i] = 0)
  <2>1. RealOf(l) = [negative |-> l.negative, digits |-> t, point |-> Len(l.whole) - (a - 1)]
    BY <1>3, Zenon DEF RealOf
  <2> HIDE DEF s
  <2>2. PICK k \in 1..Len(s) : s[k] # 0
    BY <1>3
  <2>3. /\ \E i \in 1..Len(s) : StartsAt(s, i)
        /\ \E i \in 1..Len(s) : EndsAt(s, i)
    BY <1>1, <2>2, EndsExist
  <2>4. a \in 1..Len(s) /\ StartsAt(s, a) /\ b \in 1..Len(s) /\ EndsAt(s, b)
    BY <2>3
  <2> HIDE DEF a, b
  <2>5. Len(s) \in Nat /\ a \in Nat /\ b \in Nat /\ a <= b
    <3>1. Len(s) \in Nat
      BY <1>1
    <3>2. a > b => a \in (b + 1)..Len(s)
      BY <2>4, <3>1
    <3>3. ~(a > b)
      BY <2>4, <3>2 DEF StartsAt, EndsAt
    <3> QED BY <2>4, <3>1, <3>3
  <2>6. t \in Seq(Digits) /\ Len(t) = b - a + 1 /\ t[1] = s[a] /\ t[Len(t)] = s[b]
    <3>1. \A i \in a..b : i \in 1..Len(s)
      BY <2>4, <2>5
    <3>2. \A i \in a..b : s[i] \in Digits
      BY <1>1, <3>1
    <3>3. /\ t \in Seq(Digits)
          /\ Len(t) = IF a <= b THEN b - a + 1 ELSE 0
          /\ \A i \in 1..(b - a + 1) : t[i] = s[a + i - 1]
      BY <2>5, <3>2, SubSeqProperties
    <3> HIDE DEF t
    <3>4. 1 \in 1..(b - a + 1) /\ a + 1 - 1 = a
          /\ b - a + 1 \in 1..(b - a + 1) /\ a + (b - a + 1) - 1 = b
      BY <2>5
    <3>5. t[1] = s[a + 1 - 1] /\ t[b - a + 1] = s[a + (b - a + 1) - 1]
      BY <3>3, <3>4
    <3> QED BY <2>5, <3>3, <3>4, <3>5
  <2> HIDE DEF t
  <2>7. t # <<>> /\ t[1] # 0 /\ t[Len(t)] # 0
    <3>1. s[a] # 0 /\ s[b] # 0
      BY <2>4 DEF StartsAt, EndsAt
    <3>2. Len(t) # 0
      BY <2>5, <2>6
    <3> QED BY <2>6, <3>1, <3>2
  <2>8. Len(l.whole) - (a - 1) \in Int
    BY <1>1, <2>5
  <2> QED BY <1>1, <2>1, <2>6, <2>7, <2>8 DEF IsReal
<1> QED BY <1>2, <1>3

-----------------------------------------------------------------------------
(* Writing digits *)

\* A run of zeros.
LEMMA ZerosAre ==
  ASSUME NEW k \in Nat
  PROVE  /\ Zeros(k) \in Seq(Digits) /\ Len(Zeros(k)) = k
         /\ \A i \in 1..k : Zeros(k)[i] = 0
BY DEF Zeros, Digits

\* Two runs of digits, one behind the other.
LEMMA Joined ==
  ASSUME NEW u \in Seq(Digits), NEW v \in Seq(Digits)
  PROVE  /\ u \o v \in Seq(Digits) /\ Len(u \o v) = Len(u) + Len(v)
         /\ \A i \in 1..Len(u) : (u \o v)[i] = u[i]
         /\ \A i \in 1..Len(v) : (u \o v)[Len(u) + i] = v[i]
<1> DEFINE t == u \o v
<1>1. /\ t \in Seq(Digits) /\ Len(t) = Len(u) + Len(v)
      /\ \A i \in 1..(Len(u) + Len(v)) : t[i] = IF i <= Len(u) THEN u[i] ELSE v[i - Len(u)]
  BY ConcatProperties
<1>2. Len(u) \in Nat /\ Len(v) \in Nat
  OBVIOUS
<1> HIDE DEF t
<1>3. ASSUME NEW i \in 1..Len(u) PROVE t[i] = u[i]
  <2>1. i \in 1..(Len(u) + Len(v)) /\ i <= Len(u)
    BY <1>2
  <2> QED BY <1>1, <2>1
<1>4. ASSUME NEW i \in 1..Len(v) PROVE t[Len(u) + i] = v[i]
  <2>1. Len(u) + i \in 1..(Len(u) + Len(v)) /\ ~(Len(u) + i <= Len(u)) /\ Len(u) + i - Len(u) = i
    BY <1>2
  <2> QED BY <1>1, <2>1
<1> QED BY <1>1, <1>3, <1>4 DEF t

\* The layout of digits around the point is a literal with a fraction and
\* without a leading zero, and is read as the same digits and the same point.
LEMMA LayOutReads ==
  ASSUME NEW x, IsReal(x), ~IsZero(x), NEW negative \in BOOLEAN
  PROVE  LET l == Literal(negative, LayOut(x)) IN
         /\ IsLiteral(l) /\ l.fraction # <<>> /\ ~(Len(l.whole) > 1 /\ l.whole[1] = 0)
         /\ RealOf(l) = [negative |-> negative, digits |-> x.digits, point |-> x.point]
<1> DEFINE d == x.digits
           n == Len(x.digits)
           p == x.point
           l == Literal(negative, LayOut(x))
<1>1. /\ d \in Seq(Digits) /\ n \in Nat /\ n > 0 /\ p \in Int
      /\ d[1] # 0 /\ d[n] # 0 /\ d # <<>> /\ n = Len(d)
  BY DEF IsReal, IsZero
<1>2. CASE p <= 0
  <2> DEFINE z == Zeros(-p)
             f == z \o d
             s == <<0>> \o f
  <2>1. l = [negative |-> negative, whole |-> <<0>>, fraction |-> f]
    <3>1. p <= 0 /\ ~(p >= n) /\ p \notin 1..(n - 1)
      BY <1>1, <1>2
    <3>2. LayOut(x) = [whole |-> <<0>>, fraction |-> f]
      BY <3>1 DEF LayOut
    <3> QED BY <3>2 DEF Literal
  <2>2. -p \in Nat
    BY <1>1, <1>2
  <2>3. z \in Seq(Digits) /\ Len(z) = -p /\ \A i \in 1..(-p) : z[i] = 0
    BY <2>2, ZerosAre
  <2> HIDE DEF z, d, n, p
  <2>4. /\ f \in Seq(Digits) /\ Len(f) = n - p
        /\ \A i \in 1..(-p) : f[i] = 0
        /\ \A i \in 1..n : f[i - p] = d[i]
    <3>1. /\ f \in Seq(Digits) /\ Len(f) = Len(z) + Len(d)
          /\ \A i \in 1..Len(z) : f[i] = z[i]
          /\ \A i \in 1..Len(d) : f[Len(z) + i] = d[i]
      BY <1>1, <2>3, Joined
    <3> HIDE DEF f
    <3>2. -p + n = n - p /\ \A i \in 1..n : i - p = -p + i
      BY <1>1, <2>2
    <3> QED BY <1>1, <2>3, <3>1, <3>2
  <2> HIDE DEF f
  <2>5. <<0>> \in Seq(Digits) /\ Len(<<0>>) = 1
    BY DEF Digits
  <2>6. Padded(s, d, 1 - p)
    <3>1. s \in Seq(Digits) /\ Len(s) = n + 1 - p /\ s[1] = 0
          /\ \A i \in 1..(n - p) : s[i + 1] = f[i]
      <4>1. /\ s \in Seq(Digits) /\ Len(s) = Len(<<0>>) + Len(f)
            /\ \A i \in 1..Len(<<0>>) : s[i] = <<0>>[i]
            /\ \A i \in 1..Len(f) : s[Len(<<0>>) + i] = f[i]
        BY <2>4, <2>5, Joined
      <4> HIDE DEF s
      <4>2. 1 + (n - p) = n + 1 - p /\ \A i \in 1..(n - p) : i + 1 = 1 + i
        BY <1>1
      <4> QED BY <2>4, <2>5, <4>1, <4>2
    <3> HIDE DEF s
    <3>2. ASSUME NEW i \in 1..n PROVE s[(1 - p) + i] = d[i]
      <4>1. i - p \in 1..(n - p) /\ (1 - p) + i = (i - p) + 1
        BY <1>1, <2>2
      <4> QED BY <2>4, <3>1, <4>1
    <3>3. ASSUME NEW i \in 1..(1 - p) PROVE s[i] = 0
      <4>1. i = 1 \/ (i - 1 \in 1..(-p) /\ i - 1 \in 1..(n - p) /\ i = (i - 1) + 1)
        BY <1>1, <2>2
      <4> QED BY <2>4, <3>1, <4>1
    <3>4. (1 - p) + n <= Len(s) /\ (((1 - p) + n + 1)..Len(s)) = {}
      BY <1>1, <2>2, <3>1
    <3> QED BY <1>1, <3>2, <3>3, <3>4 DEF Padded
  <2>7. IsLiteral(l) /\ l.fraction # <<>> /\ ~(Len(l.whole) > 1 /\ l.whole[1] = 0)
    <3>1. f # <<>>
      BY <1>1, <2>2, <2>4
    <3>2. <<0>> # <<>>
      OBVIOUS
    <3> HIDE DEF l
    <3> QED BY <2>1, <2>4, <2>5, <3>1, <3>2 DEF IsLiteral
  <2>8. RealOf(l) = [negative |-> l.negative, digits |-> d, point |-> Len(l.whole) - (1 - p)]
    <3> HIDE DEF l
    <3>1. Padded(l.whole \o l.fraction, d, 1 - p)
      BY <2>1, <2>6
    <3>2. 1 - p \in Nat
      BY <1>1, <2>2
    <3> QED BY <1>1, <2>7, <3>1, <3>2, ReadsBack
  <2>9. Len(l.whole) - (1 - p) = p
    BY <1>1, <2>1, <2>5
  <2> QED BY <2>1, <2>7, <2>8, <2>9 DEF d, p
<1>3. CASE p > 0 /\ p >= n
  <2> DEFINE z == Zeros(p - n)
             w == d \o z
             s == w \o <<0>>
  <2>1. l = [negative |-> negative, whole |-> w, fraction |-> <<0>>]
    <3>1. ~(p <= 0) /\ p >= n /\ p \notin 1..(n - 1)
      BY <1>1, <1>3
    <3>2. LayOut(x) = [whole |-> w, fraction |-> <<0>>]
      BY <3>1 DEF LayOut
    <3> QED BY <3>2 DEF Literal
  <2>2. p - n \in Nat
    BY <1>1, <1>3
  <2>3. z \in Seq(Digits) /\ Len(z) = p - n /\ \A i \in 1..(p - n) : z[i] = 0
    BY <2>2, ZerosAre
  <2> HIDE DEF z, d, n, p
  <2>4. /\ w \in Seq(Digits) /\ Len(w) = p
        /\ \A i \in 1..n : w[i] = d[i]
        /\ \A i \in 1..(p - n) : w[n + i] = 0
    <3>1. /\ w \in Seq(Digits) /\ Len(w) = Len(d) + Len(z)
          /\ \A i \in 1..Len(d) : w[i] = d[i]
          /\ \A i \in 1..Len(z) : w[Len(d) + i] = z[i]
      BY <1>1, <2>3, Joined
    <3> HIDE DEF w
    <3>2. n + (p - n) = p
      BY <1>1, <2>2
    <3> QED BY <1>1, <2>3, <3>1, <3>2
  <2> HIDE DEF w
  <2>5. <<0>> \in Seq(Digits) /\ Len(<<0>>) = 1
    BY DEF Digits
  <2>6. Padded(s, d, 0)
    <3>1. s \in Seq(Digits) /\ Len(s) = p + 1 /\ s[p + 1] = 0
          /\ \A i \in 1..p : s[i] = w[i]
      BY <1>1, <1>3, <2>4, <2>5
    <3> HIDE DEF s
    <3>2. ASSUME NEW i \in 1..n PROVE s[0 + i] = d[i]
      <4>1. i \in 1..p /\ 0 + i = i
        BY <1>1, <1>3
      <4> QED BY <2>4, <3>1, <4>1
    <3>3. ASSUME NEW i \in (0 + n + 1)..(p + 1) PROVE s[i] = 0
      <4>1. i = p + 1 \/ (i - n \in 1..(p - n) /\ i \in 1..p /\ i = n + (i - n))
        BY <1>1, <2>2
      <4> QED BY <2>4, <3>1, <4>1
    <3>4. 0 + n <= Len(s) /\ 1..0 = {}
      BY <1>1, <1>3, <3>1
    <3> QED BY <1>1, <3>1, <3>2, <3>3, <3>4 DEF Padded
  <2>7. IsLiteral(l) /\ l.fraction # <<>> /\ ~(Len(l.whole) > 1 /\ l.whole[1] = 0)
    <3>1. w # <<>> /\ w[1] # 0
      <4>1. 1 \in 1..n /\ Len(w) # 0
        BY <1>1, <1>3, <2>4
      <4> QED BY <1>1, <2>4, <4>1
    <3>2. <<0>> # <<>>
      OBVIOUS
    <3> HIDE DEF l
    <3> QED BY <2>1, <2>4, <2>5, <3>1, <3>2 DEF IsLiteral
  <2>8. RealOf(l) = [negative |-> l.negative, digits |-> d, point |-> Len(l.whole) - 0]
    <3> HIDE DEF l
    <3>1. Padded(l.whole \o l.fraction, d, 0) /\ 0 \in Nat
      BY <2>1, <2>6
    <3> QED BY <1>1, <2>7, <3>1, ReadsBack
  <2>9. Len(l.whole) - 0 = p
    BY <1>1, <2>1, <2>4
  <2> QED BY <2>1, <2>7, <2>8, <2>9 DEF d, p
<1>4. CASE p > 0 /\ p < n
  <2> DEFINE w == SubSeq(d, 1, p)
             f == SubSeq(d, p + 1, n)
             s == w \o f
  <2>1. l = [negative |-> negative, whole |-> w, fraction |-> f]
    <3>1. p \in 1..(n - 1) /\ ~(p <= 0) /\ ~(p >= n)
      BY <1>1, <1>4
    <3> QED BY <3>1 DEF LayOut, Literal
  <2> HIDE DEF d, n, p
  <2>2. w \in Seq(Digits) /\ Len(w) = p /\ \A i \in 1..p : w[i] = d[i]
    <3>1. \A i \in 1..p : d[i] \in Digits
      <4>1. \A i \in 1..p : i \in 1..n
        BY <1>1, <1>4
      <4> QED BY <1>1, <4>1
    <3>2. /\ w \in Seq(Digits)
          /\ Len(w) = IF 1 <= p THEN p - 1 + 1 ELSE 0
          /\ \A i \in 1..(p - 1 + 1) : w[i] = d[1 + i - 1]
      BY <1>1, <3>1, SubSeqProperties
    <3> HIDE DEF w
    <3>3. p - 1 + 1 = p /\ 1 <= p /\ \A i \in 1..p : 1 + i - 1 = i
      BY <1>1, <1>4
    <3> QED BY <3>2, <3>3
  <2>3. f \in Seq(Digits) /\ Len(f) = n - p /\ \A i \in 1..(n - p) : f[i] = d[p + i]
    <3>1. \A i \in (p + 1)..n : d[i] \in Digits
      <4>1. \A i \in (p + 1)..n : i \in 1..n
        BY <1>1, <1>4
      <4> QED BY <1>1, <4>1
    <3>2. /\ f \in Seq(Digits)
          /\ Len(f) = IF p + 1 <= n THEN n - (p + 1) + 1 ELSE 0
          /\ \A i \in 1..(n - (p + 1) + 1) : f[i] = d[p + 1 + i - 1]
      BY <1>1, <3>1, SubSeqProperties
    <3> HIDE DEF f
    <3>3. n - (p + 1) + 1 = n - p /\ p + 1 <= n /\ \A i \in 1..(n - p) : p + 1 + i - 1 = p + i
      BY <1>1, <1>4
    <3> QED BY <3>2, <3>3
  <2> HIDE DEF w, f
  <2>4. Padded(s, d, 0)
    <3>1. s \in Seq(Digits) /\ Len(s) = n
          /\ (\A i \in 1..p : s[i] = w[i]) /\ (\A i \in 1..(n - p) : s[p + i] = f[i])
      <4>1. /\ s \in Seq(Digits) /\ Len(s) = Len(w) + Len(f)
            /\ \A i \in 1..Len(w) : s[i] = w[i]
            /\ \A i \in 1..Len(f) : s[Len(w) + i] = f[i]
        BY <2>2, <2>3, Joined
      <4> HIDE DEF s
      <4>2. p + (n - p) = n
        BY <1>1
      <4> QED BY <2>2, <2>3, <4>1, <4>2
    <3> HIDE DEF s
    <3>2. ASSUME NEW i \in 1..n PROVE s[0 + i] = d[i]
      <4>1. 0 + i = i /\ (i \in 1..p \/ (i - p \in 1..(n - p) /\ i = p + (i - p)))
        BY <1>1, <1>4
      <4> QED BY <2>2, <2>3, <3>1, <4>1
    <3>3. 0 + n <= Len(s) /\ 1..0 = {} /\ (0 + n + 1)..Len(s) = {}
      BY <1>1, <3>1
    <3> QED BY <1>1, <3>2, <3>3 DEF Padded
  <2>5. IsLiteral(l) /\ l.fraction # <<>> /\ ~(Len(l.whole) > 1 /\ l.whole[1] = 0)
    <3>1. w # <<>> /\ w[1] # 0
      <4>1. 1 \in 1..p /\ Len(w) # 0
        BY <1>1, <1>4, <2>2
      <4> QED BY <1>1, <2>2, <4>1
    <3>2. f # <<>>
      BY <1>1, <1>4, <2>3
    <3> HIDE DEF l
    <3> QED BY <2>1, <2>2, <2>3, <3>1, <3>2 DEF IsLiteral
  <2>6. RealOf(l) = [negative |-> l.negative, digits |-> d, point |-> Len(l.whole) - 0]
    <3> HIDE DEF l
    <3>1. Padded(l.whole \o l.fraction, d, 0) /\ 0 \in Nat
      BY <2>1, <2>4
    <3> QED BY <1>1, <2>5, <3>1, ReadsBack
  <2>7. Len(l.whole) - 0 = p
    BY <1>1, <2>1, <2>2
  <2> QED BY <2>1, <2>5, <2>6, <2>7 DEF d, p
<1> QED BY <1>1, <1>2, <1>3, <1>4

-----------------------------------------------------------------------------
(* Theorems *)

\* What a token is decoded to is an integer or a real without zeros at its ends.
LEMMA DecodedIsReal ==
  ASSUME NEW tok \in Numbers, NumberOf(tok) # None, NumberOf(tok).kind = "real"
  PROVE  /\ IsReal(NumberOf(tok).v)
         /\ NumberOf(tok) = [kind |-> "real", v |-> NumberOf(tok).v]
<1>1. CASE tok.t = "number" /\ IsLiteral(tok.v)
  <2> DEFINE l == tok.v
             leading == Len(l.whole) > 1 /\ l.whole[1] = 0
  <2>1. NumberOf(tok) = ParseNumber(l)
    BY <1>1 DEF NumberOf
  <2>2. ~leading /\ LiteralLength(l) <= MaxLiteral /\ l.fraction # <<>>
        /\ ParseNumber(l) = [kind |-> "real", v |-> RealOf(l)]
    <3>0. LiteralLength(l) \in Int /\ MaxLiteral \in Int
      BY <1>1, NumbersAssumption DEF IsLiteral, LiteralLength
    <3> HIDE DEF leading
    <3>1. \/ leading
          \/ ~leading /\ LiteralLength(l) > MaxLiteral
          \/ ~leading /\ LiteralLength(l) <= MaxLiteral
      BY <3>0
    <3>2. LiteralLength(l) > MaxLiteral => ~(LiteralLength(l) <= MaxLiteral)
      BY <3>0
    <3>3. ~leading /\ LiteralLength(l) <= MaxLiteral
      BY <2>1, <3>1, <3>2 DEF ParseNumber, leading
    <3>4. ParseNumber(l) = IF l.fraction = <<>>
             THEN [kind |-> "int", v |-> [l EXCEPT !.negative = @ /\ l.whole # <<0>>]]
             ELSE [kind |-> "real", v |-> RealOf(l)]
      BY <3>2, <3>3 DEF ParseNumber, leading
    <3> QED BY <2>1, <3>3, <3>4
  <2> QED BY <1>1, <2>1, <2>2, RealOfIsReal
<1>2. CASE tok.t = "scientific" /\ IsReal(tok.v)
  <2>1. NumberOf(tok) = [kind |-> "real", v |-> tok.v]
    BY <1>2 DEF NumberOf
  <2> QED BY <1>2, <2>1
<1> QED BY <1>1, <1>2, NumbersAssumption

\* A real that is not negative is written as a literal that is read as the same
\* real, when it is written at all and the decoder takes the literal.
LEMMA WrittenIsRead ==
  ASSUME NEW x, IsReal(x), ~x.negative, FormatReal(x) # None,
         LiteralLength(FormatReal(x)) <= MaxLiteral
  PROVE  ParseNumber(FormatReal(x)) = [kind |-> "real", v |-> x]
<1> DEFINE l == FormatReal(x)
<1>1. /\ IsLiteral(l) /\ l.fraction # <<>> /\ ~(Len(l.whole) > 1 /\ l.whole[1] = 0)
      /\ RealOf(l) = x
  <2>1. CASE IsZero(x)
    <3>1. l = [negative |-> FALSE, whole |-> <<0>>, fraction |-> <<0>>]
      BY <2>1 DEF FormatReal, Literal
    <3> HIDE DEF l
    <3>2. IsLiteral(l) /\ l.fraction # <<>> /\ Len(l.whole) = 1
      BY <3>1 DEF IsLiteral, Digits
    <3>3. x = [negative |-> FALSE, digits |-> <<>>, point |-> 0]
      BY <2>1 DEF IsReal, IsZero
    <3>4. RealOf(l) = [negative |-> FALSE, digits |-> <<>>, point |-> 0]
      <4> DEFINE s == l.whole \o l.fraction
      <4>1. \A i \in 1..Len(s) : s[i] = 0
        BY <3>1
      <4> QED BY <4>1, Zenon DEF RealOf
    <3> QED BY <3>2, <3>3, <3>4
  <2>2. CASE ~IsZero(x)
    <3>1. l = Literal(FALSE, LayOut(x))
      <4>1. x.negative = FALSE
        BY DEF IsReal
      <4>2. CASE ~IsScientific(x)
        BY <2>2, <4>2 DEF FormatReal
      <4>3. CASE IsScientific(x)
        BY <2>2, <4>1, <4>3 DEF FormatReal
      <4> QED BY <4>2, <4>3
    <3>2. x = [negative |-> FALSE, digits |-> x.digits, point |-> x.point]
      BY DEF IsReal
    <3> HIDE DEF l
    <3> QED BY <2>2, <3>1, <3>2, LayOutReads
  <2> QED BY <2>1, <2>2
<1> HIDE DEF l
<1>2. LiteralLength(l) <= MaxLiteral
  BY DEF l
<1>3. ~(LiteralLength(l) > MaxLiteral)
  <2>1. LiteralLength(l) \in Int /\ MaxLiteral \in Int
    BY <1>1, NumbersAssumption DEF IsLiteral, LiteralLength
  <2> QED BY <1>2, <2>1
<1>4. ParseNumber(l) = [kind |-> "real", v |-> RealOf(l)]
  BY <1>1, <1>2, <1>3 DEF ParseNumber
<1> QED BY <1>1, <1>4 DEF l

\* What is known of a number on its way.
Stages ==
  /\ given \in Numbers
  /\ step # "given" => value = NumberOf(given)
  /\ step \in {"written", "done"} => value # None /\ output = NumberText(value)
  /\ step = "done" => again = IF output = None THEN None ELSE ParseNumber(output)

\* The stages follow from one another.
LEMMA StagesHold == Spec => []Stages
<1>1. Init => Stages
  BY DEF Init, Stages
<1>2. Stages /\ [Next]_vars => Stages'
  <2> SUFFICES ASSUME Stages, [Next]_vars PROVE Stages'
    OBVIOUS
  <2>1. CASE Decode
    BY <2>1 DEF Decode, Stages
  <2>2. CASE Dump
    BY <2>2 DEF Dump, Stages
  <2>3. CASE DecodeAgain
    BY <2>3 DEF DecodeAgain, Stages
  <2>4. CASE UNCHANGED vars
    BY <2>4 DEF vars, Stages
  <2> QED BY <2>1, <2>2, <2>3, <2>4 DEF Next
<1> QED BY <1>1, <1>2, PTL DEF Spec

\* RealsRoundTrip, with any number of digits, any exponent and any bounds of
\* the writer and of the decoder: what format_canonical_real writes for a real
\* that is not negative, parse_number reads as the same real.
THEOREM RealsSurvive == Spec => []RealsRoundTrip
<1>1. Stages => RealsRoundTrip
  <2> SUFFICES ASSUME Stages, step = "done", value.kind = "real", ~value.v.negative,
                      FormatReal(value.v) # None,
                      LiteralLength(FormatReal(value.v)) <= MaxLiteral
               PROVE  again = value
    BY DEF RealsRoundTrip
  <2>1. given \in Numbers /\ value = NumberOf(given) /\ value # None
    BY DEF Stages
  <2>2. IsReal(value.v) /\ value = [kind |-> "real", v |-> value.v]
    BY <2>1, DecodedIsReal
  <2>3. output = FormatReal(value.v)
    BY DEF Stages, NumberText
  <2>4. again = ParseNumber(output)
    BY <2>3 DEF Stages
  <2> QED BY <2>2, <2>3, <2>4, WrittenIsRead
<1> QED BY <1>1, StagesHold, PTL
=============================================================================
