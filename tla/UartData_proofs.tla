--------------------------- MODULE UartData_proofs ---------------------------
(***************************************************************************)
(* Proofs about the UART line reader and what it writes, for any length of *)
(* a line, of a chunk and of the remainder that is kept.                   *)
(***************************************************************************)
EXTENDS UartData, FiniteSetTheorems, TLAPS

-----------------------------------------------------------------------------
(* Induction over the natural numbers, said of sets of them.               *)

\* A set of numbers that is not empty has a least one: of the intervals 0..n
\* of its elements, the one that contains no other.
LEMMA LeastElement ==
  ASSUME NEW X \in SUBSET Nat, X # {}
  PROVE  \E n \in X : \A m \in X : n <= m
<1> DEFINE I == {0..n : n \in X}
<1>1. I \subseteq FiniteSubsetsOf(Nat) /\ I # {}
  <2>1. \A n \in X : IsFiniteSet(0..n) /\ 0..n \in SUBSET Nat
    BY FS_Interval
  <2>2. QED
    BY <2>1 DEF FiniteSubsetsOf
<1>2. PICK J \in I : \A K \in I : ~ (<<K, J>> \in StrictSubsetOrdering(Nat))
  <2> HIDE DEF I
  <2>1. QED
    BY <1>1, FS_StrictSubsetOrderingWellFounded, WFMin
<1>3. PICK n \in X : J = 0..n
  OBVIOUS
<1>4. ASSUME NEW m \in X PROVE n <= m
  <2>1. SUFFICES ASSUME m < n PROVE FALSE
    OBVIOUS
  <2>2. 0..m \in I /\ 0..m \in SUBSET Nat /\ 0..n \in SUBSET Nat
    OBVIOUS
  <2>3. n \in 0..n /\ n \notin 0..m /\ 0..m \subseteq 0..n
    BY <2>1
  <2>4. <<0..m, 0..n>> \in StrictSubsetOrdering(Nat)
    BY <2>2, <2>3 DEF StrictSubsetOrdering
  <2>5. QED
    BY <1>2, <1>3, <2>2, <2>4
<1>5. QED
  BY <1>4

\* A set with 0, and with the successors of its elements, has every number.
LEMMA NatInduct ==
  ASSUME NEW X, 0 \in X, \A n \in Nat : n \in X => n + 1 \in X
  PROVE  \A n \in Nat : n \in X
<1> DEFINE Y == Nat \ X
<1>1. SUFFICES ASSUME Y # {} PROVE FALSE
  OBVIOUS
<1>2. PICK n \in Y : \A m \in Y : n <= m
  <2> HIDE DEF Y
  <2>1. Y \in SUBSET Nat
    BY DEF Y
  <2>2. QED
    BY <1>1, <2>1, LeastElement
<1>3. n # 0 /\ n - 1 \in Nat /\ n - 1 \notin Y
  BY <1>2
<1>4. QED
  BY <1>3

-----------------------------------------------------------------------------
(* The characters of the gauge.                                            *)

\* The character behind c.
Behind(c) == IF IsCR(c) THEN <<c[1] + 1, 1>> ELSE <<c[1], c[2] + 1>>

LEMMA DivMod ==
  ASSUME NEW a \in Int, NEW m \in Nat \ {0}
  PROVE  /\ a \div m \in Int /\ a % m \in 0..m - 1
         /\ a = m * (a \div m) + (a % m)
OBVIOUS

LEMMA DivModUnique ==
  ASSUME NEW m \in Nat \ {0}, NEW p \in Int, NEW q \in Int,
         NEW r \in 0..m - 1, NEW s \in 0..m - 1, m * p + r = m * q + s
  PROVE  p = q /\ r = s
<1>1. ASSUME NEW x \in Int, NEW y \in Int, x < y
      PROVE  m * x + m <= m * y
  <2>1. \E d \in Nat : y = x + 1 + d
    BY <1>1
  <2>2. PICK d \in Nat : y = x + 1 + d
    BY <2>1
  <2>3. m * y = m * x + m + m * d
    BY <2>2
  <2>4. m * d \in Nat
    OBVIOUS
  <2>5. QED
    BY <2>3, <2>4
<1>2. ~(p < q)
  BY <1>1
<1>3. ~(q < p)
  BY <1>1
<1>4. p = q
  BY <1>2, <1>3
<1>5. QED
  BY <1>4

\* The gauge sends one character behind the other.
LEMMA StreamBehind ==
  ASSUME NEW k \in Nat
  PROVE  Stream(k + 1) = Behind(Stream(k))
<1> DEFINE M == LineLen + 1
           q == (k - 1) \div M
           r == (k - 1) % M
<1>1. M \in Nat \ {0} /\ LineLen \in Nat
  BY SizesAssumption
<1> HIDE DEF M
<1>2. q \in Int /\ r \in 0..M - 1 /\ k - 1 = M * q + r
  <2>1. k - 1 \in Int
    OBVIOUS
  <2>2. QED
    BY <1>1, <2>1, DivMod
<1>3. k \div M \in Int /\ k % M \in 0..M - 1 /\ k = M * (k \div M) + (k % M)
  BY <1>1, DivMod
<1> DEFINE Q == k \div M
           R == k % M
<1>4. Stream(k) = <<q + 1, r + 1>> /\ Stream(k + 1) = <<Q + 1, R + 1>>
  <2>1. (k + 1) - 1 = k
    OBVIOUS
  <2>2. QED
    BY <2>1 DEF Stream, M
<1> HIDE DEF q, r, Q, R
<1>5. CASE r = M - 1
  <2>1. k = M * (q + 1) + 0
    BY <1>1, <1>2, <1>5
  <2>2. Q = q + 1 /\ R = 0
    BY <1>1, <1>2, <1>3, <2>1, DivModUnique DEF Q, R
  <2>3. QED
    BY <1>1, <1>5, <1>4, <2>2 DEF M, Behind, IsCR
<1>6. CASE r # M - 1
  <2>1. k = M * q + (r + 1) /\ r + 1 \in 0..M - 1
    BY <1>1, <1>2, <1>6
  <2>2. Q = q /\ R = r + 1
    <3>1. M * Q + R = M * q + (r + 1) /\ Q \in Int /\ R \in 0..M - 1
      BY <1>3, <2>1 DEF Q, R
    <3>2. QED
      BY <1>1, <1>2, <2>1, <3>1, DivModUnique
  <2>3. QED
    BY <1>1, <1>2, <1>6, <1>4, <2>2 DEF M, Behind, IsCR
<1>7. QED
  BY <1>5, <1>6

\* Before the first character it is at the end of a line 0; the lines and the
\* places are those of Char, and the lines follow one another.
LEMMA StreamStart == Stream(0) = <<0, LineLen + 1>>
<1> DEFINE M == LineLen + 1
<1>1. M \in Nat \ {0} /\ M - 1 = LineLen
  BY SizesAssumption
<1> HIDE DEF M
<1>2. 0 - 1 \in Int
  OBVIOUS
<1>3. /\ (0 - 1) \div M \in Int /\ (0 - 1) % M \in 0..M - 1
      /\ 0 - 1 = M * ((0 - 1) \div M) + ((0 - 1) % M)
  BY <1>1, <1>2, DivMod
<1> DEFINE q == (0 - 1) \div M
           r == (0 - 1) % M
<1>4. Stream(0) = <<q + 1, r + 1>>
  BY DEF Stream, M
<1> HIDE DEF q, r
<1>5. M * q + r = M * (0 - 1) + (M - 1)
  BY <1>1, <1>3 DEF q, r
<1>6. q = 0 - 1 /\ r = M - 1
  BY <1>1, <1>3, <1>5, DivModUnique DEF q, r
<1>7. QED
  BY <1>1, <1>4, <1>6 DEF M

LEMMA StreamLines ==
  ASSUME NEW k \in Nat \ {0}, k <= StreamLen
  PROVE  Stream(k) \in Char
<1> DEFINE M == LineLen + 1
           q == (k - 1) \div M
           r == (k - 1) % M
<1>1. M \in Nat \ {0} /\ M - 1 = LineLen /\ StreamLen = MaxLines * M /\ MaxLines \in Nat
  BY SizesAssumption DEF StreamLen
<1> HIDE DEF M
<1>2. q \in Int /\ r \in 0..M - 1 /\ k - 1 = M * q + r
  <2>1. k - 1 \in Int
    OBVIOUS
  <2>2. QED
    BY <1>1, <2>1, DivMod
<1>3. Stream(k) = <<q + 1, r + 1>>
  BY DEF Stream, M
<1> HIDE DEF q, r
<1>4. q >= 0
  <2>1. SUFFICES ASSUME q < 0 PROVE FALSE
    BY <1>2
  <2>2. PICK d \in Nat : q = 0 - 1 - d
    <3>1. 0 - 1 - q \in Nat
      BY <1>2, <2>1
    <3>2. QED
      BY <1>2, <3>1
  <2>3. M * q = 0 - M - M * d /\ M * d \in Nat
    BY <1>1, <2>2
  <2>4. QED
    BY <1>1, <1>2, <2>3
<1>5. q < MaxLines
  <2>1. SUFFICES ASSUME q >= MaxLines PROVE FALSE
    BY <1>1, <1>2
  <2>2. PICK d \in Nat : q = MaxLines + d
    <3>1. q - MaxLines \in Nat
      BY <1>1, <1>2, <2>1
    <3>2. QED
      BY <1>1, <1>2, <3>1
  <2>3. M * q = MaxLines * M + M * d /\ M * d \in Nat
    BY <1>1, <2>2
  <2>4. QED
    BY <1>1, <1>2, <2>3
<1>6. QED
  BY <1>1, <1>2, <1>3, <1>4, <1>5 DEF Char, M

-----------------------------------------------------------------------------
(* The items of a text.                                                    *)

\* The function Items is defined by exists: a function for the first n
\* characters is one for the first n + 1 with another value.
LEMMA ItemsExist ==
  ASSUME NEW text, Len(text) \in Nat
  PROVE  \E f : f = [k \in 0..Len(text) |->
                        IF k = 0 THEN << >> ELSE Getline(f[k - 1], text, k)]
<1> DEFINE Is(f, n) == f = [k \in 0..n |-> IF k = 0 THEN << >> ELSE Getline(f[k - 1], text, k)]
           X == {n \in Nat : \E f : Is(f, n)}
<1>1. 0 \in X
  <2>1. Is([k \in 0..0 |-> << >>], 0)
    OBVIOUS
  <2>2. QED
    BY <2>1
<1>2. ASSUME NEW n \in Nat, n \in X PROVE n + 1 \in X
  <2>1. PICK f : Is(f, n)
    BY <1>2
  <2>2. \A k \in 0..n : f[k] = IF k = 0 THEN << >> ELSE Getline(f[k - 1], text, k)
    BY <2>1
  <2> DEFINE g == [k \in 0..n + 1 |-> IF k = n + 1 THEN Getline(f[n], text, k) ELSE f[k]]
  <2>3. \A k \in 0..n : g[k] = f[k]
    OBVIOUS
  <2>4. ASSUME NEW k \in 0..n + 1
        PROVE  g[k] = IF k = 0 THEN << >> ELSE Getline(g[k - 1], text, k)
    <3>1. CASE k = n + 1
      <4>1. g[k] = Getline(f[n], text, k) /\ k - 1 = n /\ k # 0 /\ n \in 0..n
        BY <3>1
      <4>2. QED
        BY <2>3, <4>1
    <3>2. CASE k # n + 1
      <4>1. k \in 0..n /\ (k # 0 => k - 1 \in 0..n)
        BY <3>2
      <4>2. QED
        BY <2>2, <2>3, <4>1
    <3>3. QED
      BY <3>1, <3>2
  <2>5. g = [k \in 0..n + 1 |-> g[k]]
    OBVIOUS
  <2>6. Is(g, n + 1)
    <3> HIDE DEF g
    <3>1. QED
      BY <2>4, <2>5
  <2>7. \E h : Is(h, n + 1)
    <3> HIDE DEF g, Is
    <3>1. QED
      BY <2>6
  <2>8. QED
    <3> HIDE DEF Is
    <3>1. QED
      BY <2>7
<1>3. Len(text) \in X
  <2> HIDE DEF X
  <2>1. QED
    BY <1>1, <1>2, NatInduct
<1>4. QED
  BY <1>3

\* So Items is the last value of such a function, one character after the other.
LEMMA ItemsStep ==
  ASSUME NEW text, Len(text) \in Nat
  PROVE  \E f : /\ Items(text) = f[Len(text)] /\ f[0] = << >>
                /\ \A k \in 1..Len(text) : f[k] = Getline(f[k - 1], text, k)
<1> DEFINE g == CHOOSE f : f = [k \in 0..Len(text) |->
                              IF k = 0 THEN << >> ELSE Getline(f[k - 1], text, k)]
<1>1. g = [k \in 0..Len(text) |-> IF k = 0 THEN << >> ELSE Getline(g[k - 1], text, k)]
  BY ItemsExist
<1>2. Items(text) = g[Len(text)]
  BY DEF Items
<1> HIDE DEF g
<1>3. /\ g[0] = << >>
      /\ \A k \in 1..Len(text) : g[k] = Getline(g[k - 1], text, k)
  <2>1. \A k \in 0..Len(text) : g[k] = IF k = 0 THEN << >> ELSE Getline(g[k - 1], text, k)
    BY <1>1
  <2>2. 0 \in 0..Len(text) /\ \A k \in 1..Len(text) : k \in 0..Len(text) /\ k # 0
    OBVIOUS
  <2>3. QED
    BY <2>1, <2>2
<1>4. QED
  BY <1>2, <1>3

-----------------------------------------------------------------------------
(* The invariant, said of the pieces ps that have been cut off, the rest   *)
(* behind them, and the last character c read: it holds after every        *)
(* character of a chunk, and so after the chunk.                           *)

\* The last character that is not a carriage return.
Solid(c) == IF IsCR(c) THEN <<c[1], LineLen>> ELSE c

\* Characters in the order in which the gauge sends them.
Run(s) == s \in Seq(NotCR) /\ \A k \in 1..Len(s) - 1 : s[k + 1] = Follower(s[k])

End(s) == s[Len(s)]

\* A piece ends with a line that has been read, and the next one is behind it.
PiecesAre(ps, rest, c) ==
    /\ ps \in Seq(Seq(NotCR))
    /\ \A i \in 1..Len(ps) :
        /\ Run(ps[i])
        /\ ps[i] # << >> =>
            /\ End(ps[i])[2] = LineLen /\ End(ps[i])[1] < c[1]
            /\ \A j \in i + 1..Len(ps) : ps[j] # << >> => End(ps[i])[1] < ps[j][1][1]
            /\ rest # << >> => End(ps[i])[1] < rest[1][1]

RestIs(rest, c) == Run(rest) /\ (rest # << >> => End(rest) = Solid(c))

\* Nothing is lost between the pieces.
Chained(ps, rest, c) ==
    ~discarded =>
        /\ \A i \in 1..Len(ps) : ps[i] # << >>
        /\ IF c[1] = 0 THEN ps = << >> /\ rest = << >> ELSE rest # << >>
        /\ rest # << >> => IF ps = << >> THEN rest[1] = <<1, 1>>
                           ELSE /\ ps[1][1] = <<1, 1>>
                                /\ rest[1] = Follower(End(ps[Len(ps)]))
        /\ \A i \in 1..Len(ps) - 1 : ps[i + 1][1] = Follower(End(ps[i]))

\* A line of which, and before which, no carriage return ended a chunk is cut
\* off when it has been read, and is what the rest begins with until then.
Found(ps, rest, c) ==
    /\ \A n \in 1..c[1] - 1 :
        n \notin lastAtCR /\ n - 1 \notin lastAtCR => \E i \in 1..Len(ps) : ps[i] = Line(n)
    /\ c[1] > 0 /\ c[1] - 1 \notin lastAtCR =>
        /\ Len(rest) = Solid(c)[2]
        /\ \A k \in 1..Len(rest) : rest[k] = <<c[1], k>>

Good(ps, rest, c) ==
    PiecesAre(ps, rest, c) /\ RestIs(rest, c) /\ Chained(ps, rest, c) /\ Found(ps, rest, c)

\* A carriage return that ended a chunk is still to be cut off.
Glued == LET c == Stream(sent) IN IsCR(c) /\ content # << >> => c[1] \in lastAtCR

UartInv == TypeOK /\ Good(pieces, content, Stream(sent)) /\ Glued

LEMMA AppendIs ==
  ASSUME NEW S, NEW s \in Seq(S), NEW e \in S
  PROVE  /\ Append(s, e) \in Seq(S) /\ Len(Append(s, e)) = Len(s) + 1 /\ Len(s) \in Nat
         /\ \A k \in 1..Len(s) : Append(s, e)[k] = s[k]
         /\ Append(s, e)[Len(s) + 1] = e /\ Append(s, e) # << >>
OBVIOUS

LEMMA OneIs ==
  ASSUME NEW S, NEW e \in S
  PROVE  <<e>> \in Seq(S) /\ Len(<<e>>) = 1 /\ <<e>>[1] = e /\ <<e>> # << >>
OBVIOUS

LEMMA LenIs ==
  ASSUME NEW S, NEW s \in Seq(S)
  PROVE  /\ Len(s) \in Nat /\ (s # << >> <=> Len(s) > 0)
         /\ \A k \in 1..Len(s) : s[k] \in S
OBVIOUS

\* A character and the one behind it.
LEMMA BehindIs ==
  ASSUME NEW c \in Char \cup {<<0, LineLen + 1>>}, NEW d \in Char, d = Behind(c)
  PROVE  /\ LineLen \in Nat \ {0} /\ MaxLines \in Nat
         /\ c = <<c[1], c[2]>> /\ d = <<d[1], d[2]>>
         /\ c[1] \in 0..MaxLines /\ c[2] \in 1..LineLen + 1
         /\ d[1] \in 1..MaxLines /\ d[2] \in 1..LineLen + 1
         /\ IsCR(c) => /\ d = <<c[1] + 1, 1>> /\ ~IsCR(d) /\ c[2] = LineLen + 1
                       /\ d = Follower(Solid(c)) /\ Solid(d) = d
                       /\ Solid(c) = <<c[1], LineLen>>
         /\ ~IsCR(c) => /\ d = <<c[1], c[2] + 1>> /\ c[2] \in 1..LineLen
                        /\ c[1] # 0 /\ Solid(c) = c /\ c \in NotCR
         /\ ~IsCR(c) /\ IsCR(d) => /\ c[2] = LineLen /\ Solid(d) = c
                                   /\ d[2] = LineLen + 1
         /\ ~IsCR(d) => d \in NotCR /\ d = Follower(Solid(c)) /\ Solid(d) = d
<1>1. LineLen \in Nat \ {0} /\ MaxLines \in Nat
  BY SizesAssumption
<1>2. PICK n \in 0..MaxLines, p \in 1..LineLen + 1 :
        c = <<n, p>> /\ (n = 0 => p = LineLen + 1)
  BY <1>1 DEF Char
<1>3. PICK m \in 1..MaxLines, q \in 1..LineLen + 1 : d = <<m, q>>
  BY <1>1 DEF Char
<1>4. QED
  BY <1>1, <1>2, <1>3 DEF Behind, IsCR, Follower, Solid, NotCR

\* A run with the next character is a run.
LEMMA RunAppend ==
  ASSUME NEW s, Run(s), NEW d \in NotCR, s # << >> => d = Follower(End(s))
  PROVE  Run(Append(s, d)) /\ End(Append(s, d)) = d
<1>1. /\ s \in Seq(NotCR) /\ Len(s) \in Nat /\ (s # << >> <=> Len(s) > 0)
      /\ \A k \in 1..Len(s) - 1 : s[k + 1] = Follower(s[k])
  BY LenIs DEF Run
<1> DEFINE t == Append(s, d)
<1>2. /\ t \in Seq(NotCR) /\ Len(t) = Len(s) + 1
      /\ \A k \in 1..Len(s) : t[k] = s[k]
      /\ t[Len(s) + 1] = d
  BY <1>1, AppendIs
<1> HIDE DEF t
<1>3. ASSUME NEW k \in 1..Len(t) - 1 PROVE t[k + 1] = Follower(t[k])
  <2>1. CASE k = Len(s)
    BY <1>1, <1>2, <2>1 DEF End
  <2>2. CASE k # Len(s)
    <3>1. k \in 1..Len(s) - 1 /\ k \in 1..Len(s) /\ k + 1 \in 1..Len(s)
      BY <1>1, <1>2, <2>2
    <3>2. QED
      BY <1>1, <1>2, <3>1
  <2>3. QED
    BY <2>1, <2>2
<1>4. Run(t) /\ End(t) = d
  BY <1>1, <1>2, <1>3 DEF Run, End
<1>5. QED
  BY <1>4 DEF t

\* The next character is put behind the rest, unless it is a carriage return.
LEMMA PutBehind ==
  ASSUME NEW ps, NEW rest, NEW c \in Char, NEW d \in Char, d = Behind(c),
         Good(ps, rest, c), rest # << >>, IsCR(c) => c[1] \in lastAtCR
  PROVE  Good(ps, IF IsCR(d) THEN rest ELSE Append(rest, d), d)
<1>1. CASE IsCR(d)
  <2>1. /\ ~IsCR(c) /\ d[1] = c[1] /\ Solid(d) = Solid(c)
    BY <1>1, BehindIs
  <2>2. QED
    BY <1>1, <2>1 DEF Good, PiecesAre, RestIs, Chained, Found
<1>2. CASE ~IsCR(d)
  <2> DEFINE new == Append(rest, d)
  <2>1. /\ d \in NotCR /\ d = Follower(Solid(c)) /\ Solid(d) = d
        /\ c[1] \in 0..MaxLines /\ d[1] \in 1..MaxLines /\ MaxLines \in Nat
        /\ IsCR(c) => d = <<c[1] + 1, 1>>
        /\ ~IsCR(c) => d = <<c[1], c[2] + 1>> /\ Solid(c) = c /\ c[1] # 0 /\ c[2] \in Nat
    BY <1>2, BehindIs
  <2>2. /\ Run(rest) /\ rest \in Seq(NotCR) /\ End(rest) = Solid(c)
        /\ Len(rest) \in Nat /\ Len(rest) > 0
    BY LenIs DEF Good, RestIs, Run
  <2>3. Run(new) /\ End(new) = d
    BY <2>1, <2>2, RunAppend
  <2>4. /\ new # << >> /\ Len(new) = Len(rest) + 1 /\ new[1] = rest[1]
        /\ new[Len(rest) + 1] = d
        /\ \A k \in 1..Len(rest) : new[k] = rest[k]
    BY <2>1, <2>2, AppendIs
  <2> HIDE DEF new
  <2>5. c[1] <= d[1] /\ c[1] \in Nat /\ d[1] \in Nat
    BY <2>1
  <2>6. PiecesAre(ps, new, d)
    <3>1. ASSUME NEW i \in 1..Len(ps), ps[i] # << >>
          PROVE  End(ps[i])[1] < d[1]
      <4>1. End(ps[i])[1] < c[1] /\ ps[i] \in Seq(NotCR)
        BY <3>1 DEF Good, PiecesAre, Run
      <4>2. End(ps[i])[1] \in Nat
        <5>1. End(ps[i]) \in NotCR
          BY <3>1, <4>1, LenIs DEF End
        <5>2. QED
          BY <5>1 DEF NotCR
      <4>3. QED
        BY <2>5, <4>1, <4>2
    <3>2. QED
      BY <2>4, <3>1 DEF Good, PiecesAre
  <2>7. RestIs(new, d)
    BY <2>1, <2>3 DEF RestIs
  <2>8. Chained(ps, new, d)
    BY <2>1, <2>4 DEF Good, Chained
  <2>9. Found(ps, new, d)
    <3>1. CASE IsCR(c)
      <4>1. d[1] = c[1] + 1 /\ c[1] \in lastAtCR
        BY <2>1, <3>1
      <4>2. d[1] - 1 = c[1] /\ \A n \in 1..d[1] - 1 : n = c[1] \/ n \in 1..c[1] - 1
        BY <2>5, <4>1
      <4>3. QED
        BY <4>1, <4>2 DEF Good, Found
    <3>2. CASE ~IsCR(c)
      <4>1. d[1] = c[1] /\ d[2] = c[2] + 1 /\ Solid(c)[2] = c[2] /\ d = <<c[1], c[2] + 1>>
        BY <2>1, <3>2
      <4>2. ASSUME d[1] > 0, d[1] - 1 \notin lastAtCR
            PROVE  Len(new) = Solid(d)[2] /\ \A k \in 1..Len(new) : new[k] = <<d[1], k>>
        <5>1. Len(rest) = c[2] /\ \A k \in 1..Len(rest) : rest[k] = <<c[1], k>>
          BY <4>1, <4>2 DEF Good, Found
        <5>2. Len(new) = Solid(d)[2]
          BY <2>1, <2>4, <4>1, <5>1
        <5>3. ASSUME NEW k \in 1..Len(new) PROVE new[k] = <<d[1], k>>
          <6>1. k \in 1..Len(rest) \/ k = Len(rest) + 1
            BY <2>2, <2>4
          <6>2. QED
            BY <2>4, <4>1, <5>1, <6>1
        <5>4. QED
          BY <5>2, <5>3
      <4>3. QED
        BY <4>1, <4>2 DEF Good, Found
    <3>3. QED
      BY <3>1, <3>2
  <2>10. QED
    BY <1>2, <2>6, <2>7, <2>8, <2>9 DEF Good, new
<1>3. QED
  BY <1>1, <1>2

LEMMA RunOne ==
  ASSUME NEW d \in NotCR
  PROVE  Run(<<d>>) /\ End(<<d>>) = d /\ <<d>>[1] = d /\ Len(<<d>>) = 1 /\ <<d>> # << >>
BY OneIs DEF Run, End

\* The end of a piece is a character.
LEMMA EndIs ==
  ASSUME NEW s, Run(s), s # << >>
  PROVE  /\ Len(s) \in Nat \ {0} /\ End(s) = s[Len(s)]
         /\ End(s)[1] \in 1..MaxLines /\ s[1][1] \in 1..MaxLines /\ End(s)[2] \in 1..LineLen
<1>1. Len(s) \in Nat /\ Len(s) > 0 /\ \A k \in 1..Len(s) : s[k] \in NotCR
  BY LenIs DEF Run
<1>2. s[1] \in NotCR /\ End(s) \in NotCR
  BY <1>1 DEF End
<1>3. QED
  BY <1>1, <1>2 DEF NotCR, End

\* Behind a carriage return the rest is cut off, and the next one begins.
LEMMA CutOff ==
  ASSUME NEW ps, NEW rest, NEW c \in Char, NEW d \in Char, d = Behind(c),
         Good(ps, rest, c), IsCR(c)
  PROVE  Good(Append(ps, rest), <<d>>, d)
<1> DEFINE new == Append(ps, rest)
           one == <<d>>
<1>1. /\ d \in NotCR /\ Solid(d) = d /\ Solid(c) = <<c[1], LineLen>>
      /\ d = <<c[1] + 1, 1>> /\ d = Follower(Solid(c)) /\ LineLen \in Nat \ {0}
      /\ c[1] \in 1..MaxLines /\ MaxLines \in Nat
  <2>1. c[1] \in 1..MaxLines
    BY SizesAssumption DEF Char
  <2>2. QED
    BY <2>1, BehindIs
<1>2. Run(one) /\ End(one) = d /\ one[1] = d /\ Len(one) = 1 /\ one # << >>
  BY <1>1, RunOne
<1>3. Run(rest) /\ rest \in Seq(NotCR) /\ (rest # << >> => End(rest) = Solid(c))
  BY DEF Good, RestIs, Run
<1>4. ps \in Seq(Seq(NotCR)) /\ Len(ps) \in Nat /\ (ps # << >> <=> Len(ps) > 0)
  BY LenIs DEF Good, PiecesAre
<1>5. /\ new \in Seq(Seq(NotCR)) /\ Len(new) = Len(ps) + 1
      /\ \A i \in 1..Len(ps) : new[i] = ps[i]
      /\ new[Len(ps) + 1] = rest /\ new # << >>
  BY <1>3, <1>4, AppendIs
<1> HIDE DEF new, one
<1>6. \A i \in 1..Len(new) : i \in 1..Len(ps) \/ i = Len(new)
  BY <1>4, <1>5
<1>7. PiecesAre(new, one, d)
  <2>1. ASSUME NEW i \in 1..Len(new)
        PROVE  /\ Run(new[i])
               /\ new[i] # << >> =>
                    /\ End(new[i])[2] = LineLen /\ End(new[i])[1] < d[1]
                    /\ \A j \in i + 1..Len(new) : new[j] # << >> => End(new[i])[1] < new[j][1][1]
                    /\ one # << >> => End(new[i])[1] < one[1][1]
    <3>1. CASE i \in 1..Len(ps)
      <4>1. /\ Run(ps[i])
            /\ ps[i] # << >> =>
                 /\ End(ps[i])[2] = LineLen /\ End(ps[i])[1] < c[1]
                 /\ \A j \in i + 1..Len(ps) : ps[j] # << >> => End(ps[i])[1] < ps[j][1][1]
                 /\ rest # << >> => End(ps[i])[1] < rest[1][1]
        BY <3>1 DEF Good, PiecesAre
      <4>2. ps[i] # << >> => End(ps[i])[1] \in Nat
        BY <1>1, <4>1, EndIs
      <4>3. ASSUME NEW j \in i + 1..Len(new)
            PROVE  j \in i + 1..Len(ps) \/ j = Len(ps) + 1
        <5>1. /\ i \in Int /\ j \in Int /\ Len(ps) \in Int /\ Len(new) = Len(ps) + 1
              /\ i + 1 <= j /\ j <= Len(new)
          BY <1>4, <1>5, <3>1
        <5>2. QED
          BY <5>1
      <4>4. \A j \in i + 1..Len(ps) : new[j] = ps[j]
        BY <1>5, <3>1
      <4>5. ps[i] # << >> => End(ps[i])[1] < d[1] /\ one[1] = d
        <5>1. d[1] = c[1] + 1 /\ c[1] \in Int
          BY <1>1
        <5>2. one[1] = d
          BY <1>2
        <5>3. QED
          BY <4>1, <4>2, <5>1, <5>2
      <4>6. QED
        BY <1>5, <3>1, <4>1, <4>3, <4>4, <4>5
    <3>2. CASE i = Len(new)
      <4>1. new[i] = rest /\ i + 1..Len(new) = {}
        BY <1>4, <1>5, <3>2
      <4>2. rest # << >> => End(rest)[1] = c[1] /\ End(rest)[2] = LineLen
        BY <1>1, <1>3
      <4>3. one[1] = d /\ c[1] < d[1] /\ Run(new[i])
        <5>1. d[1] = c[1] + 1 /\ c[1] \in Int
          BY <1>1
        <5>2. QED
          BY <1>2, <1>3, <4>1, <5>1
      <4>4. QED
        BY <4>1, <4>2, <4>3
    <3>3. QED
      BY <1>6, <3>1, <3>2
  <2>2. QED
    BY <1>5, <2>1 DEF PiecesAre
<1>8. RestIs(one, d)
  BY <1>1, <1>2 DEF RestIs
<1>9. Chained(new, one, d)
  <2>1. SUFFICES ASSUME ~discarded PROVE Chained(new, one, d)
    BY DEF Chained
  <2>2. /\ rest # << >> /\ End(rest) = Solid(c)
        /\ \A i \in 1..Len(ps) : ps[i] # << >>
        /\ \A i \in 1..Len(ps) - 1 : ps[i + 1][1] = Follower(End(ps[i]))
        /\ IF ps = << >> THEN rest[1] = <<1, 1>>
           ELSE ps[1][1] = <<1, 1>> /\ rest[1] = Follower(End(ps[Len(ps)]))
    BY <1>1, <1>3, <2>1 DEF Good, Chained
  <2>3. \A i \in 1..Len(new) : new[i] # << >>
    BY <1>5, <1>6, <2>2
  <2>4. new[1][1] = <<1, 1>>
    <3>1. CASE ps = << >>
      BY <1>4, <1>5, <2>2, <3>1
    <3>2. CASE ps # << >>
      <4>1. 1 \in 1..Len(ps)
        BY <1>4, <3>2
      <4>2. QED
        BY <1>5, <2>2, <3>2, <4>1
    <3>3. QED
      BY <3>1, <3>2
  <2>5. one[1] = Follower(End(new[Len(new)]))
    BY <1>1, <1>2, <1>5, <2>2
  <2>6. ASSUME NEW i \in 1..Len(new) - 1 PROVE new[i + 1][1] = Follower(End(new[i]))
    <3>1. i \in 1..Len(ps) /\ new[i] = ps[i]
      BY <1>4, <1>5
    <3>2. CASE i = Len(ps)
      BY <1>4, <1>5, <2>2, <3>1, <3>2
    <3>3. CASE i # Len(ps)
      <4>1. i \in 1..Len(ps) - 1 /\ i + 1 \in 1..Len(ps)
        BY <1>4, <3>1, <3>3
      <4>2. QED
        BY <1>5, <2>2, <3>1, <4>1
    <3>4. QED
      BY <3>2, <3>3
  <2>7. d[1] # 0
    BY <1>1
  <2>8. QED
    BY <1>2, <1>5, <2>3, <2>4, <2>5, <2>6, <2>7 DEF Chained
<1>10. Found(new, one, d)
  <2>1. ASSUME NEW n \in 1..d[1] - 1, n \notin lastAtCR, n - 1 \notin lastAtCR
        PROVE  \E i \in 1..Len(new) : new[i] = Line(n)
    <3>1. CASE n \in 1..c[1] - 1
      <4>1. PICK i \in 1..Len(ps) : ps[i] = Line(n)
        BY <2>1, <3>1 DEF Good, Found
      <4>2. i \in 1..Len(new) /\ new[i] = Line(n)
        BY <1>4, <1>5, <4>1
      <4>3. QED
        BY <4>2
    <3>2. CASE n = c[1]
      <4>1. Len(rest) = LineLen /\ \A k \in 1..Len(rest) : rest[k] = <<n, k>>
        BY <1>1, <2>1, <3>2 DEF Good, Found
      <4>2. rest = [k \in 1..Len(rest) |-> rest[k]]
        BY <1>3
      <4>3. rest = Line(n)
        BY <4>1, <4>2 DEF Line
      <4>4. Len(ps) + 1 \in 1..Len(new)
        BY <1>4, <1>5
      <4>5. QED
        BY <1>5, <4>3, <4>4
    <3>3. QED
      BY <1>1, <3>1, <3>2
  <2>2. Len(one) = Solid(d)[2] /\ \A k \in 1..Len(one) : one[k] = <<d[1], k>>
    BY <1>1, <1>2
  <2>3. QED
    BY <2>1, <2>2 DEF Found
<1>11. QED
  BY <1>7, <1>8, <1>9, <1>10 DEF Good, new, one

\* With nothing left from before, a chunk begins with what it begins with.
LEMMA StartAnew ==
  ASSUME NEW ps, NEW c \in Char \cup {<<0, LineLen + 1>>}, NEW d \in Char, d = Behind(c),
         Good(ps, << >>, c)
  PROVE  Good(ps, IF IsCR(d) THEN << >> ELSE <<d>>, d)
<1> DEFINE new == IF IsCR(d) THEN << >> ELSE <<d>>
<1>1. /\ LineLen \in Nat \ {0} /\ MaxLines \in Nat
      /\ c[1] \in 0..MaxLines /\ c[2] \in 1..LineLen + 1
      /\ d[1] \in 1..MaxLines /\ d[2] \in 1..LineLen + 1
      /\ IsCR(c) => d = <<c[1] + 1, 1>> /\ ~IsCR(d) /\ Solid(c) = <<c[1], LineLen>>
      /\ ~IsCR(c) => /\ d = <<c[1], c[2] + 1>> /\ c[2] \in 1..LineLen
                     /\ c[1] # 0 /\ Solid(c) = c
      /\ ~IsCR(d) => d \in NotCR /\ d = Follower(Solid(c)) /\ Solid(d) = d
  BY BehindIs
<1>2. ~IsCR(d) => Run(new) /\ End(new) = d /\ new[1] = d /\ Len(new) = 1 /\ new # << >>
  BY <1>1, RunOne
<1>3. IsCR(d) => new = << >>
  OBVIOUS
<1>4. Run(<< >>)
  BY DEF Good, RestIs
<1> HIDE DEF new
<1>5. c[1] <= d[1] /\ c[1] \in Nat /\ d[1] \in Nat /\ c[1] \in Int /\ d[1] \in Int
  BY <1>1
<1>6. PiecesAre(ps, new, d)
  <2>1. ASSUME NEW i \in 1..Len(ps), ps[i] # << >>
        PROVE  End(ps[i])[1] < d[1]
    <3>1. End(ps[i])[1] < c[1] /\ Run(ps[i])
      BY <2>1 DEF Good, PiecesAre
    <3>2. End(ps[i])[1] \in Nat
      BY <1>1, <2>1, <3>1, EndIs
    <3>3. QED
      BY <1>5, <3>1, <3>2
  <2>2. new # << >> => new[1] = d
    BY <1>2, <1>3
  <2>3. QED
    BY <2>1, <2>2 DEF Good, PiecesAre
<1>7. RestIs(new, d)
  BY <1>1, <1>2, <1>3, <1>4 DEF RestIs
<1>8. Chained(ps, new, d)
  <2>1. SUFFICES ASSUME ~discarded PROVE Chained(ps, new, d)
    BY DEF Chained
  <2>2. c[1] = 0 /\ ps = << >>
    BY <2>1 DEF Good, Chained
  <2>3. IsCR(c) /\ d = <<1, 1>> /\ ~IsCR(d)
    BY <1>1, <2>2
  <2>4. Len(ps) = 0 /\ new[1] = <<1, 1>> /\ new # << >> /\ d[1] # 0
    BY <1>2, <2>2, <2>3
  <2>5. QED
    BY <2>2, <2>4 DEF Chained
<1>9. c[1] > 0 => c[1] - 1 \in lastAtCR
  <2>1. Solid(c)[2] # 0
    BY <1>1
  <2>2. Len(<< >>) = 0
    OBVIOUS
  <2>3. QED
    BY <2>1, <2>2 DEF Good, Found
<1>10. Found(ps, new, d)
  <2>1. CASE IsCR(c)
    <3>1. d[1] = c[1] + 1 /\ ~IsCR(d) /\ d = <<d[1], 1>> /\ Solid(d)[2] = 1
      BY <1>1, <2>1
    <3>2. Len(new) = Solid(d)[2] /\ \A k \in 1..Len(new) : new[k] = <<d[1], k>>
      <4>1. Len(new) = 1 /\ new[1] = <<d[1], 1>>
        BY <1>2, <3>1
      <4>2. QED
        BY <3>1, <4>1
    <3>3. \A n \in 1..d[1] - 1 : n \in 1..c[1] - 1 \/ (n = c[1] /\ c[1] > 0)
      BY <1>5, <3>1
    <3>4. QED
      BY <1>9, <3>2, <3>3 DEF Good, Found
  <2>2. CASE ~IsCR(c)
    <3>1. d[1] = c[1] /\ c[1] > 0
      BY <1>1, <2>2
    <3>2. QED
      BY <1>9, <3>1 DEF Good, Found
  <2>3. QED
    BY <2>1, <2>2
<1>11. QED
  BY <1>6, <1>7, <1>8, <1>10 DEF Good, new

LEMMA ReplaceLast ==
  ASSUME NEW S, NEW s \in Seq(S), NEW a \in S, NEW b \in S
  PROVE  ReplaceAt(Append(s, a), Len(Append(s, a)), b) = Append(s, b)
<1> DEFINE t == Append(s, a)
           u == Append(s, b)
           v == ReplaceAt(t, Len(t), b)
<1>1. /\ Len(s) \in Nat /\ t \in Seq(S) /\ u \in Seq(S)
      /\ Len(t) = Len(s) + 1 /\ Len(u) = Len(s) + 1
      /\ \A k \in 1..Len(s) : t[k] = u[k]
      /\ u[Len(u)] = b
  <2>1. /\ t \in Seq(S) /\ Len(t) = Len(s) + 1 /\ Len(s) \in Nat
        /\ \A k \in 1..Len(s) : t[k] = s[k]
    BY AppendIs
  <2>2. /\ u \in Seq(S) /\ Len(u) = Len(s) + 1 /\ u[Len(s) + 1] = b
        /\ \A k \in 1..Len(s) : u[k] = s[k]
    BY AppendIs
  <2> HIDE DEF t, u
  <2>3. QED
    BY <2>1, <2>2
<1> HIDE DEF t, u
<1>2. DOMAIN t = 1..Len(t) /\ u = [k \in 1..Len(u) |-> u[k]]
  BY <1>1
<1>3. v = [k \in 1..Len(t) |-> IF k = Len(t) THEN b ELSE t[k]]
  BY DEF ReplaceAt
<1>4. \A k \in 1..Len(t) : (IF k = Len(t) THEN b ELSE t[k]) = u[k]
  BY <1>1
<1>5. v = u
  BY <1>1, <1>2, <1>3, <1>4
<1>6. QED
  BY <1>5 DEF t, u

\* An item that begins with c, and one in which c is behind the rest.
Opened(c) == IF IsCR(c) THEN << >> ELSE <<c>>
Continued(rest, c) == IF IsCR(c) THEN rest ELSE Append(rest, c)

\* A character that begins no item is put into the last one.
LEMMA GetlinePut ==
  ASSUME NEW front \in Seq(Seq(NotCR)), NEW rest \in Seq(NotCR), NEW text, NEW k \in Nat,
         k # 1, ~IsCR(text[k - 1]), IsCR(text[k]) \/ text[k] \in NotCR
  PROVE  Getline(Append(front, rest), text, k) = Append(front, Continued(rest, text[k]))
<1> DEFINE items == Append(front, rest)
<1>1. CASE IsCR(text[k])
  BY <1>1 DEF Getline, Continued
<1>2. CASE ~IsCR(text[k])
  <2>1. Last(items) = rest
    BY AppendIs DEF Last
  <2>2. PICK new \in Seq(NotCR) : new = Append(rest, text[k])
    BY <1>2, AppendIs
  <2>3. Getline(items, text, k) = ReplaceAt(items, Len(items), new)
    BY <1>2, <2>1, <2>2 DEF Getline
  <2>4. ReplaceAt(items, Len(items), new) = Append(front, new)
    BY ReplaceLast
  <2>5. new = Continued(rest, text[k])
    BY <1>2, <2>2 DEF Continued
  <2>6. QED
    BY <2>3, <2>4, <2>5
<1>3. QED
  BY <1>1, <1>2

\* A character that begins an item.
LEMMA GetlineBegin ==
  ASSUME NEW items \in Seq(Seq(NotCR)), NEW text, NEW k \in Nat,
         k = 1 \/ IsCR(text[k - 1]), IsCR(text[k]) \/ text[k] \in NotCR
  PROVE  Getline(items, text, k) = Append(items, Opened(text[k]))
<1> DEFINE begun == Append(items, << >>)
<1>1. CASE IsCR(text[k])
  BY <1>1 DEF Getline, Opened
<1>2. CASE ~IsCR(text[k])
  <2>1. << >> \in Seq(NotCR) /\ <<text[k]>> \in Seq(NotCR)
    BY <1>2, OneIs
  <2>2. Last(begun) = << >> /\ Append(<< >>, text[k]) = <<text[k]>>
    BY <2>1, AppendIs DEF Last
  <2>3. Getline(items, text, k) = ReplaceAt(begun, Len(begun), <<text[k]>>)
    BY <1>2, <2>2 DEF Getline
  <2>4. ReplaceAt(begun, Len(begun), <<text[k]>>) = Append(items, <<text[k]>>)
    BY <2>1, ReplaceLast
  <2>5. QED
    BY <1>2, <2>3, <2>4 DEF Opened
<1>3. QED
  BY <1>1, <1>2

\* While the text is what was left, there is one item: what has been seen of it.
LEMMA LeftIsOneItem ==
  ASSUME NEW left \in Seq(NotCR), left # << >>, NEW text, NEW f,
         \A k \in 1..Len(left) : text[k] = left[k],
         f[0] = << >>,
         \A k \in 1..Len(left) : f[k] = Getline(f[k - 1], text, k)
  PROVE  f[Len(left)] = <<left>>
<1> DEFINE Seen(k) == [i \in 1..k |-> left[i]]
           X == {k \in Nat : k >= 1 /\ k <= Len(left) => f[k] = <<Seen(k)>>}
<1>1. Len(left) \in Nat /\ Len(left) > 0 /\ \A k \in 1..Len(left) : left[k] \in NotCR
  BY LenIs
<1>2. \A k \in 1..Len(left) : left[k] \in NotCR /\ ~IsCR(left[k])
  BY <1>1, SizesAssumption DEF NotCR, IsCR
<1>3. 0 \in X
  OBVIOUS
<1>4. ASSUME NEW k \in Nat, k \in X PROVE k + 1 \in X
  <2>1. PICK m \in Nat : m = k + 1 /\ m - 1 = k
    OBVIOUS
  <2>2. SUFFICES ASSUME m <= Len(left) PROVE f[m] = <<Seen(m)>>
    BY <2>1
  <2>3. m \in 1..Len(left) /\ f[m] = Getline(f[m - 1], text, m)
    BY <1>1, <2>1, <2>2
  <2>4. text[m] = left[m] /\ ~IsCR(text[m]) /\ text[m] \in NotCR
    BY <1>2, <2>3
  <2>5. CASE k = 0
    <3>1. PICK none \in Seq(Seq(NotCR)) : none = << >> /\ m = 1 /\ f[m - 1] = none
      <4>1. PICK none \in Seq(Seq(NotCR)) : none = << >>
        <5>1. << >> \in Seq(Seq(NotCR))
          OBVIOUS
        <5>2. QED
          BY <5>1
      <4>2. m = 1 /\ m - 1 = 0
        BY <2>1, <2>5
      <4>3. f[m - 1] = none
        BY <4>1, <4>2
      <4>4. QED
        BY <4>1, <4>2, <4>3
    <3>2. Getline(none, text, m) = Append(none, Opened(text[m]))
      <4>1. (m = 1 \/ IsCR(text[m - 1])) /\ (IsCR(text[m]) \/ text[m] \in NotCR)
        BY <2>4, <3>1
      <4>2. QED
        BY <4>1, GetlineBegin
    <3>3. f[m] = Append(<< >>, <<left[1]>>)
      BY <2>3, <2>4, <3>1, <3>2 DEF Opened
    <3>4. Append(<< >>, <<left[1]>>) = << <<left[1]>> >> /\ Seen(1) = <<left[1]>>
      OBVIOUS
    <3>5. QED
      BY <3>1, <3>3, <3>4
  <2>6. CASE k # 0
    <3>1. k \in 1..Len(left) /\ f[m - 1] = <<Seen(k)>>
      BY <1>1, <1>4, <2>1, <2>3, <2>6
    <3>2. m # 1 /\ ~IsCR(text[m - 1])
      BY <1>2, <2>1, <2>6, <3>1
    <3>3. Seen(k) \in Seq(NotCR) /\ << >> \in Seq(Seq(NotCR))
      BY <1>1, <3>1
    <3>4. <<Seen(k)>> = Append(<< >>, Seen(k))
      OBVIOUS
    <3>5. Getline(Append(<< >>, Seen(k)), text, m) = Append(<< >>, Continued(Seen(k), text[m]))
      <4> HIDE DEF Seen
      <4>1. QED
        BY <2>4, <3>2, <3>3, GetlinePut
    <3>6. Append(Seen(k), left[m]) = Seen(m)
      BY <1>1, <2>1, <2>3, <3>1
    <3>7. Append(<< >>, Seen(m)) = <<Seen(m)>>
      OBVIOUS
    <3>8. QED
      <4> HIDE DEF Seen
      <4>1. QED
        BY <2>3, <2>4, <3>1, <3>4, <3>5, <3>6, <3>7 DEF Continued
  <2>7. QED
    BY <2>5, <2>6
<1>5. Len(left) \in X
  <2> HIDE DEF X
  <2>1. QED
    BY <1>1, <1>3, <1>4, NatInduct
<1>6. f[Len(left)] = <<Seen(Len(left))>>
  BY <1>1, <1>5
<1>7. Seen(Len(left)) = left
  OBVIOUS
<1>8. QED
  BY <1>6, <1>7

LEMMA ConcatIs ==
  ASSUME NEW S, NEW s \in Seq(S), NEW t \in Seq(S)
  PROVE  /\ s \o t \in Seq(S) /\ Len(s \o t) = Len(s) + Len(t)
         /\ Len(s) \in Nat /\ Len(t) \in Nat
         /\ \A k \in 1..Len(s) : (s \o t)[k] = s[k]
         /\ \A k \in 1..Len(t) : (s \o t)[Len(s) + k] = t[k]
OBVIOUS

LEMMA ConcatAppend ==
  ASSUME NEW S, NEW s \in Seq(S), NEW t \in Seq(S), NEW e \in S
  PROVE  s \o Append(t, e) = Append(s \o t, e)
OBVIOUS

LEMMA NotCRIs == \A c \in NotCR : c \in Char /\ ~IsCR(c)
BY SizesAssumption DEF NotCR, Char, IsCR

LEMMA CharIs == \A c \in Char : IsCR(c) \/ c \in NotCR
BY SizesAssumption DEF NotCR, Char, IsCR

\* The text of a chunk, character by character.
LEMMA ChunkText ==
  ASSUME UartInv, NEW n \in Nat \ {0}, sent + n <= StreamLen
  PROVE  LET text == Text([k \in 1..n |-> Stream(sent + k)])
         IN  /\ Len(text) = Len(content) + n /\ Len(content) \in Nat
             /\ \A k \in 1..Len(content) : text[k] = content[k]
             /\ \A k \in 1..n : text[Len(content) + k] = Stream(sent + k)
             /\ \A k \in 1..n : Stream(sent + k) \in Char
             /\ \A k \in 0..n - 1 : Stream(sent + k + 1) = Behind(Stream(sent + k))
             /\ Stream(sent) \in Char \cup {<<0, LineLen + 1>>}
             /\ StreamLen \in Nat /\ sent \in Nat
<1> DEFINE chunk == [k \in 1..n |-> Stream(sent + k)]
           text == Text(chunk)
<1>1. StreamLen \in Nat /\ sent \in Nat
  <2>1. StreamLen \in Nat
    BY SizesAssumption DEF StreamLen
  <2>2. QED
    BY <2>1 DEF UartInv, TypeOK
<1>2. \A k \in 1..n : Stream(sent + k) \in Char
  BY <1>1, StreamLines
<1>3. \A k \in 0..n - 1 : Stream(sent + k + 1) = Behind(Stream(sent + k))
  BY <1>1, StreamBehind
<1>4. Stream(sent) \in Char \cup {<<0, LineLen + 1>>}
  BY <1>1, StreamLines, StreamStart
<1>5. content \in Seq(Char)
  BY NotCRIs, LenIs DEF UartInv, TypeOK
<1>6. chunk \in Seq(Char) /\ Len(chunk) = n /\ \A k \in 1..n : chunk[k] = Stream(sent + k)
  BY <1>2
<1> HIDE DEF chunk
<1>7. /\ Len(text) = Len(content) + n /\ Len(content) \in Nat
      /\ \A k \in 1..Len(content) : text[k] = content[k]
      /\ \A k \in 1..n : text[Len(content) + k] = chunk[k]
  <2>1. PICK left \in Seq(Char), read \in Seq(Char) : left = content /\ read = chunk
    BY <1>5, <1>6
  <2>2. text = left \o read
    BY <2>1 DEF Text
  <2>3. /\ Len(left \o read) = Len(left) + Len(read) /\ Len(left) \in Nat
        /\ \A k \in 1..Len(left) : (left \o read)[k] = left[k]
        /\ \A k \in 1..Len(read) : (left \o read)[Len(left) + k] = read[k]
    BY ConcatIs
  <2> HIDE DEF text
  <2>4. QED
    BY <1>6, <2>1, <2>2, <2>3
<1>8. QED
  BY <1>1, <1>2, <1>3, <1>4, <1>6, <1>7 DEF chunk

\* What holds of the items after the j-th character of a chunk.
After(f, j) ==
    \E front \in Seq(Seq(NotCR)), rest \in Seq(NotCR) :
        /\ f[Len(content) + j] = Append(front, rest)
        /\ IsCR(Stream(sent + j)) \/ rest # << >>
        /\ Good(pieces \o front, rest, Stream(sent + j))

LEMMA FirstOfChunk ==
  ASSUME UartInv, NEW n \in Nat \ {0}, sent + n <= StreamLen, NEW text,
         text = Text([k \in 1..n |-> Stream(sent + k)]), NEW f, f[0] = << >>,
         \A k \in 1..Len(text) : f[k] = Getline(f[k - 1], text, k)
  PROVE  After(f, 1)
<1> DEFINE len == Len(content)
<1>1. /\ Len(text) = len + n /\ len \in Nat
      /\ \A k \in 1..len : text[k] = content[k]
      /\ text[len + 1] = Stream(sent + 1)
      /\ Stream(sent + 1) \in Char /\ Stream(sent + 1) = Behind(Stream(sent))
      /\ Stream(sent) \in Char \cup {<<0, LineLen + 1>>}
  <2>1. 1 \in 1..n /\ 0 \in 0..n - 1 /\ sent + 0 + 1 = sent + 1 /\ sent + 0 = sent
    BY DEF UartInv, TypeOK
  <2>2. QED
    BY <2>1, ChunkText
<1>2. PICK c \in Char \cup {<<0, LineLen + 1>>}, d \in Char :
        c = Stream(sent) /\ d = Stream(sent + 1) /\ d = Behind(c)
  BY <1>1
<1>3. content \in Seq(NotCR) /\ pieces \in Seq(Seq(NotCR)) /\ Good(pieces, content, c)
  BY <1>2 DEF UartInv, TypeOK
<1>4. pieces \o << >> = pieces /\ << >> \in Seq(Seq(NotCR)) /\ << >> \in Seq(NotCR)
  BY <1>3
<1>5. IsCR(d) \/ d \in NotCR
  BY CharIs
<1>6. PICK m \in Nat : m = len + 1 /\ m - 1 = len
  BY <1>1
<1>7. m \in 1..Len(text) /\ f[m] = Getline(f[m - 1], text, m) /\ text[m] = d
  BY <1>1, <1>2, <1>6
<1>8. CASE content = << >>
  <2> DEFINE rest == Opened(d)
  <2>1. PICK none \in Seq(Seq(NotCR)) : none = << >> /\ m = 1 /\ f[m - 1] = none
    <3>1. PICK none \in Seq(Seq(NotCR)) : none = << >>
      BY <1>4
    <3>2. m = 1 /\ m - 1 = 0
      BY <1>6, <1>8
    <3>3. f[m - 1] = none
      BY <3>1, <3>2
    <3>4. QED
      BY <3>1, <3>2, <3>3
  <2>2. IsCR(text[m]) \/ text[m] \in NotCR
    BY <1>5, <1>7
  <2>3. f[len + 1] = Append(<< >>, rest)
    <3>1. Getline(none, text, m) = Append(none, Opened(text[m]))
      <4>1. m = 1 \/ IsCR(text[m - 1])
        BY <2>1
      <4>2. QED
        BY <2>2, <4>1, GetlineBegin
    <3>2. QED
      BY <1>6, <1>7, <2>1, <3>1
  <2>4. Good(pieces \o << >>, rest, d)
    BY <1>2, <1>3, <1>4, <1>8, StartAnew DEF Opened
  <2>5. rest \in Seq(NotCR) /\ (IsCR(d) \/ rest # << >>)
    BY <1>4, <1>5, OneIs DEF Opened
  <2> HIDE DEF rest
  <2>6. QED
    BY <1>2, <1>4, <2>3, <2>4, <2>5 DEF After
<1>9. CASE content # << >>
  <2> DEFINE rest == Continued(content, d)
  <2>1. f[len] = <<content>>
    <3>1. \A k \in 1..len : k \in 1..Len(text)
      BY <1>1
    <3>2. \A k \in 1..len : f[k] = Getline(f[k - 1], text, k)
      BY <3>1
    <3>3. QED
      BY <1>1, <1>3, <1>9, <3>2, LeftIsOneItem
  <2>2. len \in 1..len /\ len # 0
    BY <1>3, <1>9, LenIs
  <2>0. PICK front \in Seq(Seq(NotCR)) : front = << >>
    BY <1>4
  <2>3. m # 1 /\ ~IsCR(text[m - 1]) /\ f[m - 1] = Append(front, content)
    <3>1. text[m - 1] \in NotCR
      BY <1>1, <1>3, <1>6, <2>2, LenIs
    <3>2. QED
      BY <1>6, <2>0, <2>1, <2>2, <3>1, NotCRIs
  <2>4. Getline(Append(front, content), text, m) = Append(front, Continued(content, text[m]))
    <3>1. PICK left \in Seq(NotCR) : left = content
      BY <1>3
    <3>2. IsCR(text[m]) \/ text[m] \in NotCR
      BY <1>5, <1>7
    <3>3. Getline(Append(front, left), text, m) = Append(front, Continued(left, text[m]))
      BY <2>3, <3>2, GetlinePut
    <3>4. QED
      BY <3>1, <3>3
  <2>5. f[len + 1] = Append(<< >>, rest)
    BY <1>6, <1>7, <2>0, <2>3, <2>4
  <2>6. c \in Char
    <3>1. c[1] # 0
      <4>1. End(content) = Solid(c) /\ Run(content)
        BY <1>3, <1>9 DEF Good, RestIs
      <4>2. End(content)[1] # 0
        BY <1>9, <4>1, EndIs, SizesAssumption
      <4>3. QED
        BY <4>1, <4>2 DEF Solid
    <3>2. QED
      BY <3>1
  <2>7. IsCR(c) => c[1] \in lastAtCR
    BY <1>2, <1>9 DEF UartInv, Glued
  <2>8. Good(pieces \o << >>, rest, d)
    BY <1>2, <1>3, <1>4, <1>9, <2>6, <2>7, PutBehind DEF Continued
  <2>9. rest \in Seq(NotCR) /\ rest # << >>
    <3>1. CASE IsCR(d)
      BY <1>3, <1>9, <3>1 DEF Continued
    <3>2. CASE ~IsCR(d)
      <4>1. Append(content, d) \in Seq(NotCR) /\ Append(content, d) # << >>
        <5>1. PICK left \in Seq(NotCR) : left = content
          BY <1>3
        <5>2. Append(left, d) \in Seq(NotCR) /\ Append(left, d) # << >>
          BY <1>5, <3>2, AppendIs
        <5>3. QED
          BY <5>1, <5>2
      <4>2. QED
        BY <3>2, <4>1 DEF Continued
    <3>3. QED
      BY <3>1, <3>2
  <2> HIDE DEF rest
  <2>10. QED
    BY <1>2, <1>4, <2>5, <2>8, <2>9 DEF After
<1>10. QED
  BY <1>8, <1>9

LEMMA NextOfChunk ==
  ASSUME UartInv, NEW n \in Nat \ {0}, sent + n <= StreamLen, NEW text,
         text = Text([k \in 1..n |-> Stream(sent + k)]), NEW f,
         \A k \in 1..Len(text) : f[k] = Getline(f[k - 1], text, k),
         NEW j \in 1..n - 1, After(f, j)
  PROVE  After(f, j + 1)
<1> DEFINE len == Len(content)
<1>1. /\ Len(text) = len + n /\ len \in Nat
      /\ text[len + j] = Stream(sent + j) /\ text[len + (j + 1)] = Stream(sent + (j + 1))
      /\ Stream(sent + j) \in Char /\ Stream(sent + (j + 1)) \in Char
      /\ Stream(sent + (j + 1)) = Behind(Stream(sent + j))
  <2>1. /\ j \in 1..n /\ j + 1 \in 1..n /\ j \in 0..n - 1
        /\ sent + j + 1 = sent + (j + 1)
    BY DEF UartInv, TypeOK
  <2>2. QED
    BY <2>1, ChunkText
<1>2. PICK c \in Char, d \in Char :
        c = Stream(sent + j) /\ d = Stream(sent + (j + 1)) /\ d = Behind(c)
  BY <1>1
<1>3. PICK front \in Seq(Seq(NotCR)), rest \in Seq(NotCR) :
        /\ f[len + j] = Append(front, rest) /\ (IsCR(c) \/ rest # << >>)
        /\ Good(pieces \o front, rest, c)
  BY <1>2 DEF After
<1>4. pieces \in Seq(Seq(NotCR))
  BY DEF UartInv, TypeOK
<1>5. IsCR(d) \/ d \in NotCR
  BY CharIs
<1>6. PICK m \in Nat : m = len + (j + 1) /\ m - 1 = len + j
  BY <1>1
<1>7. /\ m \in 1..Len(text) /\ f[m] = Getline(f[m - 1], text, m)
      /\ text[m] = d /\ text[m - 1] = c /\ m # 1
  BY <1>1, <1>2, <1>6
<1>8. CASE IsCR(c)
  <2>1. ~IsCR(d) /\ d \in NotCR
    BY <1>2, <1>5, <1>8, BehindIs
  <2>2. PICK items \in Seq(Seq(NotCR)) : items = Append(front, rest)
    BY AppendIs
  <2>3. Getline(items, text, m) = Append(items, Opened(text[m]))
    BY <1>5, <1>7, <1>8, GetlineBegin
  <2>4. f[len + (j + 1)] = Append(items, <<d>>)
    <3>1. f[m] = Append(items, Opened(d))
      BY <1>3, <1>6, <1>7, <2>2, <2>3
    <3>2. Opened(d) = <<d>>
      BY <2>1 DEF Opened
    <3>3. QED
      BY <1>6, <3>1, <3>2
  <2>5. Good(Append(pieces \o front, rest), <<d>>, d)
    BY <1>2, <1>3, <1>8, CutOff
  <2>6. pieces \o Append(front, rest) = Append(pieces \o front, rest)
    <3>1. PICK ps \in Seq(Seq(NotCR)) : ps = pieces
      BY <1>4
    <3>2. ps \o Append(front, rest) = Append(ps \o front, rest)
      BY ConcatAppend
    <3>3. QED
      BY <3>1, <3>2
  <2>7. Good(pieces \o items, <<d>>, d)
    BY <2>2, <2>5, <2>6
  <2>8. <<d>> \in Seq(NotCR) /\ <<d>> # << >>
    BY <2>1, OneIs
  <2>9. QED
    BY <1>2, <2>4, <2>7, <2>8 DEF After
<1>9. CASE ~IsCR(c)
  <2> DEFINE new == Continued(rest, d)
  <2>1. rest # << >>
    BY <1>3, <1>9
  <2>2. Getline(Append(front, rest), text, m) = Append(front, Continued(rest, text[m]))
    BY <1>5, <1>7, <1>9, GetlinePut
  <2>3. f[len + (j + 1)] = Append(front, new)
    BY <1>3, <1>6, <1>7, <2>2
  <2>4. Good(pieces \o front, new, d)
    BY <1>2, <1>3, <1>9, <2>1, PutBehind DEF Continued
  <2>5. new \in Seq(NotCR) /\ new # << >>
    BY <1>5, <2>1, AppendIs DEF Continued
  <2> HIDE DEF new
  <2>6. QED
    BY <1>2, <2>3, <2>4, <2>5 DEF After
<1>10. QED
  BY <1>8, <1>9

\* A chunk in full: what is parsed of it, and what is left.
LEMMA ChunkIs ==
  ASSUME UartInv, NEW n \in Nat \ {0}, sent + n <= StreamLen
  PROVE  \E front \in Seq(Seq(NotCR)), rest \in Seq(NotCR) :
            /\ Parsed(Items(Text([k \in 1..n |-> Stream(sent + k)]))) = front
            /\ Last(Items(Text([k \in 1..n |-> Stream(sent + k)]))) = rest
            /\ Good(pieces \o front, rest, Stream(sent + n))
<1> DEFINE text == Text([k \in 1..n |-> Stream(sent + k)])
<1>1. Len(text) = Len(content) + n /\ Len(content) \in Nat
  BY ChunkText
<1>2. PICK f : /\ Items(text) = f[Len(text)] /\ f[0] = << >>
               /\ \A k \in 1..Len(text) : f[k] = Getline(f[k - 1], text, k)
  <2> HIDE DEF text
  <2>1. Len(text) \in Nat
    BY <1>1
  <2>2. QED
    BY <2>1, ItemsStep
<1> DEFINE X == {j \in Nat : j >= 1 /\ j <= n => After(f, j)}
<1>3. n \in X
  <2>1. 0 \in X
    OBVIOUS
  <2>2. ASSUME NEW j \in Nat, j \in X PROVE j + 1 \in X
    <3>1. SUFFICES ASSUME j + 1 <= n PROVE After(f, j + 1)
      OBVIOUS
    <3>2. CASE j = 0
      <4>1. After(f, 1)
        BY <1>2, FirstOfChunk
      <4>2. j + 1 = 1
        BY <3>2
      <4>3. QED
        BY <4>1, <4>2
    <3>3. CASE j # 0
      <4>1. j \in 1..n - 1 /\ After(f, j)
        BY <2>2, <3>1, <3>3
      <4>2. QED
        BY <1>2, <4>1, NextOfChunk
    <3>4. QED
      BY <3>2, <3>3
  <2> HIDE DEF X
  <2>3. QED
    BY <2>1, <2>2, NatInduct
<1>4. After(f, n)
  BY <1>3
<1>5. PICK front \in Seq(Seq(NotCR)), rest \in Seq(NotCR) :
        f[Len(content) + n] = Append(front, rest) /\ Good(pieces \o front, rest, Stream(sent + n))
  BY <1>4 DEF After
<1>6. Items(text) = Append(front, rest)
  BY <1>1, <1>2, <1>5
<1>7. Parsed(Append(front, rest)) = front /\ Last(Append(front, rest)) = rest
  BY DEF Parsed, Front, Last
<1>8. QED
  BY <1>5, <1>6, <1>7

LEMMA UartInvInit == Init => UartInv
<1> SUFFICES ASSUME Init PROVE UartInv
  OBVIOUS
<1>1. /\ sent = 0 /\ content = << >> /\ pieces = << >> /\ lastAtCR = {}
      /\ discarded = FALSE /\ Len(<< >>) = 0
      /\ << >> \in Seq(NotCR) /\ << >> \in Seq(Seq(NotCR))
  BY DEF Init
<1>2. LineLen \in Nat \ {0} /\ MaxLines \in Nat /\ StreamLen \in Nat /\ Limit \in Nat
  BY SizesAssumption DEF StreamLen
<1>3. TypeOK
  <2>1. sent \in 0..StreamLen
    BY <1>1, <1>2
  <2>2. content \in Seq(NotCR) /\ pieces \in Seq(Seq(NotCR)) /\ Len(content) <= Limit
    BY <1>1, <1>2
  <2>3. lastAtCR \subseteq 1..MaxLines /\ discarded \in BOOLEAN
    BY <1>1
  <2>4. QED
    BY <2>1, <2>2, <2>3 DEF TypeOK
<1>4. Good(<< >>, << >>, <<0, LineLen + 1>>)
  <2>1. Run(<< >>)
    BY <1>1 DEF Run
  <2>2. PiecesAre(<< >>, << >>, <<0, LineLen + 1>>)
    BY <1>1 DEF PiecesAre
  <2>3. RestIs(<< >>, <<0, LineLen + 1>>)
    BY <2>1 DEF RestIs
  <2>4. Chained(<< >>, << >>, <<0, LineLen + 1>>)
    BY <1>1 DEF Chained
  <2>5. Found(<< >>, << >>, <<0, LineLen + 1>>)
    BY DEF Found
  <2>6. QED
    BY <2>2, <2>3, <2>4, <2>5 DEF Good
<1>5. Glued
  BY <1>1 DEF Glued
<1>6. QED
  BY <1>1, <1>3, <1>4, <1>5, StreamStart DEF UartInv

\* A chunk keeps the invariant: what is discarded is no part of a line of
\* which, and before which, no carriage return ended a chunk.
LEMMA UartInvNext == UartInv /\ [ReadChunk]_vars => UartInv'
<1>1. ASSUME UartInv, UNCHANGED vars PROVE UartInv'
  BY <1>1 DEF UartInv, TypeOK, Good, PiecesAre, RestIs, Chained, Found, Glued, vars
<1>2. ASSUME UartInv, ReadChunk PROVE UartInv'
  <2>1. PICK n \in 1..ChunkMax :
          LET items == Items(Text([k \in 1..n |-> Stream(sent + k)]))
          IN  /\ sent + n <= StreamLen
              /\ pieces' = pieces \o Parsed(items)
              /\ content' = Keep(Last(items))
              /\ discarded' = (discarded \/ content' # Last(items))
              /\ sent' = sent + n
              /\ lastAtCR' = LET last == Stream(sent + n)
                             IN  lastAtCR \cup (IF IsCR(last) THEN {last[1]} ELSE {})
    BY <1>2 DEF ReadChunk
  <2>2. n \in Nat \ {0}
    BY SizesAssumption
  <2>3. PICK front \in Seq(Seq(NotCR)), rest \in Seq(NotCR) :
            /\ Parsed(Items(Text([k \in 1..n |-> Stream(sent + k)]))) = front
            /\ Last(Items(Text([k \in 1..n |-> Stream(sent + k)]))) = rest
            /\ Good(pieces \o front, rest, Stream(sent + n))
    BY <1>2, <2>1, <2>2, ChunkIs
  <2>4. /\ pieces' = pieces \o front /\ content' = Keep(rest) /\ sent' = sent + n
        /\ discarded' = (discarded \/ content' # rest)
        /\ discarded \in BOOLEAN
    BY <1>2, <2>1, <2>3 DEF UartInv, TypeOK
  <2>5. PICK c \in Char : c = Stream(sent + n)
    <3>1. sent + n \in Nat \ {0}
      BY <1>2, <2>2, SizesAssumption DEF UartInv, TypeOK, StreamLen
    <3>2. QED
      BY <2>1, <3>1, StreamLines
  <2>6. /\ lastAtCR' = lastAtCR \cup (IF IsCR(c) THEN {c[1]} ELSE {})
        /\ c[1] \in 1..MaxLines /\ LineLen \in Nat \ {0} /\ Limit \in Nat /\ LineLen <= Limit
        /\ Solid(c)[2] \in 1..LineLen
    <3>1. c[1] \in 1..MaxLines /\ c[2] \in 1..LineLen + 1 /\ LineLen \in Nat \ {0}
      BY SizesAssumption DEF Char
    <3>2. Solid(c)[2] \in 1..LineLen
      BY <3>1 DEF Solid, IsCR
    <3>3. QED
      BY <2>1, <2>5, <3>1, <3>2, SizesAssumption
  <2>7. Good(pieces', rest, c)
    BY <2>3, <2>4, <2>5
  <2>8. /\ content' \in Seq(NotCR) /\ Len(content') <= Limit
        /\ content' = rest \/ (content' = << >> /\ Len(rest) > Limit)
    <3>1. << >> \in Seq(NotCR) /\ Len(<< >>) = 0 /\ Len(rest) \in Nat
      OBVIOUS
    <3>2. CASE Len(rest) > Limit
      BY <2>4, <2>6, <3>1, <3>2 DEF Keep
    <3>3. CASE ~(Len(rest) > Limit)
      BY <2>4, <2>6, <3>1, <3>3 DEF Keep
    <3>4. QED
      BY <3>2, <3>3
  <2>9. TypeOK'
    <3>1. sent' \in 0..StreamLen
      BY <1>2, <2>1, <2>2, <2>4, SizesAssumption DEF UartInv, TypeOK, StreamLen
    <3>2. pieces' \in Seq(Seq(NotCR))
      BY <2>7 DEF Good, PiecesAre
    <3>3. lastAtCR' \subseteq 1..MaxLines /\ discarded' \in BOOLEAN
      BY <1>2, <2>4, <2>6 DEF UartInv, TypeOK
    <3>4. QED
      BY <2>8, <3>1, <3>2, <3>3 DEF TypeOK
  <2>10. /\ PiecesAre(pieces', content', c) /\ RestIs(content', c)
         /\ ~discarded' => Chained(pieces', content', c)
    <3>1. CASE content' = rest
      BY <2>7, <3>1 DEF Good
    <3>2. CASE content' = << >> /\ content' # rest
      <4>1. Run(<< >>)
        BY DEF Run
      <4>2. QED
        BY <2>4, <2>7, <3>2, <4>1 DEF Good, PiecesAre, RestIs
    <3>3. QED
      BY <2>8, <3>1, <3>2
  <2>11. (~discarded' => ~discarded) /\ lastAtCR \subseteq lastAtCR'
    BY <2>4, <2>6
  <2>12. c[1] - 1 \notin lastAtCR => content' = rest
    <3>1. SUFFICES ASSUME c[1] - 1 \notin lastAtCR, Len(rest) > Limit PROVE FALSE
      BY <2>8
    <3>2. Len(rest) = Solid(c)[2]
      BY <2>6, <2>7, <3>1 DEF Good, Found
    <3>3. QED
      BY <2>6, <3>1, <3>2
  <2>13. Stream(sent') = c
    BY <2>4, <2>5
  <2>14. (PiecesAre(pieces, content, Stream(sent)) /\ RestIs(content, Stream(sent)))'
    BY <2>10, <2>13 DEF PiecesAre, RestIs
  <2>15. Chained(pieces, content, Stream(sent))'
    BY <2>10, <2>11, <2>13 DEF Chained
  <2>16. Found(pieces, content, Stream(sent))'
    BY <2>7, <2>11, <2>12, <2>13 DEF Good, Found
  <2>17. Glued'
    BY <2>6, <2>13 DEF Glued
  <2>18. QED
    BY <2>9, <2>14, <2>15, <2>16, <2>17 DEF UartInv, Good
<1>3. QED
  BY <1>1, <1>2

LEMMA UartInvCorrect == Spec => []UartInv
BY UartInvInit, UartInvNext, PTL DEF Spec

-----------------------------------------------------------------------------
(* What follows of the lines.                                              *)

\* The number of characters that have been read, what is left of them and what
\* has been cut off keep their types, and the remainder its limit
\* (parse_received_uart_data).
THEOREM UartTypeCorrect == Spec => []TypeOK
<1>1. UartInv => TypeOK
  BY DEF UartInv
<1>2. QED
  BY <1>1, UartInvCorrect, PTL

\* A run with the fields of a line is the line.
LEMMA WellFormedRun ==
  ASSUME NEW s, Run(s), WellFormed(s)
  PROVE  /\ s = Line(s[1][1]) /\ s # << >>
         /\ End(s)[1] = s[1][1] /\ s[1][1] \in 1..MaxLines
<1>1. /\ LineLen \in Nat \ {0} /\ Len(s) = LineLen /\ s \in Seq(NotCR)
      /\ \A k \in 1..LineLen : s[k] \in NotCR
      /\ \A k \in 1..LineLen - 1 : s[k + 1] = Follower(s[k])
  BY SizesAssumption, LenIs DEF Run, WellFormed
<1>2. PICK n \in 1..MaxLines : s[1] = <<n, 1>>
  <2>1. s[1] \in NotCR /\ s[1][2] = 1
    BY <1>1 DEF WellFormed
  <2>2. QED
    BY <2>1 DEF NotCR
<1> DEFINE X == {k \in Nat : k >= 1 /\ k <= LineLen => s[k] = <<n, k>>}
<1>3. \A k \in Nat : k \in X
  <2>1. 0 \in X
    OBVIOUS
  <2>2. ASSUME NEW k \in Nat, k \in X PROVE k + 1 \in X
    <3>1. SUFFICES ASSUME k + 1 <= LineLen PROVE s[k + 1] = <<n, k + 1>>
      OBVIOUS
    <3>2. CASE k = 0
      BY <1>2, <3>2
    <3>3. CASE k # 0
      <4>1. s[k] = <<n, k>> /\ k \in 1..LineLen - 1 /\ k < LineLen
        BY <1>1, <2>2, <3>1, <3>3
      <4>2. s[k + 1] = Follower(<<n, k>>)
        BY <1>1, <4>1
      <4>3. QED
        BY <4>1, <4>2 DEF Follower
    <3>4. QED
      BY <3>2, <3>3
  <2> HIDE DEF X
  <2>3. QED
    BY <2>1, <2>2, NatInduct
<1>4. \A k \in 1..LineLen : s[k] = <<n, k>>
  BY <1>1, <1>3
<1>5. s = [k \in 1..Len(s) |-> s[k]]
  BY <1>1
<1>6. s = Line(n)
  BY <1>1, <1>4, <1>5 DEF Line
<1>7. End(s) = <<n, LineLen>> /\ s # << >>
  BY <1>1, <1>4 DEF End
<1>8. QED
  BY <1>2, <1>6, <1>7

\* Only whole lines are accepted, once and in their order, wherever the chunks
\* are cut (parse_uart_data_line).
LEMMA InvAccepted == UartInv => AcceptedAreLines
<1> SUFFICES ASSUME UartInv, NEW i \in Accepted
             PROVE  /\ \E n \in Closed : pieces[i] = Line(n)
                    /\ \A j \in Accepted : i < j => pieces[i][1][1] < pieces[j][1][1]
  BY DEF AcceptedAreLines
<1> DEFINE c == Stream(sent)
<1>1. /\ Len(pieces) \in Nat /\ i \in 1..Len(pieces)
      /\ \A j \in Accepted : j \in 1..Len(pieces) /\ WellFormed(pieces[j])
  BY LenIs DEF UartInv, Good, PiecesAre, Accepted
<1>2. \A j \in 1..Len(pieces) :
        /\ Run(pieces[j])
        /\ pieces[j] # << >> =>
            /\ End(pieces[j])[1] < c[1]
            /\ \A k \in j + 1..Len(pieces) :
                    pieces[k] # << >> => End(pieces[j])[1] < pieces[k][1][1]
  BY DEF UartInv, Good, PiecesAre
<1>3. \A j \in Accepted : /\ pieces[j] = Line(pieces[j][1][1]) /\ pieces[j] # << >>
                          /\ End(pieces[j])[1] = pieces[j][1][1]
                          /\ pieces[j][1][1] \in 1..MaxLines
  BY <1>1, <1>2, WellFormedRun
<1>4. c[1] \in Int
  BY StreamStart, StreamLines, SizesAssumption
     DEF UartInv, TypeOK, Char
<1>5. pieces[i][1][1] \in Closed
  BY <1>1, <1>2, <1>3, <1>4 DEF Closed
<1>6. ASSUME NEW j \in Accepted, i < j PROVE pieces[i][1][1] < pieces[j][1][1]
  <2>1. j \in i + 1..Len(pieces) /\ pieces[j] # << >>
    BY <1>1, <1>3, <1>6
  <2>2. QED
    BY <1>1, <1>2, <1>3, <2>1
<1>7. QED
  BY <1>3, <1>5, <1>6

THEOREM AcceptedAreLinesCorrect == Spec => []AcceptedAreLines
BY InvAccepted, UartInvCorrect, PTL

\* Until a remainder is discarded no character gets lost between the driver and
\* the pieces but the carriage returns (parse_received_uart_data).
LEMMA InvNothingLost == UartInv => NothingLost
<1> SUFFICES ASSUME UartInv, ~discarded, sent > 0
             PROVE  LET parts == Append(pieces, content)
                    IN  /\ \A i \in 1..Len(parts) : parts[i] # << >>
                        /\ parts[1][1] = <<1, 1>>
                        /\ \A i \in 1..Len(parts) : \A k \in 1..Len(parts[i]) - 1 :
                                parts[i][k + 1] = Follower(parts[i][k])
                        /\ \A i \in 1..Len(parts) - 1 :
                                parts[i + 1][1] = Follower(Last(parts[i]))
                        /\ Last(content) = Stream(IF IsCR(Stream(sent)) THEN sent - 1 ELSE sent)
  BY DEF NothingLost
<1>1. PICK ps \in Seq(Seq(NotCR)), rest \in Seq(NotCR) : ps = pieces /\ rest = content
  BY DEF UartInv, TypeOK
<1> DEFINE parts == Append(ps, rest)
<1>2. PICK c \in Char : c = Stream(sent)
  BY StreamLines DEF UartInv, TypeOK
<1>3. c[1] # 0
  BY SizesAssumption DEF Char
<1>4. /\ rest # << >> /\ End(rest) = Solid(c) /\ Run(rest)
      /\ \A i \in 1..Len(ps) : ps[i] # << >> /\ Run(ps[i])
      /\ IF ps = << >> THEN rest[1] = <<1, 1>>
         ELSE ps[1][1] = <<1, 1>> /\ rest[1] = Follower(End(ps[Len(ps)]))
      /\ \A i \in 1..Len(ps) - 1 : ps[i + 1][1] = Follower(End(ps[i]))
  BY <1>1, <1>2, <1>3 DEF UartInv, Good, PiecesAre, RestIs, Chained
<1>5. /\ Len(ps) \in Nat /\ (ps # << >> <=> Len(ps) > 0) /\ Len(parts) = Len(ps) + 1
      /\ \A i \in 1..Len(ps) : parts[i] = ps[i]
      /\ parts[Len(ps) + 1] = rest
  BY LenIs, AppendIs
<1> HIDE DEF parts
<1>6. \A i \in 1..Len(parts) : parts[i] # << >> /\ Run(parts[i])
  <2>1. \A i \in 1..Len(parts) : i \in 1..Len(ps) \/ i = Len(ps) + 1
    BY <1>5
  <2>2. QED
    BY <1>4, <1>5, <2>1
<1>7. parts[1][1] = <<1, 1>>
  <2>1. CASE ps = << >>
    BY <1>4, <1>5, <2>1
  <2>2. CASE ps # << >>
    <3>1. 1 \in 1..Len(ps)
      BY <1>5, <2>2
    <3>2. QED
      BY <1>4, <1>5, <2>2, <3>1
  <2>3. QED
    BY <2>1, <2>2
<1>8. ASSUME NEW i \in 1..Len(parts) - 1 PROVE parts[i + 1][1] = Follower(Last(parts[i]))
  <2>1. i \in 1..Len(ps) /\ parts[i] = ps[i] /\ ps # << >>
    BY <1>5
  <2>2. Last(parts[i]) = End(ps[i])
    BY <2>1 DEF Last, End
  <2>3. CASE i = Len(ps)
    BY <1>4, <1>5, <2>1, <2>2, <2>3
  <2>4. CASE i # Len(ps)
    <3>1. i \in 1..Len(ps) - 1 /\ i + 1 \in 1..Len(ps)
      BY <1>5, <2>1, <2>4
    <3>2. QED
      BY <1>4, <1>5, <2>2, <3>1
  <2>5. QED
    BY <2>3, <2>4
<1>9. Solid(c) = Stream(IF IsCR(c) THEN sent - 1 ELSE sent)
  <2>1. CASE IsCR(c)
    <3>1. sent - 1 \in Nat /\ sent = (sent - 1) + 1
      BY DEF UartInv, TypeOK
    <3>2. PICK k \in Nat : k = sent - 1
      BY <3>1
    <3>3. Stream(k + 1) = Behind(Stream(k))
      BY StreamBehind
    <3>4. Stream(k) \in Char \cup {<<0, LineLen + 1>>}
      <4>1. k = 0 \/ (k \in Nat \ {0} /\ k <= StreamLen)
        BY <3>2, SizesAssumption DEF UartInv, TypeOK, StreamLen
      <4>2. QED
        BY <4>1, StreamStart, StreamLines
    <3>5. PICK b \in Char \cup {<<0, LineLen + 1>>} : b = Stream(k) /\ c = Behind(b)
      BY <1>2, <3>1, <3>2, <3>3, <3>4
    <3>6. Solid(c) = b
      BY <2>1, <3>5, BehindIs
    <3>7. QED
      BY <2>1, <3>2, <3>5, <3>6
  <2>2. CASE ~IsCR(c)
    BY <1>2, <2>2 DEF Solid
  <2>3. QED
    BY <2>1, <2>2
<1>10. \A i \in 1..Len(parts) : \A k \in 1..Len(parts[i]) - 1 :
            parts[i][k + 1] = Follower(parts[i][k])
  BY <1>6 DEF Run
<1>11. Last(content) = Stream(IF IsCR(Stream(sent)) THEN sent - 1 ELSE sent)
  BY <1>1, <1>2, <1>4, <1>9 DEF Last, End
<1>12. QED
  BY <1>1, <1>6, <1>7, <1>8, <1>10, <1>11 DEF parts

THEOREM NothingLostCorrect == Spec => []NothingLost
BY InvNothingLost, UartInvCorrect, PTL

\* A line that has been read in full is parsed, unless its carriage return or
\* the one before it ended a chunk (parse_received_uart_data).
LEMMA InvMissed == UartInv => MissedOnlyAtChunkEnd
<1> SUFFICES ASSUME UartInv, NEW n \in Closed, n \notin lastAtCR, n - 1 \notin lastAtCR
             PROVE  Line(n) \in ToSet(pieces)
  BY DEF MissedOnlyAtChunkEnd
<1>1. PICK i \in 1..Len(pieces) : pieces[i] = Line(n)
  BY DEF Closed, UartInv, Good, Found
<1>2. QED
  BY <1>1 DEF ToSet

THEOREM MissedOnlyAtChunkEndCorrect == Spec => []MissedOnlyAtChunkEnd
BY InvMissed, UartInvCorrect, PTL

-----------------------------------------------------------------------------
(* What the accepted lines do to the list of the device.                   *)

LEMMA MaxIs ==
  ASSUME NEW S \in SUBSET Int, NEW m \in S, \A x \in S : m >= x
  PROVE  Max(S) = m
<1>1. Max(S) \in S /\ \A x \in S : Max(S) >= x
  BY DEF Max
<1>2. Max(S) \in Int /\ m \in Int
  BY <1>1
<1>3. QED
  BY <1>1, <1>2

LEMMA MinIs ==
  ASSUME NEW S \in SUBSET Int, NEW m \in S, \A x \in S : m <= x
  PROVE  Min(S) = m
<1>1. Min(S) \in S /\ \A x \in S : Min(S) <= x
  BY DEF Min
<1>2. Min(S) \in Int /\ m \in Int
  BY <1>1
<1>3. QED
  BY <1>1, <1>2

\* The identifier behind the double one is in the place behind its double.
LEMMA IdentifiersAre ==
  /\ Len(Identifiers) = 257 /\ Identifiers[1] = 0
  /\ \A e \in 2..257 : Identifiers[e] = e - 2
BY DEF Identifiers

LEMMA PlaceIs == \A id \in 1..255 : Place[id] = id + 2
<1> SUFFICES ASSUME NEW id \in 1..255 PROVE Place[id] = id + 2
  OBVIOUS
<1> DEFINE S == {k \in 1..Len(Identifiers) : Identifiers[k] = id} \cup {Len(Identifiers) + 1}
<1>1. Place[id] = Min(S)
  <2>1. Place[id] = Find(Identifiers, id)
    BY DEF Place
  <2>2. QED
    BY <2>1 DEF Find
<1>2. S = {id + 2, 258}
  <2>1. \A k \in 1..257 : Identifiers[k] = id <=> k = id + 2
    <3>1. \A k \in 1..257 : k = 1 \/ k \in 2..257
      OBVIOUS
    <3>2. QED
      BY <3>1, IdentifiersAre
  <2>2. Len(Identifiers) + 1 = 258 /\ id + 2 \in 1..257
    BY IdentifiersAre
  <2>3. QED
    BY <2>1, <2>2, IdentifiersAre
<1> HIDE DEF S
<1>3. S \in SUBSET Int /\ id + 2 \in S /\ \A x \in S : id + 2 <= x
  BY <1>2
<1>4. QED
  BY <1>1, <1>3, MinIs

Groups == {BatteryGroup, OtherGroup}

\* The groups have eight elements each, none twice and none in both.
LEMMA GroupsAre ==
  /\ BatteryGroup # OtherGroup /\ ValuesPerLine = 8
  /\ \A group \in Groups : /\ Len(group) = 8
                           /\ \A k \in 1..8 : group[k] \in 1..255
                           /\ \A k, l \in 1..8 : group[k] = group[l] => k = l
  /\ \A k, l \in 1..8 : BatteryGroup[k] # OtherGroup[l]
<1>1. \A k \in 1..8 : k = 1 \/ k = 2 \/ k = 3 \/ k = 4 \/ k = 5 \/ k = 6 \/ k = 7 \/ k = 8
  OBVIOUS
<1>2. /\ Len(BatteryGroup) = 8
      /\ BatteryGroup[1] = 10 /\ BatteryGroup[2] = 65 /\ BatteryGroup[3] = 13
      /\ BatteryGroup[4] = 17 /\ BatteryGroup[5] = 14 /\ BatteryGroup[6] = 77
      /\ BatteryGroup[7] = 12 /\ BatteryGroup[8] = 81
  BY DEF BatteryGroup
<1>3. Len(OtherGroup) = 8 /\ \A k \in 1..8 : OtherGroup[k] = k + 33
  BY <1>1 DEF OtherGroup
<1>4. \A k \in 1..8 : BatteryGroup[k] \in 1..255 /\ BatteryGroup[k] \notin 34..41
  BY <1>1, <1>2
<1>5. \A k, l \in 1..8 : BatteryGroup[k] = BatteryGroup[l] => k = l
  BY <1>1, <1>2
<1>6. \A k, l \in 1..8 : BatteryGroup[k] # OtherGroup[l]
  BY <1>3, <1>4
<1>7. BatteryGroup # OtherGroup
  BY <1>6
<1> DEFINE Proper(group) == /\ Len(group) = 8
                            /\ \A k \in 1..8 : group[k] \in 1..255
                            /\ \A k, l \in 1..8 : group[k] = group[l] => k = l
<1>8. Proper(BatteryGroup)
  BY <1>2, <1>4, <1>5
<1>9. Proper(OtherGroup)
  BY <1>3
<1>10. \A group \in Groups : Proper(group)
  <2> HIDE DEF Proper
  <2> QED
    BY <1>8, <1>9 DEF Groups
<1>11. QED
  BY <1>6, <1>7, <1>10 DEF ValuesPerLine

\* The element of the k-th value of a group.
Element(group, k) == group[k] + 2

LEMMA ElementIs ==
  ASSUME NEW group \in Groups, NEW k \in 1..8
  PROVE  /\ Element(group, k) \in 1..257 /\ group[k] = Identifiers[Element(group, k)]
         /\ \A other \in Groups : \A l \in 1..8 :
                Element(group, k) = Element(other, l) => group = other /\ k = l
<1>1. PICK id \in 1..255 : id = group[k]
  BY GroupsAre
<1>2. PICK e \in 2..257 : e = id + 2 /\ e - 2 = id
  OBVIOUS
<1>3. Element(group, k) = e
  BY <1>1, <1>2 DEF Element
<1>4. Identifiers[e] = id
  BY <1>2, IdentifiersAre
<1>5. ASSUME NEW other \in Groups, NEW l \in 1..8, Element(group, k) = Element(other, l)
      PROVE  group = other /\ k = l
  <2>1. PICK b \in 1..255 : b = other[l]
    BY GroupsAre
  <2>2. id = b
    BY <1>1, <1>5, <2>1 DEF Element
  <2>3. group[k] = other[l]
    BY <1>1, <2>1, <2>2
  <2>4. group = other
    BY <2>3, GroupsAre DEF Groups
  <2>5. QED
    BY <2>3, <2>4, GroupsAre
<1>6. QED
  BY <1>1, <1>3, <1>4, <1>5

\* A line is written to the group whose values it has, or, if it is misread, to
\* the other one.
OfGroup(n, group) ==
    ~((n \in BatteryLines <=> group = BatteryGroup)
        <=> (n \in BatteryLines <=> FirstValue[n] <= 120))

LEMMA GroupOfLine ==
  ASSUME NEW n \in 1..MaxLines
  PROVE  GroupOf(n) \in Groups /\ \A group \in Groups : OfGroup(n, group) <=> GroupOf(n) = group
<1>1. FirstValue[n] > 120 <=> ~(FirstValue[n] <= 120)
  BY GaugeAssumption
<1>2. QED
  BY <1>1, GroupsAre DEF GroupOf, OfGroup, Groups

\* A line writes the elements of its group, and no other.
Writes(table, new, n) ==
    /\ \A k \in 1..8 : new[Element(GroupOf(n), k)] = <<n, k>>
    /\ \A e \in 1..257 : (\A k \in 1..8 : e # Element(GroupOf(n), k)) => new[e] = table[e]

LEMMA WriteLineIs ==
  ASSUME NEW n \in 1..MaxLines, NEW table
  PROVE  Writes(table, WriteLine(table, n), n)
<1> DEFINE g == GroupOf(n)
           Written(e) == {k \in 1..ValuesPerLine : Place[g[k]] = e}
<1>1. /\ ValuesPerLine = 8
      /\ \A k \in 1..8 : g[k] \in 1..255
      /\ \A k, l \in 1..8 : g[k] = g[l] => k = l
  BY GroupOfLine, GroupsAre
<1>2. \A e \in 1..257 : WriteLine(table, n)[e]
                        = IF Written(e) = {} THEN table[e] ELSE <<n, Max(Written(e))>>
  BY IdentifiersAre DEF WriteLine
<1> HIDE DEF g
<1>3. ASSUME NEW k \in 1..8
      PROVE  Place[g[k]] = Element(g, k) /\ Element(g, k) \in 1..257
  <2>1. PICK id \in 1..255 : id = g[k]
    BY <1>1
  <2>2. Place[id] = id + 2 /\ id + 2 \in 1..257
    BY PlaceIs
  <2>3. QED
    BY <2>1, <2>2 DEF Element
<1>4. ASSUME NEW k \in 1..8 PROVE WriteLine(table, n)[Element(g, k)] = <<n, k>>
  <2>1. Written(Element(g, k)) = {k}
    <3>1. ASSUME NEW l \in 1..8, Place[g[l]] = Element(g, k) PROVE l = k
      <4>1. Element(g, l) = Element(g, k)
        BY <1>3, <3>1
      <4>2. PICK a \in 1..255, b \in 1..255 : a = g[l] /\ b = g[k]
        BY <1>1
      <4>3. a = b
        BY <4>1, <4>2 DEF Element
      <4>4. QED
        BY <1>1, <4>2, <4>3
    <3>2. QED
      BY <1>1, <1>3, <3>1
  <2>2. Max({k}) = k
    BY MaxIs
  <2>3. QED
    BY <1>2, <1>3, <2>1, <2>2
<1>5. ASSUME NEW e \in 1..257, \A k \in 1..8 : e # Element(g, k)
      PROVE  WriteLine(table, n)[e] = table[e]
  <2>1. Written(e) = {}
    BY <1>1, <1>3, <1>5
  <2>2. QED
    BY <1>2, <2>1
<1>6. QED
  BY <1>4, <1>5 DEF g, Writes

\* The list after each piece, as the function ObdData is defined by; it exists
\* for the same reason as that of Items.
TableBehind(table, i) ==
    IF WellFormed(pieces[i]) THEN WriteLine(table, Head(pieces[i])[1]) ELSE table

LEMMA TablesExist ==
  ASSUME Len(pieces) \in Nat
  PROVE  \E f : f = [i \in 0..Len(pieces) |->
                        IF i = 0 THEN TableAtStart ELSE TableBehind(f[i - 1], i)]
<1> DEFINE Is(f, n) == f = [i \in 0..n |-> IF i = 0 THEN TableAtStart ELSE TableBehind(f[i - 1], i)]
           X == {n \in Nat : \E f : Is(f, n)}
<1>1. 0 \in X
  <2>1. Is([i \in 0..0 |-> TableAtStart], 0)
    OBVIOUS
  <2>2. QED
    BY <2>1
<1>2. ASSUME NEW n \in Nat, n \in X PROVE n + 1 \in X
  <2>1. PICK f : Is(f, n)
    BY <1>2
  <2>2. \A i \in 0..n : f[i] = IF i = 0 THEN TableAtStart ELSE TableBehind(f[i - 1], i)
    BY <2>1
  <2> DEFINE g == [i \in 0..n + 1 |-> IF i = n + 1 THEN TableBehind(f[n], i) ELSE f[i]]
  <2>3. \A i \in 0..n : g[i] = f[i]
    OBVIOUS
  <2>4. ASSUME NEW i \in 0..n + 1
        PROVE  g[i] = IF i = 0 THEN TableAtStart ELSE TableBehind(g[i - 1], i)
    <3>1. CASE i = n + 1
      <4>1. g[i] = TableBehind(f[n], i) /\ i - 1 = n /\ i # 0 /\ n \in 0..n
        BY <3>1
      <4>2. QED
        BY <2>3, <4>1
    <3>2. CASE i # n + 1
      <4>1. i \in 0..n /\ (i # 0 => i - 1 \in 0..n)
        BY <3>2
      <4>2. QED
        BY <2>2, <2>3, <4>1
    <3>3. QED
      BY <3>1, <3>2
  <2>5. g = [i \in 0..n + 1 |-> g[i]]
    OBVIOUS
  <2>6. Is(g, n + 1)
    <3> HIDE DEF g
    <3>1. QED
      BY <2>4, <2>5
  <2>7. \E h : Is(h, n + 1)
    <3> HIDE DEF g, Is
    <3>1. QED
      BY <2>6
  <2>8. QED
    <3> HIDE DEF Is
    <3>1. QED
      BY <2>7
<1>3. Len(pieces) \in X
  <2> HIDE DEF X
  <2>1. QED
    BY <1>1, <1>2, NatInduct
<1>4. QED
  BY <1>3

LEMMA TableStep ==
  ASSUME Len(pieces) \in Nat
  PROVE  \E f : /\ ObdData = f[Len(pieces)] /\ f[0] = TableAtStart
                /\ \A i \in 1..Len(pieces) : f[i] = TableBehind(f[i - 1], i)
<1> DEFINE g == CHOOSE f : f = [i \in 0..Len(pieces) |->
                              IF i = 0 THEN TableAtStart ELSE TableBehind(f[i - 1], i)]
<1>1. g = [i \in 0..Len(pieces) |->
              IF i = 0 THEN TableAtStart ELSE TableBehind(g[i - 1], i)]
  BY TablesExist
<1>2. ObdData = g[Len(pieces)]
  BY DEF ObdData, TableBehind
<1> HIDE DEF g
<1>3. g[0] = TableAtStart /\ \A i \in 1..Len(pieces) : g[i] = TableBehind(g[i - 1], i)
  <2>1. \A i \in 0..Len(pieces) :
            g[i] = IF i = 0 THEN TableAtStart ELSE TableBehind(g[i - 1], i)
    BY <1>1
  <2>2. 0 \in 0..Len(pieces) /\ \A i \in 1..Len(pieces) : i \in 0..Len(pieces) /\ i # 0
    OBVIOUS
  <2>3. QED
    BY <2>1, <2>2
<1>4. QED
  BY <1>2, <1>3

LineAt(i) == pieces[i][1][1]

\* The accepted lines of a group among the first i pieces.
LinesUpTo(group, i) == {j \in Accepted : j <= i /\ OfGroup(LineAt(j), group)}

\* The element of the k-th value of a group has that of the newest line.
Newest(table, group, k, i) ==
    IF LinesUpTo(group, i) = {} THEN table[Element(group, k)] = NoValue
    ELSE \E j \in LinesUpTo(group, i) :
            /\ \A l \in LinesUpTo(group, i) : l <= j
            /\ table[Element(group, k)] = <<LineAt(j), k>>

Unwritten(table) ==
    \A e \in 1..257 :
        (\A group \in Groups : \A k \in 1..8 : e # Element(group, k)) => table[e] = NoValue

\* A piece does to the list what the property says of its line.
LEMMA PieceWrites ==
  ASSUME NEW i \in Nat \ {0}, NEW table, NEW new, new = TableBehind(table, i),
         i \in 1..Len(pieces), Len(pieces) \in Nat,
         \A j \in Accepted : LineAt(j) \in 1..MaxLines /\ Head(pieces[j]) = pieces[j][1],
         Unwritten(table),
         \A group \in Groups : \A k \in 1..8 : Newest(table, group, k, i - 1)
  PROVE  Unwritten(new) /\ \A group \in Groups : \A k \in 1..8 : Newest(new, group, k, i)
<1>1. \A group \in Groups : \A k \in 1..8 : Element(group, k) \in 1..257
  BY ElementIs
<1>2. CASE ~WellFormed(pieces[i])
  <2>1. new = table /\ i \notin Accepted
    BY <1>2 DEF TableBehind, Accepted
  <2>2. \A group \in Groups : LinesUpTo(group, i) = LinesUpTo(group, i - 1)
    <3>1. \A j \in Accepted : j <= i <=> j <= i - 1
      BY <2>1 DEF Accepted
    <3>2. QED
      BY <3>1 DEF LinesUpTo
  <2>3. QED
    BY <2>1, <2>2 DEF Newest
<1>3. CASE WellFormed(pieces[i])
  <2>1. PICK n \in 1..MaxLines : n = LineAt(i) /\ i \in Accepted
    BY <1>3 DEF Accepted
  <2>2. new = WriteLine(table, n)
    BY <1>3, <2>1 DEF TableBehind, LineAt
  <2>3. GroupOf(n) \in Groups /\ \A group \in Groups : OfGroup(n, group) <=> GroupOf(n) = group
    BY GroupOfLine
  <2>4. /\ \A k \in 1..8 : new[Element(GroupOf(n), k)] = <<n, k>>
        /\ \A e \in 1..257 : (\A k \in 1..8 : e # Element(GroupOf(n), k)) => new[e] = table[e]
    <3>1. Writes(table, WriteLine(table, n), n)
      BY WriteLineIs
    <3>2. Writes(table, new, n)
      BY <2>2, <3>1
    <3>3. QED
      BY <3>2 DEF Writes
  <2>5. Unwritten(new)
    BY <2>3, <2>4 DEF Unwritten
  <2>6. ASSUME NEW group \in Groups, NEW k \in 1..8, group = GroupOf(n)
        PROVE  Newest(new, group, k, i)
    <3>1. i \in LinesUpTo(group, i) /\ \A l \in LinesUpTo(group, i) : l <= i
      BY <2>1, <2>3, <2>6 DEF LinesUpTo
    <3>2. new[Element(group, k)] = <<LineAt(i), k>>
      BY <2>1, <2>4, <2>6
    <3>3. QED
      BY <3>1, <3>2 DEF Newest
  <2>7. ASSUME NEW group \in Groups, NEW k \in 1..8, group # GroupOf(n)
        PROVE  Newest(new, group, k, i)
    <3>1. LinesUpTo(group, i) = LinesUpTo(group, i - 1)
      <4>1. \A j \in Accepted : j <= i <=> j <= i - 1 \/ j = i
        BY DEF Accepted
      <4>2. ~OfGroup(LineAt(i), group)
        BY <2>1, <2>3, <2>7
      <4>3. QED
        BY <4>1, <4>2 DEF LinesUpTo
    <3>2. \A l \in 1..8 : Element(group, k) # Element(GroupOf(n), l)
      BY <2>3, <2>7, ElementIs
    <3>3. new[Element(group, k)] = table[Element(group, k)]
      BY <1>1, <2>4, <3>2
    <3>4. QED
      BY <3>1, <3>3 DEF Newest
  <2>8. QED
    BY <2>5, <2>6, <2>7
<1>4. QED
  BY <1>2, <1>3

\* So does the list of the device, after all pieces.
LEMMA ObdDataIs ==
  ASSUME UartInv
  PROVE  /\ Unwritten(ObdData)
         /\ \A group \in Groups : \A k \in 1..8 : Newest(ObdData, group, k, Len(pieces))
         /\ \A j \in Accepted : j \in 1..Len(pieces) /\ LineAt(j) \in 1..MaxLines
<1>1. Len(pieces) \in Nat
  BY LenIs DEF UartInv, TypeOK
<1>2. \A j \in Accepted : /\ j \in 1..Len(pieces) /\ LineAt(j) \in 1..MaxLines
                          /\ Head(pieces[j]) = pieces[j][1]
  <2>1. \A j \in Accepted : j \in 1..Len(pieces) /\ Run(pieces[j]) /\ WellFormed(pieces[j])
    BY DEF UartInv, Good, PiecesAre, Accepted
  <2>2. QED
    BY <2>1, WellFormedRun DEF LineAt
<1>3. PICK f : /\ ObdData = f[Len(pieces)] /\ f[0] = TableAtStart
               /\ \A i \in 1..Len(pieces) : f[i] = TableBehind(f[i - 1], i)
  BY <1>1, TableStep
<1> DEFINE Holds(i) == /\ Unwritten(f[i])
                       /\ \A group \in Groups : \A k \in 1..8 : Newest(f[i], group, k, i)
           X == {i \in Nat : i <= Len(pieces) => Holds(i)}
<1>4. 0 \in X
  <2>1. \A e \in 1..257 : f[0][e] = NoValue
    BY <1>3, IdentifiersAre DEF TableAtStart
  <2>2. \A group \in Groups : LinesUpTo(group, 0) = {}
    BY <1>2 DEF LinesUpTo
  <2>3. \A group \in Groups : \A k \in 1..8 : Element(group, k) \in 1..257
    BY ElementIs
  <2>4. Holds(0)
    BY <2>1, <2>2, <2>3 DEF Unwritten, Newest
  <2>5. QED
    BY <2>4
<1>5. ASSUME NEW j \in Nat, j \in X PROVE j + 1 \in X
  <2>1. PICK i \in Nat \ {0} : i = j + 1 /\ i - 1 = j
    OBVIOUS
  <2>2. SUFFICES ASSUME i <= Len(pieces) PROVE Holds(i)
    BY <2>1
  <2>3. i \in 1..Len(pieces) /\ Holds(i - 1)
    BY <1>1, <1>5, <2>1, <2>2
  <2>4. QED
    BY <1>1, <1>2, <1>3, <2>3, PieceWrites
<1>6. Len(pieces) \in X
  <2> HIDE DEF X
  <2>1. QED
    BY <1>1, <1>4, <1>5, NatInduct
<1>7. QED
  BY <1>2, <1>3, <1>6

\* The lines written to a group are those the property names.
LEMMA WrittenToIs ==
  ASSUME NEW group
  PROVE  WrittenTo(group) = {n \in {LineAt(l) : l \in Accepted} : OfGroup(n, group)}
<1>1. AcceptedLines = {LineAt(l) : l \in Accepted}
  BY DEF AcceptedLines, LineAt
<1>2. ASSUME NEW n
      PROVE  n \in WrittenTo(group) <=> n \in AcceptedLines /\ OfGroup(n, group)
  BY DEF WrittenTo, Own, Misread, OfGroup
<1>3. QED
  BY <1>1, <1>2

\* The newest accepted line of a group is the last one: they are in order.
LEMMA NewestLine ==
  ASSUME UartInv, NEW group \in Groups, NEW j \in LinesUpTo(group, Len(pieces)),
         \A l \in LinesUpTo(group, Len(pieces)) : l <= j
  PROVE  WrittenTo(group) # {} /\ Max(WrittenTo(group)) = LineAt(j)
<1>1. /\ Len(pieces) \in Nat
      /\ \A l \in Accepted : l \in 1..Len(pieces) /\ LineAt(l) \in 1..MaxLines
  BY LenIs, ObdDataIs DEF UartInv, TypeOK
<1>2. WrittenTo(group) = {LineAt(l) : l \in LinesUpTo(group, Len(pieces))}
  <2>1. LinesUpTo(group, Len(pieces)) = {l \in Accepted : OfGroup(LineAt(l), group)}
    BY <1>1 DEF LinesUpTo
  <2>2. WrittenTo(group) = {n \in {LineAt(l) : l \in Accepted} : OfGroup(n, group)}
    BY WrittenToIs
  <2>3. QED
    BY <2>1, <2>2
<1>3. ASSUME NEW l \in LinesUpTo(group, Len(pieces)) PROVE LineAt(l) <= LineAt(j)
  <2>1. l \in Accepted /\ j \in Accepted /\ l <= j
    BY DEF LinesUpTo
  <2>2. l < j => LineAt(l) < LineAt(j)
    BY <2>1, InvAccepted DEF AcceptedAreLines, LineAt
  <2>3. QED
    BY <1>1, <2>1, <2>2
<1>4. WrittenTo(group) \in SUBSET Int
  BY <1>1, <1>2 DEF LinesUpTo
<1>5. LineAt(j) \in WrittenTo(group) /\ \A n \in WrittenTo(group) : LineAt(j) >= n
  <2>1. \A n \in WrittenTo(group) : \E l \in LinesUpTo(group, Len(pieces)) : n = LineAt(l)
    BY <1>2
  <2>2. \A n \in WrittenTo(group) : n <= LineAt(j)
    BY <1>3, <2>1
  <2>3. QED
    BY <1>1, <1>2, <1>4, <2>2 DEF LinesUpTo
<1>6. QED
  BY <1>4, <1>5, MaxIs

\* An identifier of a group is that of one element of the group only.
LEMMA ElementOf ==
  ASSUME NEW e \in 1..257, NEW group \in Groups
  PROVE  /\ Identifiers[e] \in ToSet(group) <=> \E k \in 1..8 : Identifiers[e] = group[k]
         /\ \A k \in 1..8 : Identifiers[e] = group[k] <=> e = Element(group, k)
<1>1. Identifiers[e] \in ToSet(group) <=> \E k \in 1..8 : Identifiers[e] = group[k]
  BY GroupsAre DEF ToSet
<1>2. ASSUME NEW k \in 1..8 PROVE Identifiers[e] = group[k] <=> e = Element(group, k)
  <2>1. PICK id \in 1..255 : id = group[k]
    BY GroupsAre
  <2>2. Identifiers[e] = id <=> e = id + 2
    <3>1. e = 1 \/ e \in 2..257
      OBVIOUS
    <3>2. QED
      BY <3>1, IdentifiersAre
  <2>3. QED
    BY <2>1, <2>2 DEF Element
<1>3. QED
  BY <1>1, <1>2

\* The identifiers of the two groups.
LEMMA BothGroups ==
  \A group \in Groups : ToSet(group) \subseteq ToSet(BatteryGroup \o OtherGroup)
<1>1. /\ Len(BatteryGroup) = 8 /\ Len(OtherGroup) = 8
      /\ BatteryGroup \in Seq(Int) /\ OtherGroup \in Seq(Int)
  BY DEF BatteryGroup, OtherGroup
<1>2. PICK a \in Seq(Int), b \in Seq(Int) :
        a = BatteryGroup /\ b = OtherGroup /\ Len(a) = 8 /\ Len(b) = 8
  BY <1>1
<1>3. PICK s \in Seq(Int) : s = a \o b
  BY ConcatIs
<1>4. /\ Len(a) = 8 /\ Len(b) = 8 /\ Len(s) = 16
      /\ \A k \in 1..8 : s[k] = a[k]
      /\ \A k \in 1..8 : s[8 + k] = b[k]
  <2>1. Len(a) = 8 /\ Len(b) = 8
    BY <1>2
  <2>2. /\ Len(a \o b) = Len(a) + Len(b)
        /\ \A k \in 1..Len(a) : (a \o b)[k] = a[k]
        /\ \A k \in 1..Len(b) : (a \o b)[Len(a) + k] = b[k]
    BY ConcatIs
  <2>3. /\ Len(s) = Len(a) + Len(b)
        /\ \A k \in 1..Len(a) : s[k] = a[k]
        /\ \A k \in 1..Len(b) : s[Len(a) + k] = b[k]
    BY <1>3, <2>2
  <2>4. QED
    BY <2>1, <2>3
<1>5. \A k \in 1..16 : s[k] \in ToSet(s)
  BY <1>4 DEF ToSet
<1>6. \A k \in 1..8 : a[k] \in ToSet(s) /\ b[k] \in ToSet(s)
  <2>1. \A k \in 1..8 : k \in 1..16 /\ 8 + k \in 1..16
    OBVIOUS
  <2>2. \A k \in 1..8 : s[k] \in ToSet(s) /\ s[8 + k] \in ToSet(s)
    BY <1>5, <2>1
  <2>3. QED
    BY <1>4, <2>2
<1>7. ToSet(a) \subseteq ToSet(s) /\ ToSet(b) \subseteq ToSet(s)
  <2>1. \A x \in ToSet(a) : \E k \in 1..8 : x = a[k]
    BY <1>4 DEF ToSet
  <2>2. \A x \in ToSet(b) : \E k \in 1..8 : x = b[k]
    BY <1>4 DEF ToSet
  <2>3. QED
    BY <1>6, <2>1, <2>2
<1>8. QED
  BY <1>2, <1>3, <1>7 DEF Groups

\* Each element of the list has the value of the newest accepted line that is
\* written to its group, its own unless a line is misread (parse_uart_data_line).
LEMMA InvNewest == UartInv => ElementsHaveNewest
<1> SUFFICES ASSUME UartInv PROVE ElementsHaveNewest
  OBVIOUS
<1> DEFINE lines == [group \in {BatteryGroup, OtherGroup} |-> WrittenTo(group)]
           Right(table, group, e) ==
               IF lines[group] = {} THEN table[e] = NoValue
               ELSE /\ table[e][1] = Max(lines[group])
                    /\ group[table[e][2]] = Identifiers[e]
<1>1. PICK table : table = ObdData
  OBVIOUS
<1>2. /\ Unwritten(table)
      /\ \A group \in Groups : \A k \in 1..8 : Newest(table, group, k, Len(pieces))
      /\ \A j \in Accepted : j \in 1..Len(pieces) /\ LineAt(j) \in 1..MaxLines
  BY <1>1, ObdDataIs
<1>3. DOMAIN lines = Groups /\ \A group \in Groups : lines[group] = WrittenTo(group)
  BY DEF Groups
<1> HIDE DEF lines
<1>4. ASSUME NEW group \in Groups, NEW e \in 1..257, Identifiers[e] \in ToSet(group)
      PROVE  Right(table, group, e)
  <2>1. PICK k \in 1..8 : Identifiers[e] = group[k] /\ e = Element(group, k)
    BY <1>4, ElementOf
  <2>2. Newest(table, group, k, Len(pieces))
    BY <1>2
  <2>3. CASE LinesUpTo(group, Len(pieces)) = {}
    <3>1. WrittenTo(group) = {}
      BY <1>2, <2>3, WrittenToIs DEF LinesUpTo
    <3>2. table[e] = NoValue
      BY <2>1, <2>2, <2>3 DEF Newest
    <3>3. QED
      BY <1>3, <3>1, <3>2
  <2>4. CASE LinesUpTo(group, Len(pieces)) # {}
    <3>1. PICK j \in LinesUpTo(group, Len(pieces)) :
            /\ \A l \in LinesUpTo(group, Len(pieces)) : l <= j
            /\ table[e] = <<LineAt(j), k>>
      BY <2>1, <2>2, <2>4 DEF Newest
    <3>2. WrittenTo(group) # {} /\ Max(WrittenTo(group)) = LineAt(j)
      BY <3>1, NewestLine
    <3>3. table[e][1] = LineAt(j) /\ table[e][2] = k
      BY <3>1
    <3>4. QED
      BY <1>3, <2>1, <3>2, <3>3
  <2>5. QED
    BY <2>3, <2>4
<1>5. ASSUME NEW e \in 1..257, Identifiers[e] \notin ToSet(BatteryGroup \o OtherGroup)
      PROVE  table[e] = NoValue
  <2>1. \A group \in Groups : Identifiers[e] \notin ToSet(group)
    BY <1>5, BothGroups
  <2>2. ASSUME NEW group \in Groups, NEW k \in 1..8 PROVE e # Element(group, k)
    <3>1. /\ Identifiers[e] \in ToSet(group) <=> \E l \in 1..8 : Identifiers[e] = group[l]
          /\ Identifiers[e] = group[k] <=> e = Element(group, k)
      BY ElementOf
    <3>2. QED
      BY <2>1, <3>1
  <2>3. QED
    BY <1>2, <2>2 DEF Unwritten
<1>6. /\ \A group \in DOMAIN lines : \A e \in 1..Len(Identifiers) :
            Identifiers[e] \in ToSet(group) => Right(table, group, e)
      /\ \A e \in 1..Len(Identifiers) :
            Identifiers[e] \notin ToSet(BatteryGroup \o OtherGroup) => table[e] = NoValue
  <2> HIDE DEF Right
  <2>1. Len(Identifiers) = 257
    BY IdentifiersAre
  <2>2. QED
    BY <1>3, <1>4, <1>5, <2>1
<1>7. QED
  BY <1>1, <1>6 DEF ElementsHaveNewest, lines

\* Whatever the two kinds of lines begin with, values are in the wrong elements
\* only from lines on the wrong side of 120, and missing only with these
\* (parse_uart_data_line).
THEOREM ElementsHaveNewestCorrect == Spec => []ElementsHaveNewest
BY InvNewest, UartInvCorrect, PTL
=============================================================================
