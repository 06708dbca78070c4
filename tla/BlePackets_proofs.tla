-------------------------- MODULE BlePackets_proofs --------------------------
(***************************************************************************)
(* Proofs about messages in packets, for any size of the packets and any   *)
(* length of the messages.  The invariant follows a message from the phone *)
(* to the receiver: what is in the buffer, what is in each packet on the   *)
(* way and what is left with the phone are the parts of it, in order.      *)
(***************************************************************************)
EXTENDS BlePackets, SequenceTheorems, TLAPS

-----------------------------------------------------------------------------
(* The inductive invariant.                                                *)

\* A packet has the bytes of the message from a on to b, and says so.
CutOut(packet, a, b) ==
    /\ a < b
    /\ packet.bytes = SubSeq(message, a + 1, b)
    /\ packet.start = IF b = Len(message) THEN "END"
                      ELSE IF a = 0 THEN "BEGIN" ELSE "MIDDLE"
    /\ a = 0 /\ b = Len(message) => Len(message) < PacketSize

\* The places of the message at which the packets on the way are cut: the
\* receiver has it up to the first of them, the phone from the last one on.
Cuts(cut) ==
    /\ cut \in [0..Len(air) -> 0..Len(message)]
    /\ cut[0] < Len(message)
    /\ \A i \in 1..Len(air) : CutOut(air[i], cut[i - 1], cut[i])
    /\ rest = SubSeq(message, cut[Len(air)] + 1, Len(message))
    /\ startByte = IF cut[Len(air)] = 0 THEN "BEGIN" ELSE "MIDDLE"
    /\ cut[0] = 0 => (current_message # << >> => cutOff)
    /\ cut[0] # 0 => current_message = SubSeq(message, 1, cut[0])

\* Nothing is on its way, or a message is.
OnItsWay ==
    \/ rest = << >> /\ air = << >> /\ (current_message # << >> => cutOff)
    \/ message \in Message /\ \E cut : Cuts(cut)

PacketsInv == TypeOK /\ SignalledEndsWithMessage /\ OnItsWay

-----------------------------------------------------------------------------
(* Messages, and parts of them.                                            *)

LEMMA MessageBytes ==
  ASSUME NEW m \in Message
  PROVE  m \in Seq(Byte) /\ Len(m) \in 1..MaxLen
<1>1. PICK t \in Tag, n \in 1..MaxLen : m = [k \in 1..n |-> <<t, k>>]
  BY DEF Message
<1>2. \A k \in 1..n : m[k] \in Byte
  BY <1>1, SizeAssumption DEF Byte
<1>3. n \in Nat /\ m \in [1..n -> Byte]
  BY <1>1, <1>2, SizeAssumption
<1>4. QED
  BY <1>3

\* The bytes of a message from a on to b.
LEMMA PartOf ==
  ASSUME NEW m \in Message, NEW a \in 0..Len(m), NEW b \in a..Len(m)
  PROVE  /\ SubSeq(m, a + 1, b) \in Seq(Byte)
         /\ Len(SubSeq(m, a + 1, b)) = b - a
         /\ \A i \in 1..(b - a) : SubSeq(m, a + 1, b)[i] = m[a + i]
<1>1. m \in Seq(Byte) /\ Len(m) \in Nat
  BY MessageBytes
<1>2. \A i \in (a + 1)..b : m[i] \in Byte
  BY <1>1
<1>3. QED
  BY <1>1, <1>2, SubSeqProperties

\* Two parts that follow each other are one.
LEMMA PartsJoin ==
  ASSUME NEW m \in Message, NEW a \in 0..Len(m), NEW b \in a..Len(m), NEW c \in b..Len(m)
  PROVE  SubSeq(m, a + 1, b) \o SubSeq(m, b + 1, c) = SubSeq(m, a + 1, c)
<1>1. m \in Seq(Byte) /\ Len(m) \in Nat
  BY MessageBytes
<1>2. a + 1 \in 1..Len(m) + 1 /\ b \in (a + 1) - 1..Len(m) /\ c \in b..Len(m)
  BY <1>1
<1>3. QED
  BY <1>1, <1>2, ConcatAdjacentSubSeq

\* What is left of a part when its first bytes are taken.
LEMMA PartOfPart ==
  ASSUME NEW m \in Message, NEW a \in 0..Len(m), NEW b \in a..Len(m)
  PROVE  LET r == SubSeq(m, a + 1, Len(m))
         IN  /\ SubSeq(r, 1, b - a) = SubSeq(m, a + 1, b)
             /\ SubSeq(r, b - a + 1, Len(r)) = SubSeq(m, b + 1, Len(m))
<1> DEFINE r == SubSeq(m, a + 1, Len(m))
<1>1. m \in Seq(Byte) /\ Len(m) \in Nat /\ a \in Nat /\ b \in Nat /\ a <= b /\ b <= Len(m)
  BY MessageBytes
<1>2. /\ r \in Seq(Byte) /\ Len(r) = Len(m) - a
      /\ \A i \in 1..(Len(m) - a) : r[i] = m[a + i]
  BY <1>1, PartOf
<1> HIDE DEF r
<1>3. /\ SubSeq(m, a + 1, b) \in Seq(Byte) /\ Len(SubSeq(m, a + 1, b)) = b - a
      /\ \A i \in 1..(b - a) : SubSeq(m, a + 1, b)[i] = m[a + i]
  BY PartOf
<1>4. /\ SubSeq(m, b + 1, Len(m)) \in Seq(Byte) /\ Len(SubSeq(m, b + 1, Len(m))) = Len(m) - b
      /\ \A i \in 1..(Len(m) - b) : SubSeq(m, b + 1, Len(m))[i] = m[b + i]
  BY <1>1, PartOf
<1>5. /\ SubSeq(r, 1, b - a) \in Seq(Byte) /\ Len(SubSeq(r, 1, b - a)) = b - a
      /\ \A i \in 1..(b - a) : SubSeq(r, 1, b - a)[i] = r[i]
  <2>1. \A i \in 1..(b - a) : r[i] \in Byte
    BY <1>1, <1>2
  <2>2. /\ SubSeq(r, 1, b - a) \in Seq(Byte)
        /\ Len(SubSeq(r, 1, b - a)) = IF 1 <= b - a THEN (b - a) - 1 + 1 ELSE 0
        /\ \A i \in 1..(b - a) - 1 + 1 : SubSeq(r, 1, b - a)[i] = r[1 + i - 1]
    BY <1>1, <2>1, SubSeqProperties
  <2>3. QED
    BY <1>1, <2>2
<1>6. /\ SubSeq(r, b - a + 1, Len(r)) \in Seq(Byte)
      /\ Len(SubSeq(r, b - a + 1, Len(r))) = Len(m) - b
      /\ \A i \in 1..(Len(m) - b) : SubSeq(r, b - a + 1, Len(r))[i] = r[b - a + i]
  <2>1. \A i \in (b - a + 1)..Len(r) : r[i] \in Byte
    BY <1>1, <1>2
  <2>2. b - a + 1 \in Int /\ Len(r) \in Int
    BY <1>1, <1>2
  <2>3. /\ SubSeq(r, b - a + 1, Len(r)) \in Seq(Byte)
        /\ Len(SubSeq(r, b - a + 1, Len(r))) =
              IF b - a + 1 <= Len(r) THEN Len(r) - (b - a + 1) + 1 ELSE 0
        /\ \A i \in 1..Len(r) - (b - a + 1) + 1 :
              SubSeq(r, b - a + 1, Len(r))[i] = r[(b - a + 1) + i - 1]
    BY <2>1, <2>2, SubSeqProperties
  <2>4. QED
    BY <1>1, <1>2, <2>3
<1>7. SubSeq(r, 1, b - a) = SubSeq(m, a + 1, b)
  <2>1. \A i \in 1..(b - a) : SubSeq(r, 1, b - a)[i] = SubSeq(m, a + 1, b)[i]
    BY <1>1, <1>2, <1>3, <1>5
  <2>2. QED
    BY <1>3, <1>5, <2>1, SeqEqual
<1>8. SubSeq(r, b - a + 1, Len(r)) = SubSeq(m, b + 1, Len(m))
  <2>1. \A i \in 1..(Len(m) - b) : r[b - a + i] = m[b + i]
    BY <1>1, <1>2
  <2>2. QED
    BY <1>1, <1>4, <1>6, <2>1, SeqEqual
<1>9. QED
  BY <1>7, <1>8 DEF r

\* The first bytes of a message, but not all of them.
LEMMA StrictPart ==
  ASSUME NEW m \in Message, NEW b \in 0..Len(m) - 1
  PROVE  IsStrictPrefix(SubSeq(m, 1, b), m)
<1> DEFINE s == SubSeq(m, 1, b)
<1>1. m \in Seq(Byte) /\ Len(m) \in Nat /\ b \in Nat /\ b < Len(m)
  BY MessageBytes
<1>2. s \in Seq(Byte) /\ Len(s) = b
  BY <1>1, PartOf
<1>3. SubSeq(s, 1, b) = s
  BY <1>2, SubSeqFull
<1>4. QED
  BY <1>1, <1>2, <1>3 DEF IsStrictPrefix, IsPrefix

LEMMA EmptyIsPart == \E m \in Message : IsStrictPrefix(<< >>, m)
<1>1. PICK t \in Tag : TRUE
  BY TagAssumption
<1>2. [k \in 1..1 |-> <<t, k>>] \in Message
  BY SizeAssumption DEF Message
<1>3. PICK m \in Message : TRUE
  BY <1>2
<1>4. Len(m) \in Nat /\ Len(m) > 0
  BY MessageBytes, SizeAssumption
<1>5. SubSeq(m, 1, 0) = << >>
  BY SubSeqEmpty
<1>6. IsStrictPrefix(SubSeq(m, 1, 0), m)
  BY <1>4, StrictPart
<1>7. QED
  BY <1>5, <1>6

\* What comes behind something is a suffix.
LEMMA SuffixOfConcat ==
  ASSUME NEW S, NEW s \in Seq(S), NEW t \in Seq(S)
  PROVE  IsSuffix(t, s \o t)
<1> DEFINE u == s \o t
<1>1. /\ u \in Seq(S) /\ Len(u) = Len(s) + Len(t) /\ Len(s) \in Nat /\ Len(t) \in Nat
      /\ \A i \in 1..Len(s) + Len(t) : u[i] = IF i <= Len(s) THEN s[i] ELSE t[i - Len(s)]
  BY ConcatProperties
<1> HIDE DEF u
<1>2. /\ Reverse(t) \in Seq(S) /\ Len(Reverse(t)) = Len(t)
      /\ \A i \in 1..Len(t) : Reverse(t)[i] = t[Len(t) - i + 1]
  <2>1. \A i \in 1..Len(t) : t[Len(t) - i + 1] \in S
    BY <1>1
  <2>2. Reverse(t) \in [1..Len(t) -> S]
    BY <2>1 DEF Reverse
  <2>3. QED
    BY <1>1, <2>2 DEF Reverse
<1>3. /\ Reverse(u) \in Seq(S) /\ Len(Reverse(u)) = Len(u)
      /\ \A i \in 1..Len(u) : Reverse(u)[i] = u[Len(u) - i + 1]
  <2>1. \A i \in 1..Len(u) : u[Len(u) - i + 1] \in S
    BY <1>1
  <2>2. Reverse(u) \in [1..Len(u) -> S]
    BY <2>1 DEF Reverse
  <2>3. QED
    BY <1>1, <2>2 DEF Reverse
<1>4. \A i \in 1..Len(t) : Reverse(u)[i] = Reverse(t)[i]
  <2> SUFFICES ASSUME NEW i \in 1..Len(t) PROVE Reverse(u)[i] = Reverse(t)[i]
    OBVIOUS
  <2>1. i \in 1..Len(u) /\ Len(u) - i + 1 \in 1..Len(s) + Len(t)
    BY <1>1
  <2>2. Len(u) - i + 1 > Len(s) /\ (Len(u) - i + 1) - Len(s) = Len(t) - i + 1
    BY <1>1
  <2>3. u[Len(u) - i + 1] = t[Len(t) - i + 1]
    BY <1>1, <2>1, <2>2
  <2>4. QED
    BY <1>2, <1>3, <2>1, <2>3
<1>5. SubSeq(Reverse(t), 1, Len(t)) = Reverse(t)
  BY <1>2, SubSeqFull
<1>6. SubSeq(Reverse(u), 1, Len(t)) = Reverse(t)
  <2>1. \A i \in 1..Len(t) : Reverse(u)[i] \in S
    BY <1>1, <1>3
  <2>2. /\ SubSeq(Reverse(u), 1, Len(t)) \in Seq(S)
        /\ Len(SubSeq(Reverse(u), 1, Len(t))) = IF 1 <= Len(t) THEN Len(t) - 1 + 1 ELSE 0
        /\ \A i \in 1..Len(t) - 1 + 1 : SubSeq(Reverse(u), 1, Len(t))[i] = Reverse(u)[1 + i - 1]
    BY <1>1, <2>1, SubSeqProperties
  <2>3. QED
    BY <1>1, <1>2, <1>4, <2>2, SeqEqual
<1>7. QED
  BY <1>1, <1>2, <1>3, <1>5, <1>6 DEF IsSuffix, IsPrefix, u

-----------------------------------------------------------------------------
(* The steps.                                                              *)

LEMMA PacketsInvInit == Init => PacketsInv
<1> SUFFICES ASSUME Init PROVE PacketsInv
  OBVIOUS
<1>1. << >> \in Seq(Byte) /\ << >> \in Seq(Packet)
  OBVIOUS
<1>2. QED
  BY <1>1, EmptyIsPart DEF Init, PacketsInv, TypeOK, SignalledEndsWithMessage, OnItsWay

\* What is left with the phone, while a message is on its way.
LEMMA OnItsWayFacts ==
  ASSUME message \in Message, air \in Seq(Packet), NEW cut, Cuts(cut)
  PROVE  /\ Len(air) \in Nat /\ Len(message) \in Nat /\ message \in Seq(Byte)
         /\ \A i \in 0..Len(air) : cut[i] \in 0..Len(message)
         /\ Len(rest) = Len(message) - cut[Len(air)]
<1>1. Len(air) \in Nat /\ Len(message) \in Nat /\ message \in Seq(Byte)
  BY MessageBytes
<1>2. \A i \in 0..Len(air) : cut[i] \in 0..Len(message)
  BY <1>1 DEF Cuts
<1>3. Len(rest) = Len(message) - cut[Len(air)]
  BY <1>1, <1>2, PartOf DEF Cuts
<1>4. QED
  BY <1>1, <1>2, <1>3

\* If nothing is left and nothing is on the way, there is no message on its way.
LEMMA NothingOnItsWay ==
  ASSUME TypeOK, OnItsWay, rest = << >>, air = << >>
  PROVE  current_message # << >> => cutOff
<1>1. ASSUME message \in Message, NEW cut, Cuts(cut) PROVE FALSE
  <2>1. Len(rest) = 0 /\ Len(air) = 0
    OBVIOUS
  <2>2. cut[0] < Len(message) /\ Len(rest) = Len(message) - cut[0]
    BY <1>1, <2>1, OnItsWayFacts DEF Cuts, TypeOK
  <2>3. cut[0] \in 0..Len(message) /\ Len(message) \in Nat
    BY <1>1, <2>1, OnItsWayFacts DEF TypeOK
  <2>4. QED
    BY <2>1, <2>2, <2>3
<1>2. QED
  BY <1>1 DEF OnItsWay

LEMMA BeginKeeps == PacketsInv /\ BeginMessage => PacketsInv'
<1> SUFFICES ASSUME PacketsInv, BeginMessage PROVE PacketsInv'
  OBVIOUS
<1>1. PICK m \in Message : message' = m /\ rest' = m
  BY DEF BeginMessage
<1>2. m \in Seq(Byte) /\ Len(m) \in Nat /\ 0 < Len(m)
  BY MessageBytes, SizeAssumption
<1>3. TypeOK'
  BY <1>1, <1>2 DEF PacketsInv, TypeOK, BeginMessage
<1>4. SignalledEndsWithMessage'
  BY DEF BeginMessage, SignalledEndsWithMessage
<1>5. OnItsWay'
  <2> DEFINE cut == [i \in 0..0 |-> 0]
  <2>1. air' = << >> /\ Len(air') = 0
    BY DEF BeginMessage
  <2>2. current_message' # << >> => cutOff'
    BY NothingOnItsWay DEF PacketsInv, BeginMessage
  <2>3. SubSeq(m, 1, Len(m)) = m
    BY <1>2, SubSeqFull
  <2>4. cut \in [0..0 -> 0..Len(m)] /\ cut[0] = 0
    BY <1>2
  <2> HIDE DEF cut
  <2>5. Cuts(cut)'
    BY <1>1, <1>2, <2>1, <2>2, <2>3, <2>4 DEF Cuts, BeginMessage
  <2>6. QED
    BY <1>1, <2>5 DEF OnItsWay
<1>6. QED
  BY <1>3, <1>4, <1>5 DEF PacketsInv

\* A packet that is cut off where the last one ended follows the others.
LEMMA CutsExtend ==
  ASSUME TypeOK, message \in Message, NEW cut, Cuts(cut),
         NEW b \in 1..Len(message), NEW packet \in Packet,
         CutOut(packet, cut[Len(air)], b), air' = Append(air, packet),
         rest' = SubSeq(message, b + 1, Len(message)), startByte' = "MIDDLE",
         UNCHANGED <<message, current_message, cutOff>>
  PROVE  \E cut2 : Cuts(cut2)'
<1>1. PICK n \in Nat, L \in Nat : n = Len(air) /\ L = Len(message)
  BY OnItsWayFacts DEF TypeOK
<1>2. /\ cut[n] \in 0..L /\ \A i \in 0..n : cut[i] \in 0..L
  BY <1>1, OnItsWayFacts DEF TypeOK
<1>3. /\ Len(air') = n + 1 /\ air'[n + 1] = packet
      /\ \A i \in 1..n : air'[i] = air[i]
  BY <1>1 DEF TypeOK
<1> DEFINE cut2 == [i \in 0..n + 1 |-> IF i <= n THEN cut[i] ELSE b]
<1>4. /\ cut2 \in [0..n + 1 -> 0..L]
      /\ \A i \in 0..n : cut2[i] = cut[i]
      /\ cut2[n + 1] = b
  BY <1>1, <1>2
<1> HIDE DEF cut2
<1>5. \A i \in 1..n + 1 : CutOut(air'[i], cut2[i - 1], cut2[i])
  <2> SUFFICES ASSUME NEW i \in 1..n + 1 PROVE CutOut(air'[i], cut2[i - 1], cut2[i])
    OBVIOUS
  <2>1. CASE i = n + 1
    <3>1. cut2[i - 1] = cut[n] /\ cut2[i] = b /\ air'[i] = packet
      BY <1>3, <1>4, <2>1
    <3>2. CutOut(packet, cut[n], b)
      BY <1>1
    <3>3. QED
      BY <3>1, <3>2
  <2>2. CASE i \in 1..n
    <3>1. CutOut(air[i], cut[i - 1], cut[i])
      BY <1>1, <2>2 DEF Cuts
    <3>2. i \in 0..n /\ i - 1 \in 0..n
      BY <2>2
    <3>3. QED
      BY <1>3, <1>4, <2>2, <3>1, <3>2
  <2>3. QED
    BY <1>1, <2>1, <2>2
<1>6. \A i \in 1..n + 1 : CutOut(air[i], cut2[i - 1], cut2[i])'
  BY <1>5 DEF CutOut
<1>7. cut2[0] = cut[0] /\ cut2[0] < L
  BY <1>1, <1>4 DEF Cuts
<1>8. Cuts(cut2)'
  BY <1>1, <1>3, <1>4, <1>6, <1>7 DEF Cuts
<1>9. QED
  BY <1>8

\* The loop of send() cuts the next packet off.
LEMMA SendKeeps == PacketsInv /\ SendPacket => PacketsInv'
<1> SUFFICES ASSUME PacketsInv, SendPacket PROVE PacketsInv'
  OBVIOUS
<1> DEFINE size == PacketLen(Len(rest))
           packet == [start |-> StartOf(Len(rest)), bytes |-> SubSeq(rest, 1, size)]
<1>1. /\ air' = Append(air, packet)
      /\ rest' = SubSeq(rest, size + 1, Len(rest))
      /\ startByte' = "MIDDLE"
      /\ UNCHANGED <<link, message, current_message, signalled, cutOff>>
      /\ rest # << >>
  BY DEF SendPacket, NextStart
<1>2. PICK cut : message \in Message /\ Cuts(cut)
  BY <1>1 DEF PacketsInv, OnItsWay
<1>3. PICK c \in Nat, L \in Nat : c = cut[Len(air)] /\ L = Len(message)
  BY <1>2, OnItsWayFacts DEF PacketsInv, TypeOK
<1>4. /\ rest = SubSeq(message, c + 1, L) /\ Len(rest) = L - c
      /\ startByte = IF c = 0 THEN "BEGIN" ELSE "MIDDLE"
  BY <1>2, <1>3, OnItsWayFacts DEF PacketsInv, TypeOK, Cuts
<1>5. Len(rest) > 0
  <2>1. rest \in Seq(Byte)
    BY DEF PacketsInv, TypeOK
  <2>2. QED
    BY <1>1, <2>1
<1>6. PICK b \in 1..L : /\ b = c + size /\ c < b
                        /\ Len(rest) < PacketSize => b = L
                        /\ ~(Len(rest) < PacketSize) => b < L
  <2>1. size \in 1..Len(rest) /\ (Len(rest) < PacketSize <=> size = Len(rest))
    BY <1>4, <1>5, SizeAssumption DEF PacketLen
  <2> HIDE DEF size
  <2>2. c + size \in 1..L
    BY <1>4, <2>1
  <2>3. QED
    BY <1>4, <2>1, <2>2
<1> HIDE DEF size
<1>7. /\ SubSeq(rest, 1, size) = SubSeq(message, c + 1, b)
      /\ SubSeq(rest, size + 1, Len(rest)) = SubSeq(message, b + 1, L)
      /\ SubSeq(message, c + 1, b) \in Seq(Byte)
      /\ SubSeq(message, b + 1, L) \in Seq(Byte)
  <2>1. size \in Nat
    BY <1>4, <1>5, SizeAssumption DEF size, PacketLen
  <2>2. /\ c \in 0..Len(message) /\ b \in c..Len(message) /\ size = b - c
        /\ b \in 0..Len(message) /\ Len(message) \in b..Len(message)
    BY <1>3, <1>6, <2>1
  <2>3. /\ SubSeq(rest, 1, b - c) = SubSeq(message, c + 1, b)
        /\ SubSeq(rest, b - c + 1, Len(rest)) = SubSeq(message, b + 1, L)
    BY <1>2, <1>3, <1>4, <2>2, PartOfPart
  <2>4. SubSeq(message, c + 1, b) \in Seq(Byte)
    BY <1>2, <2>2, PartOf
  <2>5. SubSeq(message, b + 1, Len(message)) \in Seq(Byte)
    BY <1>2, <2>2, PartOf
  <2>6. QED
    BY <1>3, <2>2, <2>3, <2>4, <2>5
<1>8. /\ packet.bytes = SubSeq(message, c + 1, b)
      /\ packet.start = IF Len(rest) < PacketSize THEN "END" ELSE startByte
  BY <1>7 DEF StartOf
<1>9. packet \in Packet
  <2>1. StartOf(Len(rest)) \in StartByte
    BY DEF StartOf, StartByte, PacketsInv, TypeOK
  <2>2. QED
    BY <1>7, <2>1 DEF Packet
<1> HIDE DEF packet
<1>10. CutOut(packet, c, b)
  <2>1. Len(rest) < PacketSize <=> b = L
    BY <1>3, <1>4, <1>6, SizeAssumption
  <2>2. c = 0 => Len(rest) = L
    BY <1>4
  <2>3. QED
    BY <1>3, <1>4, <1>6, <1>8, <2>1, <2>2 DEF CutOut
<1>11. TypeOK'
  <2>1. air \in Seq(Packet)
    BY DEF PacketsInv, TypeOK
  <2>2. air' \in Seq(Packet)
    BY <1>1, <1>9, <2>1, AppendProperties
  <2>3. rest' \in Seq(Byte)
    BY <1>1, <1>7
  <2>4. QED
    BY <1>1, <2>2, <2>3 DEF PacketsInv, TypeOK
<1>12. SignalledEndsWithMessage'
  BY <1>1 DEF PacketsInv, SignalledEndsWithMessage
<1>13. OnItsWay'
  <2>1. \E cut2 : Cuts(cut2)'
    BY <1>1, <1>2, <1>3, <1>7, <1>9, <1>10, CutsExtend DEF PacketsInv
  <2>2. QED
    BY <1>1, <1>2, <2>1 DEF OnItsWay
<1>14. QED
  BY <1>11, <1>12, <1>13 DEF PacketsInv

\* The packet that is written next begins where the receiver has got to.
LEMMA FirstPacket ==
  ASSUME TypeOK, air # << >>, message \in Message, NEW cut, Cuts(cut)
  PROVE  /\ CutOut(Head(air), cut[0], cut[1])
         /\ cut[0] \in 0..Len(message) /\ cut[1] \in 1..Len(message)
         /\ Head(air).bytes \in Seq(Byte)
<1>1. Len(air) \in Nat /\ 1 \in 1..Len(air) /\ Head(air) = air[1] /\ Head(air) \in Packet
  BY DEF TypeOK
<1>2. CutOut(Head(air), cut[1 - 1], cut[1])
  BY <1>1 DEF Cuts
<1>3. /\ cut[0] \in 0..Len(message) /\ cut[1] \in 0..Len(message)
  BY <1>1, OnItsWayFacts DEF TypeOK
<1>4. Len(message) \in Nat
  BY MessageBytes
<1>5. QED
  BY <1>1, <1>2, <1>3, <1>4 DEF CutOut, Packet

\* The receiver has got to the end of that packet.
LEMMA CutsAdvance ==
  ASSUME TypeOK, message \in Message, NEW cut, Cuts(cut), air # << >>, air' = Tail(air),
         cut[1] < Len(message), current_message' = SubSeq(message, 1, cut[1]),
         UNCHANGED <<message, rest, startByte, cutOff>>
  PROVE  \E cut2 : Cuts(cut2)'
<1>1. PICK n \in Nat, L \in Nat : n = Len(air) - 1 /\ L = Len(message) /\ n + 1 = Len(air)
  <2>1. Len(air) \in Nat /\ Len(air) # 0
    BY DEF TypeOK
  <2>2. Len(message) \in Nat
    BY MessageBytes
  <2>3. \E n \in Nat : n = Len(air) - 1 /\ n + 1 = Len(air)
    BY <2>1
  <2>4. QED
    BY <2>2, <2>3
<1>2. \A i \in 0..n + 1 : cut[i] \in 0..L
  BY <1>1, OnItsWayFacts DEF TypeOK
<1>3. Len(air') = n /\ \A i \in 1..n : air'[i] = air[i + 1]
  BY <1>1 DEF TypeOK
<1> DEFINE cut2 == [i \in 0..n |-> cut[i + 1]]
<1>4. cut2 \in [0..n -> 0..L] /\ \A i \in 0..n : cut2[i] = cut[i + 1]
  BY <1>1, <1>2
<1> HIDE DEF cut2
<1>5. \A i \in 1..n : CutOut(air'[i], cut2[i - 1], cut2[i])
  <2> SUFFICES ASSUME NEW i \in 1..n PROVE CutOut(air'[i], cut2[i - 1], cut2[i])
    OBVIOUS
  <2>1. i + 1 \in 1..n + 1 /\ i - 1 \in 0..n /\ i \in 0..n /\ (i + 1) - 1 = i /\ (i - 1) + 1 = i
    BY <1>1
  <2>2. CutOut(air[i + 1], cut[(i + 1) - 1], cut[i + 1])
    BY <1>1, <2>1 DEF Cuts
  <2>3. cut2[i - 1] = cut[i] /\ cut2[i] = cut[i + 1]
    BY <1>4, <2>1
  <2>4. QED
    BY <1>3, <2>1, <2>2, <2>3
<1>6. \A i \in 1..n : CutOut(air[i], cut2[i - 1], cut2[i])'
  BY <1>5 DEF CutOut
<1>7. cut2[0] = cut[1] /\ cut2[n] = cut[n + 1] /\ cut[1] > 0
  BY <1>1, <1>4, FirstPacket
<1>8. /\ rest' = SubSeq(message', cut2[n] + 1, L)
      /\ startByte' = IF cut2[n] = 0 THEN "BEGIN" ELSE "MIDDLE"
  BY <1>1, <1>7 DEF Cuts
<1>9. cut2[0] < L /\ cut2[0] # 0 /\ current_message' = SubSeq(message', 1, cut2[0])
  <2>1. cut[1] \in 0..L
    BY <1>1, <1>2
  <2>2. QED
    BY <1>1, <1>7, <2>1
<1>10. Cuts(cut2)'
  BY <1>1, <1>3, <1>4, <1>6, <1>8, <1>9 DEF Cuts
<1>11. QED
  BY <1>10

\* onWrite(), for a packet that is not the last one.
LEMMA WriteKeeps == PacketsInv /\ (WriteBegin \/ WriteMiddle) => PacketsInv'
<1> SUFFICES ASSUME PacketsInv, WriteBegin \/ WriteMiddle PROVE PacketsInv'
  OBVIOUS
<1>1. /\ air # << >> /\ air' = Tail(air) /\ Head(air).start \in {"BEGIN", "MIDDLE"}
      /\ UNCHANGED <<link, message, rest, startByte, signalled, cutOff>>
      /\ current_message' = IF Head(air).start = "BEGIN" THEN Head(air).bytes
                            ELSE current_message \o Head(air).bytes
  BY DEF WriteBegin, WriteMiddle, sendVars
<1>2. PICK cut : message \in Message /\ Cuts(cut)
  BY <1>1 DEF PacketsInv, OnItsWay
<1>3. PICK a \in Nat, b \in Nat, L \in Nat :
          /\ a = cut[0] /\ b = cut[1] /\ L = Len(message)
          /\ CutOut(Head(air), a, b) /\ 0 < b /\ b <= L
  BY <1>1, <1>2, FirstPacket, MessageBytes DEF PacketsInv
<1>4. b < L /\ a < b
  BY <1>1, <1>3 DEF CutOut
<1>5. current_message' = SubSeq(message, 1, b)
  <2>1. CASE a = 0
    BY <1>1, <1>3, <1>4, <2>1 DEF CutOut
  <2>2. CASE a # 0
    <3>1. current_message = SubSeq(message, 0 + 1, a)
      BY <1>2, <1>3, <2>2 DEF Cuts
    <3>2. current_message' = current_message \o SubSeq(message, a + 1, b)
      BY <1>1, <1>3, <1>4, <2>2 DEF CutOut
    <3>3. 0 \in 0..Len(message) /\ a \in 0..Len(message) /\ b \in a..Len(message)
      BY <1>3, <1>4
    <3>4. SubSeq(message, 0 + 1, a) \o SubSeq(message, a + 1, b) = SubSeq(message, 0 + 1, b)
      BY <1>2, <3>3, PartsJoin
    <3>5. QED
      BY <3>1, <3>2, <3>4
  <2>3. QED
    BY <2>1, <2>2
<1>6. TypeOK'
  <2>1. b \in 0..Len(message) - 1 /\ 0 \in 0..Len(message) /\ b \in 0..Len(message)
    BY <1>3, <1>4
  <2>2. IsStrictPrefix(current_message', message)
    BY <1>2, <1>5, <2>1, StrictPart
  <2>3. current_message' \in Seq(Byte)
    <3>1. SubSeq(message, 0 + 1, b) \in Seq(Byte)
      BY <1>2, <2>1, PartOf
    <3>2. QED
      BY <1>5, <3>1
  <2>4. air' \in Seq(Packet)
    BY <1>1 DEF PacketsInv, TypeOK
  <2>5. QED
    BY <1>1, <1>2, <2>2, <2>3, <2>4 DEF PacketsInv, TypeOK
<1>7. SignalledEndsWithMessage'
  BY <1>1 DEF PacketsInv, SignalledEndsWithMessage
<1>8. OnItsWay'
  <2>1. \E cut2 : Cuts(cut2)'
    BY <1>1, <1>2, <1>3, <1>4, <1>5, CutsAdvance DEF PacketsInv
  <2>2. QED
    BY <1>1, <1>2, <2>1 DEF OnItsWay
<1>9. QED
  BY <1>6, <1>7, <1>8 DEF PacketsInv

\* onWrite(), for the last packet: no other is behind it, and what it completes
\* is the message, or has it at its end.
LEMMA WriteEndKeeps == PacketsInv /\ WriteEnd => PacketsInv'
<1> SUFFICES ASSUME PacketsInv, WriteEnd PROVE PacketsInv'
  OBVIOUS
<1>1. /\ air # << >> /\ air' = Tail(air) /\ Head(air).start = "END"
      /\ UNCHANGED <<link, message, rest, startByte, cutOff>>
      /\ signalled' = current_message \o Head(air).bytes
      /\ current_message' = << >>
  BY DEF WriteEnd, sendVars
<1>2. PICK cut : message \in Message /\ Cuts(cut)
  BY <1>1 DEF PacketsInv, OnItsWay
<1>3. PICK a \in Nat, b \in Nat, L \in Nat :
          /\ a = cut[0] /\ b = cut[1] /\ L = Len(message)
          /\ CutOut(Head(air), a, b) /\ 0 < b /\ b <= L
          /\ Head(air).bytes \in Seq(Byte)
  <2>1. /\ CutOut(Head(air), cut[0], cut[1]) /\ Head(air).bytes \in Seq(Byte)
        /\ cut[0] \in 0..Len(message) /\ cut[1] \in 1..Len(message)
    BY <1>1, <1>2, FirstPacket DEF PacketsInv
  <2>2. Len(message) \in Nat
    BY <1>2, MessageBytes
  <2>3. cut[0] \in Nat /\ cut[1] \in Nat /\ 0 < cut[1] /\ cut[1] <= Len(message)
    BY <2>1, <2>2
  <2>4. QED
    BY <2>1, <2>2, <2>3
<1>4. b = L /\ a < b /\ Head(air).bytes = SubSeq(message, a + 1, L)
  <2>1. /\ a < b /\ Head(air).bytes = SubSeq(message, a + 1, b)
        /\ Head(air).start = IF b = Len(message) THEN "END"
                             ELSE IF a = 0 THEN "BEGIN" ELSE "MIDDLE"
    BY <1>3 DEF CutOut
  <2>2. b = L
    BY <1>1, <1>3, <2>1
  <2>3. QED
    BY <2>1, <2>2
<1>5. current_message \in Seq(Byte) /\ message \in Seq(Byte)
  BY <1>2, MessageBytes DEF PacketsInv, TypeOK
<1>6. air' = << >> /\ rest' = << >>
  <2>1. PICK n \in Nat : n = Len(air) /\ n > 0
    BY <1>1 DEF PacketsInv, TypeOK
  <2>2. ~(n > 1)
    <3>1. CASE n > 1
      <4>1. 2 \in 1..Len(air) /\ 2 \in 0..Len(air) /\ 2 - 1 = 1
        BY <2>1, <3>1
      <4>2. cut[2] \in 0..L
        BY <1>2, <1>3, <4>1, OnItsWayFacts DEF PacketsInv, TypeOK
      <4>3. CutOut(air[2], cut[2 - 1], cut[2])
        BY <1>2, <4>1 DEF Cuts
      <4>4. cut[1] < cut[2]
        BY <4>1, <4>3 DEF CutOut
      <4>5. QED
        BY <1>3, <1>4, <4>2, <4>4
    <3>2. QED
      BY <3>1
  <2>3. n = 1
    BY <2>1, <2>2
  <2>4. air' = << >>
    <3>1. air \in Seq(Packet)
      BY DEF PacketsInv, TypeOK
    <3>2. Tail(air) \in Seq(Packet) /\ Len(Tail(air)) = Len(air) - 1
      BY <1>1, <3>1, HeadTailProperties
    <3>3. QED
      BY <1>1, <2>1, <2>3, <3>2, EmptySeq
  <2>5. rest = SubSeq(message, L + 1, L)
    BY <1>2, <1>3, <1>4, <2>1, <2>3 DEF Cuts
  <2>6. QED
    BY <1>1, <1>3, <2>4, <2>5, SubSeqEmpty
<1>7. IsSuffix(message, signalled') /\ signalled' \in Seq(Byte)
      /\ (signalled' = message \/ (cutOff /\ L < PacketSize))
  <2>1. CASE a = 0
    <3>1. Head(air).bytes = message
      BY <1>3, <1>4, <1>5, <2>1, SubSeqFull
    <3>2. signalled' = current_message \o message
      BY <1>1, <3>1
    <3>3. IsSuffix(message, signalled') /\ signalled' \in Seq(Byte)
      BY <1>5, <3>2, SuffixOfConcat, ConcatProperties
    <3>4. L < PacketSize
      BY <1>3, <1>4, <2>1 DEF CutOut
    <3>5. cutOff \/ current_message = << >>
      BY <1>2, <1>3, <2>1 DEF Cuts
    <3>6. current_message = << >> => signalled' = message
      BY <1>5, <3>2, ConcatEmptySeq
    <3>7. QED
      BY <3>3, <3>4, <3>5, <3>6
  <2>2. CASE a # 0
    <3>1. current_message = SubSeq(message, 0 + 1, a)
      BY <1>2, <1>3, <2>2 DEF Cuts
    <3>2. 0 \in 0..Len(message) /\ a \in 0..Len(message) /\ L \in a..Len(message)
      BY <1>3, <1>4
    <3>3. SubSeq(message, 0 + 1, a) \o SubSeq(message, a + 1, L) = SubSeq(message, 0 + 1, L)
      BY <1>2, <3>2, PartsJoin
    <3>4. signalled' = message
      <4>1. signalled' = SubSeq(message, 0 + 1, L)
        BY <1>1, <1>4, <3>1, <3>3
      <4>2. QED
        BY <1>3, <1>5, <4>1, SubSeqFull
    <3>5. << >> \o message = message /\ << >> \in Seq(Byte)
      BY <1>5, ConcatEmptySeq
    <3>6. QED
      BY <1>5, <3>4, <3>5, SuffixOfConcat
  <2>3. QED
    BY <2>1, <2>2
<1>8. TypeOK'
  <2>1. << >> \in Seq(Byte) /\ << >> \in Seq(Packet)
    OBVIOUS
  <2>2. QED
    BY <1>1, <1>6, <1>7, <2>1, EmptyIsPart DEF PacketsInv, TypeOK
<1>9. SignalledEndsWithMessage'
  BY <1>1, <1>3, <1>7 DEF SignalledEndsWithMessage
<1>10. OnItsWay'
  BY <1>1, <1>6 DEF OnItsWay
<1>11. QED
  BY <1>8, <1>9, <1>10 DEF PacketsInv

\* A write that is no packet, the link, and no step at all.
LEMMA OtherKeeps ==
  PacketsInv /\ (WriteInvalid \/ Connect \/ Disconnect \/ UNCHANGED vars) => PacketsInv'
<1> SUFFICES ASSUME PacketsInv, WriteInvalid \/ Connect \/ Disconnect \/ UNCHANGED vars
             PROVE  PacketsInv'
  OBVIOUS
<1>1. << >> \in Seq(Byte) /\ << >> \in Seq(Packet)
  OBVIOUS
<1>2. CASE WriteInvalid
  <2>1. TypeOK'
    BY <1>1, <1>2, EmptyIsPart DEF PacketsInv, TypeOK, WriteInvalid, sendVars
  <2>2. SignalledEndsWithMessage'
    BY <1>2 DEF PacketsInv, SignalledEndsWithMessage, WriteInvalid, sendVars
  <2>3. OnItsWay'
    BY <1>2 DEF WriteInvalid, sendVars, OnItsWay
  <2>4. QED
    BY <2>1, <2>2, <2>3 DEF PacketsInv
<1>3. CASE Connect \/ UNCHANGED vars
  <2>1. UNCHANGED <<message, rest, startByte, air, current_message, signalled, cutOff>>
        /\ link' \in BOOLEAN
    BY <1>3 DEF Connect, sendVars, vars, PacketsInv, TypeOK
  <2>2. TypeOK' /\ SignalledEndsWithMessage'
    BY <2>1 DEF PacketsInv, TypeOK, SignalledEndsWithMessage
  <2>3. OnItsWay'
    BY <2>1 DEF PacketsInv, OnItsWay, Cuts, CutOut
  <2>4. QED
    BY <2>2, <2>3 DEF PacketsInv
<1>4. CASE Disconnect
  <2>1. TypeOK'
    BY <1>1, <1>4 DEF PacketsInv, TypeOK, Disconnect
  <2>2. SignalledEndsWithMessage'
    BY <1>4 DEF PacketsInv, SignalledEndsWithMessage, Disconnect
  <2>3. OnItsWay'
    BY <1>4 DEF Disconnect, OnItsWay
  <2>4. QED
    BY <2>1, <2>2, <2>3 DEF PacketsInv
<1>5. QED
  BY <1>2, <1>3, <1>4

LEMMA PacketsInvCorrect == Spec => []PacketsInv
<1>1. PacketsInv /\ [Next]_vars => PacketsInv'
  BY BeginKeeps, SendKeeps, WriteKeeps, WriteEndKeeps, OtherKeeps DEF Next
<1>2. QED
  BY PacketsInvInit, <1>1, PTL DEF Spec

-----------------------------------------------------------------------------
(* The theorems.                                                           *)

\* The receiver's buffer never has more than a part of one message, whatever
\* the sizes and however often the link drops (onWrite, ble_interface.cpp:74).
THEOREM PacketsTypeCorrect == Spec => []TypeOK
<1>1. PacketsInv => TypeOK
  BY DEF PacketsInv
<1>2. QED
  BY <1>1, PacketsInvCorrect, PTL

\* What the application is given is the message, unless a dropped link has left
\* bytes behind and the message fits into one packet; it ends with the message
\* even then (send and onWrite).
THEOREM SignalledEndsWithMessageCorrect == Spec => []SignalledEndsWithMessage
<1>1. PacketsInv => SignalledEndsWithMessage
  BY DEF PacketsInv
<1>2. QED
  BY <1>1, PacketsInvCorrect, PTL
=============================================================================
